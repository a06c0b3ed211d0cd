----------------------------- MODULE Connections -----------------------------
(* What is between a client and the scheduler: the bytes of a socket and the *)
(* requests in them (gio_istream_adapter.cc), the result that is written     *)
(* back (socket_interface_connection.cc), and the files of the watchdogs     *)
(* (file_interface_handler.cc, file_interface_connection.cc).  XmlProcessor  *)
(* has what happens to the requests.                                         *)
EXTENDS Integers, FiniteSets, SequencesExt

CONSTANTS
    SendLimit,      \* bytes that a client sends
    ReadMax,        \* bytes of one read (1024)
    ArrivalLimit    \* files that arrive

ASSUME ConnectionAssumption == SendLimit \in Nat /\ ReadMax \in Nat \ {0} /\ ArrivalLimit \in Nat

CnZero == 0                   \* the terminator of a request and of a result
CnByte == 0..SendLimit        \* another byte is known by its place in the stream

\* A result as the widths of its characters in UTF-8.
CnResults == UNION {[1..n -> {1, 2}] : n \in 1..2}

FileContents == {"request", "malformed", "empty"}

VARIABLES
    so,     \* the connection of one client, and what the client sees
    fi      \* the connections of the files

cnVars == <<so, fi>>

CnSocket == [registered : BOOLEAN,    \* in _connection_list
           alive : BOOLEAN,         \* the daemon
           sent : Seq(CnByte), closed : BOOLEAN,
           read : 0..SendLimit,
           list : Seq(Seq(CnByte)),   \* _bytes_list
           requests : Seq(Seq(CnByte)),
           answered : 0..SendLimit,
           writing : BOOLEAN, result : CnResults \cup {<<>>}, written : Nat, partial : BOOLEAN,
           got : Seq((1..2) \X (0..2))]

CnFiles == [waiting : 0..ArrivalLimit,     \* requests that wait for their result
          kept : 0..ArrivalLimit,        \* connections that nobody removes
          list : 0..ArrivalLimit,        \* the length of _connection_list
          results : 0..ArrivalLimit, unwritten : 0..ArrivalLimit,
          arrived : [FileContents -> 0..ArrivalLimit]]

CnTypeOK == so \in CnSocket /\ fi \in CnFiles

CnInit ==
    /\ so = [registered |-> TRUE, alive |-> TRUE, sent |-> <<>>, closed |-> FALSE, read |-> 0, list |-> <<>>,
             requests |-> <<>>, answered |-> 0,
             writing |-> FALSE, result |-> <<>>, written |-> 0, partial |-> FALSE, got |-> <<>>]
    /\ fi = [waiting |-> 0, kept |-> 0, list |-> 0, results |-> 0, unwritten |-> 0,
             arrived |-> [c \in FileContents |-> 0]]

----------------------------------------------------------------------------
(* Bytes to requests.                                                        *)

\* bytes_list_check_zero: only the last element is looked at
CheckZero(list) == IF list = <<>> THEN 0 ELSE SelectInSeq(Last(list), LAMBDA b : b = CnZero)

\* What stays in the list after the terminator at k.
Remain(last, k) == IF k = Len(last) THEN <<>> ELSE <<SubSeq(last, k + 1, Len(last))>>

\* pop_bytes_list: all before the terminator; nothing where it comes first
Popped(list, k) ==
    FlattenSeq(Front(list)) \o SubSeq(Last(list), 1, k - 1)

\* stream_complete: what is empty is no request
Emitted(requests, bytes) == IF bytes = <<>> THEN requests ELSE Append(requests, bytes)

\* The loop of received_bytes: one pass for each terminator in what was read.
Rinse(list, requests) ==
    LET rinse[p \in [list : Seq(Seq(CnByte)), requests : Seq(Seq(CnByte))]] ==
            LET k == CheckZero(p.list)
            IN IF k = 0 THEN p
               ELSE rinse[[list |-> Remain(Last(p.list), k), requests |-> Emitted(p.requests, Popped(p.list, k))]]
    IN rinse[[list |-> list, requests |-> requests]]

CnOpen == so.alive /\ so.registered /\ ~so.writing

CnSend ==
    /\ ~so.closed /\ Len(so.sent) < SendLimit
    /\ \E b \in {CnZero, Len(so.sent) + 1} : so' = [so EXCEPT !.sent = Append(@, b)]
    /\ UNCHANGED fi

CnClose == ~so.closed /\ so' = [so EXCEPT !.closed = TRUE] /\ UNCHANGED fi

\* Mutant: What is read replaces what was kept.
CnReceivedAnew ==
    /\ CnOpen
    /\ \E n \in 1..ReadMax :
          /\ so.read + n <= Len(so.sent)
          /\ LET chunk == SubSeq(so.sent, so.read + 1, so.read + n)
                 rest == Rinse(<<chunk>>, so.requests)
             IN so' = [so EXCEPT !.read = @ + n, !.list = rest.list, !.requests = rest.requests]
    /\ UNCHANGED fi

\* received_bytes, of as many bytes as there are or fewer
CnReceived ==
    /\ CnOpen
    /\ \E n \in 1..ReadMax :
          /\ so.read + n <= Len(so.sent)
          /\ LET chunk == SubSeq(so.sent, so.read + 1, so.read + n)
                 rest == Rinse(Append(so.list, chunk), so.requests)
             IN so' = [so EXCEPT !.read = @ + n, !.list = rest.list, !.requests = rest.requests]
    /\ UNCHANGED fi

\* At the end of the stream what is left is a request, and the connection goes.
CnEof ==
    /\ CnOpen /\ so.closed /\ so.read = Len(so.sent)
    /\ so' = [so EXCEPT !.registered = FALSE, !.requests = Emitted(@, FlattenSeq(so.list))]
    /\ UNCHANGED fi

\* A connection that is reset instead: read_bytes_finish throws in a callback.
CnReset ==
    /\ CnOpen /\ so.closed
    /\ so' = [so EXCEPT !.alive = FALSE] /\ UNCHANGED fi

----------------------------------------------------------------------------
(* Results to bytes.                                                        *)

\* The bytes of characters k.. of a result, each with its place in it.
BytesFrom(result, k) ==
    FlattenSeq([i \in 1..(Len(result) - k + 1) |->
                   [j \in 1..result[k + i - 1] |-> <<k + i - 1, j>>]])

\* The daemon sends a result.  (After the end of the stream it ends here:
\* EmitResultOnClosedConnection of XmlProcessor.)
CnEmitResult ==
    /\ CnOpen /\ so.answered < Len(so.requests)
    /\ \E result \in CnResults :
          so' = [so EXCEPT !.writing = TRUE, !.result = result, !.written = 0, !.partial = FALSE, !.got = <<>>]
    /\ UNCHANGED fi

\* emit_result: the loop counts the bytes that were written, and takes the
\* count for one of characters, in the condition and in substr.
CnWrite ==
    /\ so.alive /\ so.writing /\ ~so.closed /\ so.written < Len(so.result)
    /\ LET rest == BytesFrom(so.result, so.written + 1)
       IN \E n \in 1..Len(rest) :
             so' = [so EXCEPT !.written = @ + n, !.got = @ \o SubSeq(rest, 1, n), !.partial = @ \/ n < Len(rest)]
    /\ UNCHANGED fi

CnTerminate ==
    /\ so.alive /\ so.writing /\ ~so.closed /\ so.written >= Len(so.result)
    /\ so' = [so EXCEPT !.writing = FALSE, !.answered = @ + 1, !.got = Append(@, <<1, 0>>)]
    /\ UNCHANGED fi

\* The client is gone: write throws, and nothing on the way catches it.
CnWriteFails ==
    /\ so.alive /\ so.writing /\ so.closed
    /\ so' = [so EXCEPT !.alive = FALSE] /\ UNCHANGED fi

----------------------------------------------------------------------------
(* Files.                                                                    *)

\* emit_result writes the result file, or not, and closes the connection.
FileAnswered(f) ==
    {[f EXCEPT !.results = @ + 1, !.list = @ - 1], [f EXCEPT !.unwritten = @ + 1, !.list = @ - 1]}

\* incoming_file_content: the connection is registered before its content is
\* looked at; an empty one is thrown back to the watchdog, which goes on.
FiArrive(content) ==
    /\ fi.arrived["request"] + fi.arrived["malformed"] + fi.arrived["empty"] < ArrivalLimit
    /\ LET new == [fi EXCEPT !.list = @ + 1, !.arrived[content] = @ + 1]
       IN CASE content = "empty" -> fi' = [new EXCEPT !.kept = @ + 1]
            [] content = "malformed" -> fi' \in FileAnswered(new)
            [] content = "request" -> fi' = [new EXCEPT !.waiting = @ + 1]
    /\ UNCHANGED so

FiAnswer ==
    /\ fi.waiting > 0
    /\ fi' \in FileAnswered([fi EXCEPT !.waiting = @ - 1])
    /\ UNCHANGED so

SoNext ==
    \/ CnSend \/ CnClose \/ CnReceived \/ CnEof \/ CnReset
    \/ CnEmitResult \/ CnWrite \/ CnTerminate \/ CnWriteFails

FiNext == (\E content \in FileContents : FiArrive(content)) \/ FiAnswer

CnNext == SoNext \/ FiNext

CnSpec == CnInit /\ [][CnNext]_cnVars

----------------------------------------------------------------------------
\* Where the requests in a stream begin and end: what stands between terminators
\* and is not empty, and at the end of the stream also what stands behind the last.
Segments(bytes, ended) ==
    {s \in (1..Len(bytes)) \X (1..Len(bytes)) :
        /\ s[1] <= s[2] /\ \A k \in s[1]..s[2] : bytes[k] # CnZero
        /\ s[1] > 1 => bytes[s[1] - 1] = CnZero
        /\ IF s[2] < Len(bytes) THEN bytes[s[2] + 1] = CnZero ELSE ended}

\* The requests are what stands at the segments, each once and in order.
SplitBy(requests, bytes, segments) ==
    \E at \in [DOMAIN requests -> segments] :
        /\ \A k, l \in DOMAIN requests : k < l => at[k][1] < at[l][1]
        /\ \A segment \in segments : \E k \in DOMAIN requests : at[k] = segment
        /\ \A k \in DOMAIN requests : requests[k] = SubSeq(bytes, at[k][1], at[k][2])

AreRequestsIn(requests, bytes, ended) == SplitBy(requests, bytes, Segments(bytes, ended))

(* The requests that reach the scheduler are those the client has sent, each *)
(* once and in order, wherever the reads cut the stream (gio_istream_        *)
(* adapter.h: a signal "whenever a single request was received").            *)
RequestsAsSent == AreRequestsIn(so.requests, SubSeq(so.sent, 1, so.read), ~so.registered)

(* What waits for its terminator contains none and no empty piece: the check *)
(* looks at the last piece only, and the stream made of the pieces reads the *)
(* first byte of each (byteslist_istream.cc).                                *)
PiecesAreOpen ==
    so.registered => \A k \in DOMAIN so.list : so.list[k] # <<>> /\ ~Contains(so.list[k], CnZero)

(* The client gets every byte of a result, once, in order and terminated. A  *)
(* result with characters of two bytes is the exception when the socket does *)
(* not take all of it at once: then some bytes are left out.                 *)
ResultWhole ==
    ~so.writing /\ so.got # <<>> /\ (so.partial => \A k \in DOMAIN so.result : so.result[k] = 1) =>
        so.got = Append(BytesFrom(so.result, 1), <<1, 0>>)

(* A connection of a file stays registered until its result is written or    *)
(* could not be, and no longer; that of an empty file stays for ever, and    *)
(* the next one when the watchdog comes to the same file again.              *)
ListIsTrue ==
    /\ fi.list = fi.waiting + fi.kept
    /\ fi.kept = fi.arrived["empty"]
    /\ fi.results + fi.unwritten + fi.waiting = fi.arrived["request"] + fi.arrived["malformed"]

(* Requests come in and results go out whole, and connections are those that *)
(* wait for one.                                                             *)
ConnectionsHold == RequestsAsSent /\ PiecesAreOpen /\ ResultWhole /\ ListIsTrue

(* Every file with a request is answered, if the scheduler answers requests. *)
FilesAreAnswered == []<>(fi.waiting = 0)
=============================================================================
