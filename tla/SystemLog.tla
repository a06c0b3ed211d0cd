----------------------------- MODULE SystemLog -----------------------------
(* The log of the SIC (log_handler.cc, log.cc, core_function_log.cc): what   *)
(* is below the log level waits in a ring buffer and is written when an      *)
(* error comes.  An entry is the number of its arrival; the state of the     *)
(* handler is one record, because others log in the middle of their own      *)
(* steps.                                                                    *)
EXTENDS Integers, FiniteSets, SequencesExt

CONSTANTS
    BufferSizes,    \* the sizes the configuration may give; 0 is not a number
    DefaultSize,    \* what is taken for 0 (64 in the code)
    EntryLimit      \* bound: logged entries

ASSUME SystemLogConstants ==
    BufferSizes \subseteq Nat /\ DefaultSize \in Nat \ {0} /\ EntryLimit \in Nat

Levels == 0..4
Debug == 0
Warning == 2
Error == 3

VARIABLES
    lg,         \* the log handler and its file
    lgWaiting,  \* history: what went into the ring since it was last emptied
    lgFailed    \* a write to the file has failed

lgVars == <<lg, lgWaiting, lgFailed>>

LogState(l) ==
    /\ DOMAIN l = {"ring", "idx", "cnt", "level", "file", "next"}
    /\ \A i \in DOMAIN l.ring : l.ring[i] \in 0..(l.next - 1)
    /\ l.idx \in DOMAIN l.ring /\ l.cnt \in Nat
    /\ l.level \in Levels
    /\ \A i \in DOMAIN l.file : l.file[i] \in 1..(l.next - 1)
    /\ l.next \in Nat

LgTypeOK ==
    /\ LogState(lg)
    /\ lgWaiting \in Seq(1..EntryLimit)
    /\ lgFailed \in BOOLEAN

Size(l) == Cardinality(DOMAIN l.ring)

Ring(size) == [i \in 0..(size - 1) |-> 0]

Insert(l) ==
    [l EXCEPT !.ring[l.idx] = l.next, !.idx = (l.idx + 1) % Size(l), !.cnt = @ + 1, !.next = @ + 1]

\* flush(): from the oldest entry on, over the end of the array.
Contents(l) ==
    LET entries == IF l.cnt < Size(l) THEN l.cnt ELSE Size(l)
        start == IF l.cnt >= Size(l) THEN l.idx ELSE 0
    IN [i \in 1..entries |-> l.ring[(start + i - 1) % entries]]

Flush(l) == [l EXCEPT !.file = @ \o Contents(l), !.idx = 0, !.cnt = 0]

Write(l) == [l EXCEPT !.file = Append(@, l.next), !.next = @ + 1]

(***************************************************************************)
(* log_common and log: below the level into the ring, an error through the *)
(* ring, anything else past it.                                            *)
(***************************************************************************)
LogEntry(l, level) ==
    CASE level < l.level -> Insert(l)
      [] level >= l.level /\ level >= Error -> Flush(Insert(l))
      [] OTHER -> Write(l)

Waits(l, level) == level < l.level

\* Truncating keeps the last lines of the file.
LogTruncate(l, keep) == [l EXCEPT !.file = SubSeq(@, IF Len(@) > keep THEN Len(@) - keep + 1 ELSE 1, Len(@))]

\* Mutant: The index stays where it was when the ring gets smaller.
SetBufferSizeOnly(l, size) ==
    IF size # 0 /\ size = Size(l) THEN l ELSE [l EXCEPT !.ring = Ring(IF size = 0 THEN DefaultSize ELSE size)]

\* Another size empties the ring without writing it, and so does no size.
RingStays(l, size) == size # 0 /\ size = Size(l)

SetBufferSize(l, size) ==
    IF RingStays(l, size) THEN l
    ELSE [l EXCEPT !.ring = Ring(IF size = 0 THEN DefaultSize ELSE size), !.idx = 0, !.cnt = 0]

\* A level with no name in the configuration is Info; a name that is no level
\* throws and leaves the level as it is, like that one set again.
OnLogConfigChanged(l, size, level) == [SetBufferSize(l, size) EXCEPT !.level = level]

Opened(size, level) ==
    [ring |-> Ring(IF size = 0 THEN DefaultSize ELSE size), idx |-> 0, cnt |-> 0,
     level |-> level, file |-> <<>>, next |-> 1]

----------------------------------------------------------------------------
LgInit ==
    /\ lg = Opened(DefaultSize, Warning)
    /\ lgWaiting = <<>> /\ lgFailed = FALSE

\* The log function and everything the SIC logs itself.
LgLog(level) ==
    /\ lg.next <= EntryLimit
    /\ lg' = LogEntry(lg, level)
    /\ lgWaiting' = IF Waits(lg, level) THEN Append(lgWaiting, lg.next)
                    ELSE IF level >= Error THEN <<>> ELSE lgWaiting
    /\ UNCHANGED lgFailed

\* The disk is full: flush() throws between two entries and resets nothing.
LgWriteFails ==
    /\ lg.next <= EntryLimit /\ ~lgFailed
    /\ LET in == Insert(lg)
       IN \E n \in 0..(Len(Contents(in)) - 1) :
             lg' = [in EXCEPT !.file = @ \o SubSeq(Contents(in), 1, n)]
    /\ lgWaiting' = Append(lgWaiting, lg.next)
    /\ lgFailed' = TRUE

LgConfigure ==
    /\ \E size \in BufferSizes, level \in Levels :
          /\ lg' = OnLogConfigChanged(lg, size, level)
          /\ lgWaiting' = IF RingStays(lg, size) THEN lgWaiting ELSE <<>>
    /\ UNCHANGED lgFailed

LgNext == (\E level \in Levels : LgLog(level)) \/ LgWriteFails \/ LgConfigure

LgSpec == LgInit /\ [][LgNext]_lgVars

----------------------------------------------------------------------------
(* What flush() would write is the newest of the waiting entries, as many as *)
(* the ring holds, in the order in which they came: after any number of      *)
(* turns, flushes and changes of its size and of the level.                  *)
RingHoldsNewest ==
    LET n == IF Len(lgWaiting) < Size(lg) THEN Len(lgWaiting) ELSE Size(lg)
    IN Contents(lg) = SubSeq(lgWaiting, Len(lgWaiting) - n + 1, Len(lgWaiting))

(* No entry is in the file twice, unless a flush was broken off: the next    *)
(* one repeats what was already written (log_handler.cc:139-143).            *)
LoggedOnce ==
    ~lgFailed => \A i, j \in DOMAIN lg.file : lg.file[i] = lg.file[j] => i = j
=============================================================================
