SPECIFICATION FairSpec
CONSTANTS
  numbers = numbers
  picture = picture
  Slot = {"top", "high"}
  File <- MCFile
  Car <- MCCar
  Queue <- MCQueue
  Dest = {"file", "printer", "localPrinter"}
  MaxWrites = 2
INVARIANTS FreshDelivery OneWriter TerminationHasCause
PROPERTIES  EveryCallAnswered
