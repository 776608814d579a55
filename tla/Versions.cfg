SPECIFICATION Spec
CONSTANTS
  Catalogue <- AllMethods
  Queries <- AllQueries
  Resource <- AllTypes
  Special <- SpecialTypes
  Contents = {blank, sound, faulty}
  Faulty = {faulty}
  Blank = blank
  Whole <- MCWhole
  None = None
  Immediate <- SavingActive
  Direct <- DeletingDirectly
  ChecksSaved <- MCChecksSaved
  IgnoresCheck <- IgnoringReport
  AnyVersion <- ReadingAnyVersion
  BackUnstated <- ReadingBackUnstated
  IgnoresVerdict <- IgnoringVerdict
  ReadsDeletion <- ReadingDeletion
  IgnoresActivation <- IgnoringActivation
  Unproven <- CreatingUnproven
INVARIANTS
  TypeOK
  WritesTakeEffect
  ReportedNotWritten
  ReadBackOwn
  VersionHonoured
  AbsenceProven
  ExistenceDelivered
