\* Expressions at the edges of the calendar and of the fields' ranges.
SPECIFICATION ScheduleSpec
CONSTANTS
  Exprs <- MCExprs
  Starts <- MCStarts
  Zones <- MCZones
  Width = 8
  MaxFires = 5
INVARIANTS
  FieldsAreExact
PROPERTIES
  ChainIsComplete
CHECK_DEADLOCK FALSE
