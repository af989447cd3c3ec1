CONSTANTS
  None = None
  Key = {"k"}
  Text = {"1", "2"}
  Signal <- MCSignal
  Field = {"f", "g", "type"}
  FieldType <- MCFieldType
  Number = {"1"}
  Accepting <- MCAccepting
  Routes <- MCRoutes
  MaxStops = 2
  MaxClient = 2
SPECIFICATION Spec
INVARIANTS
  LayersRespected
  
