SPECIFICATION Spec
CONSTANTS
  Destinations = {d1, d2}
  NoMission = NoMission
INVARIANTS
  TypeOK
  ErrorHasReason
  ServiceHasMission
