SPECIFICATION Spec
CONSTANTS
  Versions = {v1, v2}
  v1 = v1
  v2 = v2
  Roles = {staff, guest}
  staff = staff
  guest = guest
  Fields <- MCFields
  SchemaFields <- MCSchemaFields
  Apps <- MCApps
  Requests <- MCRequests
  RecordVersions <- MCRecordVersions
  None = None
INVARIANTS
  MostSpecificRuns
  NothingRunsUnguarded
  ShowsWhatIsAllowed
  NotModifiedIsTrue
