SPECIFICATION Spec
CONSTANTS
  Routes = {"project", "view", "teams", "task"}
  Login = "login"
  Home = "teams"
  Parent = "project"
  Pages = {"projects", "teams", "task"}
  PageOf <- Shows
  Default <- Views
  Eager = {"projects"}
  Guarded = {"projects", "task"}
  Restarts = {"projects"}
  Editing = {"task"}
  None = "none"
  Impatient = FALSE
  MaxActs = 4
INVARIANTS TypeOK SignedOutShowsNothing OnlyTheRoutesPage ArrivesWhereAsked
PROPERTIES PageAppears
CHECK_DEADLOCK FALSE
