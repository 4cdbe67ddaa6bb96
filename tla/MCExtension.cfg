SPECIFICATION Spec
CONSTANTS
    Id = {i1, i2}
    NoId = NoId
    Site = {s1}
    NoSite = NoSite
    Op = {o1, o2}
    MaxKey = 3
    MaxRetired = 2
    MaxDeeds = 3
    Offered = {"create", "select", "delete", "export", "import", "destroy", "connect", "login",
               "rotate", "add", "remove", "autosign", "authorize", "access", "exit"}
INVARIANT WorkerInv
PROPERTIES  Responsive
CHECK_DEADLOCK FALSE
