\* Four requests on up to three accounts.
SPECIFICATION Spec
CONSTANTS
    Handlers = {h1, h2, h3, h4}
    None = None
    MaxUsers = 3
INVARIANTS SoleRootStands PrivilegeWasGranted PasswordsStayHome LoggedOutStaysOut
SYMMETRY Interchangeable
CHECK_DEADLOCK FALSE
