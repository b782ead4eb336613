SPECIFICATION AuthSpec
CONSTANTS
    MaxCalls = 4
    Registrations <- MCRegistrations
    LoginRequests <- MCLogins
    TenantRequests <- MCTenantRequests
    InitialTenants <- MCTenants
    ClientIds = {"web", "app"}
    Redirects = {"u", "v"}
    CodeLifetime = 1
    MaxCodes = 2
    MaxCodeTime = 2
    Jtis = {"t1", "t2"}
    TtlSeconds = {0, 1, 2}
    MaxListTime = 4
    RoleIds = {"SUPER_ADMIN", "OPERATIONS_MANAGER", "DISPATCHER", "INVENTORY_MANAGER", "AUDITOR", "GHOST"}
    RoleDefinitions <- MCRoleDefinitions
    RoleLists <- MCRoleLists
    Requests <- MCRequests
INVARIANTS DuplicatesOverlap CountSound AccountsAgree SingleUse RevocationAgrees AccessAgrees
CHECK_DEADLOCK FALSE
