------------------------------ MODULE Permissions ------------------------------
(***************************************************************************)
(* The Admin's role tables (permissions/permissions.service.ts), the guard *)
(* that enforces them on a route (permissions/guards/permissions.guard.ts) *)
(* and the seed that fills them in at every deployment                     *)
(* (prisma/rbac-seed-data.ts).                                             *)
(*                                                                         *)
(* A role has a row per menu item, visible or hidden, or none; and a row   *)
(* per permission it is granted.  The seed is a sequence of upserts, not a *)
(* transaction, and requests are served in between.  setRoleMenu() writes  *)
(* a row for every item of the catalogue it read; setRolePermissions()     *)
(* deletes and creates in one transaction, which does not keep another     *)
(* from committing between its two statements.  Widgets are configured     *)
(* like menu items and enforced by no guard.                               *)
(***************************************************************************)
EXTENDS FiniteSets

CONSTANTS Roles,            \* roles, of the UserRole enum
          MenuItems,        \* menu items of the releases
          NewItems,         \* of which these come with the second release
          Keys,             \* permissions, by key
          DefaultMenu,      \* ROLE_MENU_KEYS: the role's items at seeding
          DefaultKeys,      \* ROLE_PERMISSION_KEYS
          Editors           \* requests of the Admins that may overlap

ASSUME NewItemsAssumption == NewItems \subseteq MenuItems
ASSUME DefaultsAssumption == /\ DefaultMenu \in [Roles -> SUBSET MenuItems]
                             /\ DefaultKeys \in [Roles -> SUBSET Keys]

VARIABLES
    release,        \* which release's seed ran or runs: 1 or 2
    seeding,        \* the phase the seed is in; "done": not running
    roleRows,       \* the Role rows
    catalogue,      \* the MenuItem rows
    registered,     \* the Permission rows
    menu,           \* RoleMenuItem: per role and item "shown", "hidden", "none"
    grants,         \* RolePermission: per role the keys granted
    editor,         \* what each request remembers between its statements
    wanted,         \* history: per role the items last chosen and known then
    editsOverlapped,\* history: two writers of permissions overlapped
    grantedSet      \* history: per role {the keys of the last edit}

permissionTables == <<roleRows, catalogue, registered, menu, grants>>
permissions == <<permissionTables, release, seeding, editor, wanted,
                 editsOverlapped, grantedSet>>

NoEditor == [pc |-> "idle"]
Unedited == [shown |-> {}, known |-> {}]
Phases == {"roles", "permissions", "items", "menu", "grants", "done"}

PermissionsInit ==
    /\ release = 1 /\ seeding = "roles"
    /\ roleRows = {} /\ catalogue = {} /\ registered = {}
    /\ menu = [r \in Roles |-> [i \in MenuItems |-> "none"]]
    /\ grants = [r \in Roles |-> {}]
    /\ editor = [e \in Editors |-> NoEditor]
    /\ wanted = [r \in Roles |-> Unedited]
    /\ editsOverlapped = FALSE
    /\ grantedSet = [r \in Roles |-> {}]

-------------------------------------------------------------------------------
(* What the tables mean.                                                   *)

(* PermissionsGuard with @RequireMenuKey: open unless hidden explicitly.   *)
GuardAllowsMenu(role, item) == role \in roleRows => menu[role][item] # "hidden"

(* PermissionsGuard with @RequirePermission: closed once the key exists.   *)
GuardAllowsKey(role, key) ==
    key \in registered => role \in roleRows /\ key \in grants[role]

(* getMyAccess(): the items shown explicitly.                              *)
Sidebar(role) ==
    {i \in catalogue : role \in roleRows /\ menu[role][i] = "shown"}

(* getRoleMenuState(): what the Admin's matrix shows as visible.           *)
Matrix(role) == {i \in catalogue : menu[role][i] # "hidden"}

-------------------------------------------------------------------------------
(* seedRbac(), phase by phase.                                             *)

Phase(from, to) == seeding = from /\ seeding' = to /\ UNCHANGED release

SeedRoles ==
    /\ Phase("roles", "permissions")
    /\ roleRows' = Roles
    /\ UNCHANGED <<catalogue, registered, menu, grants, editor, wanted,
                   editsOverlapped, grantedSet>>

SeedPermissions ==
    /\ Phase("permissions", "items")
    /\ registered' = Keys
    /\ UNCHANGED <<roleRows, catalogue, menu, grants, editor, wanted,
                   editsOverlapped, grantedSet>>

SeedMenuItems ==
    /\ Phase("items", "menu")
    /\ catalogue' = IF release = 1 THEN MenuItems \ NewItems ELSE MenuItems
    /\ UNCHANGED <<roleRows, registered, menu, grants, editor, wanted,
                   editsOverlapped, grantedSet>>

(* Every default item is shown, also one the Admin has hidden since.       *)
SeedRoleMenu ==
    /\ Phase("menu", "grants")
    /\ menu' = [r \in Roles |-> [i \in MenuItems |->
                   IF i \in DefaultMenu[r] \cap catalogue THEN "shown"
                                                         ELSE menu[r][i]]]
    /\ wanted' = [r \in Roles |->
                    [wanted[r] EXCEPT !.known = @ \ DefaultMenu[r]]]
    /\ UNCHANGED <<roleRows, catalogue, registered, grants, editor,
                   editsOverlapped, grantedSet>>

SeedRolePermissions ==
    /\ Phase("grants", "done")
    /\ grants' = [r \in Roles |-> grants[r] \cup DefaultKeys[r]]
    /\ grantedSet' = [r \in Roles |-> {}]
    /\ editsOverlapped' = (editsOverlapped \/
                           \E e \in Editors : editor[e].pc = "grants")
    /\ UNCHANGED <<roleRows, catalogue, registered, menu, editor, wanted>>

(* The next release is deployed, or the seed run again after it died.      *)
SeedAgain ==
    /\ seeding # "roles"
    /\ seeding' = "roles"
    /\ release' = 2
    /\ UNCHANGED <<permissionTables, editor, wanted, editsOverlapped,
                   grantedSet>>

-------------------------------------------------------------------------------
(* setRoleMenu(): the catalogue is read, the keys are checked against it,  *)
(* and every item of it gets a row, in one transaction.                    *)

ReadRoleMenu(e, role, shown) ==
    /\ editor[e] = NoEditor
    /\ role \in roleRows
    /\ shown \subseteq catalogue
    /\ editor' = [editor EXCEPT ![e] = [pc |-> "menu", role |-> role,
                                        shown |-> shown, known |-> catalogue]]
    /\ UNCHANGED <<permissionTables, release, seeding, wanted, editsOverlapped,
                   grantedSet>>

(* Mutant: an item left out loses its row instead of being hidden.         *)
RowLeftOut == "none"

RowHidden == "hidden"

SetRoleMenu(e) ==
    /\ editor[e].pc = "menu"
    /\ LET edit == editor[e]
       IN  /\ menu' = [menu EXCEPT ![edit.role] =
                          [i \in MenuItems |->
                             IF i \in edit.shown THEN "shown"
                             ELSE IF i \in edit.known THEN RowHidden
                                                      ELSE @[i]]]
           /\ wanted' = [wanted EXCEPT ![edit.role] =
                            [shown |-> edit.shown \cup (@.shown \ edit.known),
                             known |-> edit.known \cup @.known]]
    /\ editor' = [editor EXCEPT ![e] = NoEditor]
    /\ UNCHANGED <<roleRows, catalogue, registered, grants, release, seeding,
                   editsOverlapped, grantedSet>>

(* setRolePermissions(): deleteMany, then createMany of the keys, which    *)
(* fails, and undoes the transaction, when another has created one.        *)
BeginRolePermissions(e, role, keys) ==
    /\ editor[e] = NoEditor
    /\ role \in roleRows
    /\ keys \subseteq registered
    /\ editor' = [editor EXCEPT ![e] = [pc |-> "grants", role |-> role,
                                        keys |-> keys, deleted |-> grants[role]]]
    /\ editsOverlapped' = (editsOverlapped \/
                           \E f \in Editors : editor[f].pc = "grants")
    /\ UNCHANGED <<permissionTables, release, seeding, wanted, grantedSet>>

(* The rows this transaction saw are gone; another's stay.                 *)
DeleteGranted(old, edit) == old \ edit.deleted

SetRolePermissions(e) ==
    /\ editor[e].pc = "grants"
    /\ LET edit == editor[e]
           left == DeleteGranted(grants[edit.role], edit)
       IN  IF left \cap edit.keys = {}
           THEN /\ grants' = [grants EXCEPT ![edit.role] = left \cup edit.keys]
                /\ grantedSet' = [grantedSet EXCEPT ![edit.role] = {edit.keys}]
           ELSE UNCHANGED <<grants, grantedSet>>
    /\ editor' = [editor EXCEPT ![e] = NoEditor]
    /\ UNCHANGED <<roleRows, catalogue, registered, menu, release, seeding,
                   wanted, editsOverlapped>>

PermissionsNext ==
    \/ SeedRoles \/ SeedPermissions \/ SeedMenuItems \/ SeedRoleMenu
    \/ SeedRolePermissions \/ SeedAgain
    \/ \E e \in Editors :
          \/ SetRoleMenu(e) \/ SetRolePermissions(e)
          \/ \E r \in Roles :
                \/ \E shown \in SUBSET MenuItems : ReadRoleMenu(e, r, shown)
                \/ \E keys \in SUBSET Keys : BeginRolePermissions(e, r, keys)

PermissionsSpec == PermissionsInit /\ [][PermissionsNext]_permissions

-------------------------------------------------------------------------------
(* Properties.                                                             *)

Editor ==
    {NoEditor}
    \cup [pc : {"menu"}, role : Roles, shown : SUBSET MenuItems,
          known : SUBSET MenuItems]
    \cup [pc : {"grants"}, role : Roles, keys : SUBSET Keys,
          deleted : SUBSET Keys]

PermissionsTypeOK ==
    /\ release \in {1, 2} /\ seeding \in Phases
    /\ roleRows \subseteq Roles
    /\ catalogue \subseteq MenuItems /\ registered \subseteq Keys
    /\ menu \in [Roles -> [MenuItems -> {"none", "shown", "hidden"}]]
    /\ grants \in [Roles -> SUBSET Keys]
    /\ editor \in [Editors -> Editor]
    /\ wanted \in [Roles -> [shown : SUBSET MenuItems, known : SUBSET MenuItems]]
    /\ editsOverlapped \in BOOLEAN
    /\ grantedSet \in [Roles -> SUBSET SUBSET Keys]

(* Whatever the seed and the Admins do at once, a role is never refused a  *)
(* page its own sidebar offers (getMyAccess, PermissionsGuard).            *)
SidebarIsAllowed ==
    \A r \in Roles : \A i \in Sidebar(r) : GuardAllowsMenu(r, i)

(* The Admin's matrix shows as visible exactly what the guard lets through *)
(* (getRoleMenuState, PermissionsGuard).                                   *)
MatrixTellsTheGuard ==
    \A r \in roleRows : \A i \in catalogue :
        i \in Matrix(r) <=> GuardAllowsMenu(r, i)

(* A page the Admin left out of the role's last edit is refused, since the *)
(* edit recorded it as hidden; a seed that shows it again is a known gap   *)
(* (setRoleMenu).                                                          *)
LeftOutIsRefused ==
    \A r \in Roles : \A i \in wanted[r].known \ wanted[r].shown :
        ~GuardAllowsMenu(r, i)

(* As long as no two writers of permissions overlap, a role has the        *)
(* permissions of its last edit, and none of an earlier one                *)
(* (setRolePermissions).                                                   *)
GrantsAreOfLastEdit ==
    ~editsOverlapped =>
        \A r \in Roles : \A keys \in grantedSet[r] : grants[r] = keys

(* The role tables mean to every reader what the Admin last chose (the     *)
(* four above).                                                            *)
RoleTablesAgree ==
    /\ SidebarIsAllowed /\ MatrixTellsTheGuard
    /\ LeftOutIsRefused /\ GrantsAreOfLastEdit

===============================================================================
