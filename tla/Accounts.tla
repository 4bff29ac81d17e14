------------------------------ MODULE Accounts ------------------------------
(***************************************************************************)
(* One user's account: the second factor as two tables hold it             *)
(* (accounts/views/two_factor_auth.py), and the session of one browser, as *)
(* its cookies hold it (basic_auth.py, jwt.py, refreshJWT.js).             *)
(*                                                                         *)
(* The row of the user says whether a code is asked for, the devices what  *)
(* it is compared with.  Requests run side by side in autocommit mode, and *)
(* every save() of the user writes all columns, as they were read when the *)
(* request was authenticated.  Time is counted in ticks; a refresh is      *)
(* answered within one.  Passwords and codes are right, and no request     *)
(* dies between two statements.                                            *)
(***************************************************************************)
EXTENDS Integers, FiniteSets

CONSTANTS
    Requests,           \* requests that can be in flight at the same time
    MaxRequests,        \* bound: requests accepted in a behaviour
    MaxRefreshes,       \* bound: refreshes on their way at the same time
    AccessLifetime,     \* ACCESS_TOKEN_LIFETIME in ticks
    RefreshLifetime     \* REFRESH_TOKEN_LIFETIME in ticks

ASSUME AccountsAssumption ==
    /\ MaxRequests \in Nat /\ MaxRefreshes \in Nat
    /\ AccessLifetime \in Nat \ {0} /\ RefreshLifetime \in Nat
    /\ AccessLifetime < RefreshLifetime

Devices == 1..MaxRequests   \* ids; a request creates one at most

VARIABLES
    enable_2fa,     \* of the row of the user
    devices,        \* the rows of TOTPDevice
    made,           \* devices ever created
    req,            \* what each request does next and what it has read
    accepted,       \* requests accepted, for the bound alone
    access, refresh,\* ticks until the cookies expire, 0 if there is none
    refreshing,     \* refreshes on their way that will be granted
    code,           \* tmp_auth_user_id is in the session: a code is asked for
    \* history variables of the properties:
    loggedIn,       \* tokens were set and not deleted since
    idle,           \* ticks since the user clicked
    strayed,        \* the user once stayed away for too long, see MayStayAway
    overwritten,    \* an edit wrote back another enable_2fa than there was
    overlapped      \* two requests were enabling at the same time

account == <<enable_2fa, devices, made, req, accepted, overwritten, overlapped>>
session == <<access, refresh, refreshing, code, loggedIn, idle, strayed>>
vars == <<account, session>>

Request ==
    [at: {"idle", "save_enabled", "get_device", "create_device", "save_device", "list_devices",
          "delete_devices", "save_disabled", "save_edit"},
     enable_2fa: BOOLEAN,       \* as request.user has it
     found: SUBSET Devices]     \* the devices it has read

IdleRequest == [at |-> "idle", enable_2fa |-> FALSE, found |-> {}]

Init ==
    /\ enable_2fa = FALSE /\ devices = {} /\ made = 0
    /\ req = [q \in Requests |-> IdleRequest]
    /\ accepted = 0 /\ overwritten = FALSE /\ overlapped = FALSE
    /\ access = 0 /\ refresh = 0 /\ refreshing = 0
    /\ code = FALSE /\ loggedIn = FALSE /\ idle = 0 /\ strayed = FALSE

-----------------------------------------------------------------------------
(* The requests of the user *)

EnablingAt == {"save_enabled", "get_device", "create_device", "save_device"}
DisablingAt == {"list_devices", "delete_devices", "save_disabled"}

Proceed(q, next) == req' = [req EXCEPT ![q].at = next]
Finish(q) == req' = [req EXCEPT ![q] = IdleRequest]

\* A request is authenticated, which reads the row, and takes its first decision: enabling
\* needs a user without, disabling one with 2FA, an edit (nickname, password, avatar, block,
\* unblock) either.
Accept(q, first) ==
    /\ req[q].at = "idle" /\ access > 0
    /\ accepted < MaxRequests /\ accepted' = accepted + 1
    /\ first = "save_enabled" => ~enable_2fa
    /\ first = "list_devices" => enable_2fa
    /\ req' = [req EXCEPT ![q] = [at |-> first, enable_2fa |-> enable_2fa, found |-> {}]]
    /\ overlapped' = (overlapped \/ (first = "save_enabled"
                                     /\ \E p \in Requests : req[p].at \in EnablingAt))
    /\ UNCHANGED <<enable_2fa, devices, made, overwritten, session>>

\* _enable_user_2fa
SaveEnabled(q) ==
    /\ req[q].at = "save_enabled"
    /\ enable_2fa' = TRUE
    /\ Proceed(q, "get_device")
    /\ UNCHANGED <<devices, made, accepted, overwritten, overlapped, session>>

\* Broken: a plain create.
GetNoDevice(q) ==
    /\ req[q].at = "get_device"
    /\ Proceed(q, "create_device")
    /\ UNCHANGED <<enable_2fa, devices, made, accepted, overwritten, overlapped, session>>

\* get_or_create of _register_device: get fails if there are several.
GetDevice(q) ==
    /\ req[q].at = "get_device"
    /\ IF Cardinality(devices) > 1 THEN Finish(q)
       ELSE req' = [req EXCEPT ![q].found = devices,
                               ![q].at = IF devices = {} THEN "create_device" ELSE "save_device"]
    /\ UNCHANGED <<enable_2fa, devices, made, accepted, overwritten, overlapped, session>>

CreateDevice(q) ==
    /\ req[q].at = "create_device"
    /\ made < MaxRequests /\ made' = made + 1
    /\ devices' = devices \union {made + 1}
    /\ Finish(q)
    /\ UNCHANGED <<enable_2fa, accepted, overwritten, overlapped, session>>

\* device.save() inserts the row again if it is gone.
SaveDevice(q) ==
    /\ req[q].at = "save_device"
    /\ devices' = devices \union req[q].found
    /\ Finish(q)
    /\ UNCHANGED <<enable_2fa, made, accepted, overwritten, overlapped, session>>

\* _delete_totp_devices
ListDevices(q) ==
    /\ req[q].at = "list_devices"
    /\ req' = [req EXCEPT ![q].found = devices, ![q].at = "delete_devices"]
    /\ UNCHANGED <<enable_2fa, devices, made, accepted, overwritten, overlapped, session>>

DeleteDevice(q) ==
    /\ req[q].at = "delete_devices"
    /\ IF req[q].found = {} THEN Proceed(q, "save_disabled") /\ UNCHANGED devices
       ELSE \E d \in req[q].found :
               /\ devices' = devices \ {d}
               /\ req' = [req EXCEPT ![q].found = @ \ {d}]
    /\ UNCHANGED <<enable_2fa, made, accepted, overwritten, overlapped, session>>

\* _disable_user_2fa
SaveDisabled(q) ==
    /\ req[q].at = "save_disabled"
    /\ enable_2fa' = FALSE
    /\ Finish(q)
    /\ UNCHANGED <<devices, made, accepted, overwritten, overlapped, session>>

\* user.save() of any other view.
SaveEdit(q) ==
    /\ req[q].at = "save_edit"
    /\ enable_2fa' = req[q].enable_2fa
    /\ overwritten' = (overwritten \/ (enable_2fa # req[q].enable_2fa))
    /\ Finish(q)
    /\ UNCHANGED <<devices, made, accepted, overlapped, session>>

-----------------------------------------------------------------------------
(* The session of the browser *)

SetCookies ==
    /\ access' = AccessLifetime
    /\ refresh' = RefreshLifetime
    /\ loggedIn' = TRUE

\* LoginAPIView, or the callback of OAuth, of a user who is not authenticated; with 2FA it
\* renews nothing.
Login ==
    /\ access = 0
    /\ IF enable_2fa
       THEN code' = TRUE /\ UNCHANGED <<access, refresh, loggedIn, idle, strayed>>
       ELSE SetCookies /\ idle' = 0 /\ strayed' = FALSE /\ UNCHANGED code
    /\ UNCHANGED <<account, refreshing>>

\* Verify2FaAPIView: the code of one of the devices.
Verify ==
    /\ code /\ devices # {}
    /\ code' = FALSE
    /\ idle' = 0 /\ strayed' = FALSE
    /\ SetCookies
    /\ UNCHANGED <<account, refreshing>>

Logout ==
    /\ access > 0
    /\ access' = 0 /\ refresh' = 0 /\ loggedIn' = FALSE
    /\ code' = FALSE
    /\ UNCHANGED <<account, refreshing, idle, strayed>>

\* Every click on a link calls refreshJWT, which is refused without a refresh token and does
\* nothing for a valid access token.
Click ==
    /\ idle' = 0
    /\ IF access = 0 /\ refresh > 0
       THEN refreshing < MaxRefreshes /\ refreshing' = refreshing + 1
       ELSE UNCHANGED refreshing
    /\ UNCHANGED <<account, access, refresh, code, loggedIn, strayed>>

\* Broken: the refresh token is not rotated.
RefreshAccessOnly ==
    /\ refreshing > 0 /\ refreshing' = refreshing - 1
    /\ access' = AccessLifetime /\ loggedIn' = TRUE
    /\ UNCHANGED <<account, refresh, code, idle, strayed>>

\* The answer of JWTRefreshAPIView.
Refresh ==
    /\ refreshing > 0 /\ refreshing' = refreshing - 1
    /\ SetCookies
    /\ UNCHANGED <<account, code, idle, strayed>>

\* Broken: what has expired goes on.
LeftOver(ticks) == ticks - 1

Left(ticks) == IF ticks > 0 THEN ticks - 1 ELSE 0

\* How long a user can stay away: the next refresh finds a refresh token even if the last
\* click came just before the access token expired.
MayStayAway == RefreshLifetime - AccessLifetime

Tick ==
    /\ refreshing = 0
    /\ access' = Left(access) /\ refresh' = Left(refresh)
    /\ idle' = IF idle < MayStayAway THEN idle + 1 ELSE idle
    /\ strayed' = (strayed \/ idle = MayStayAway)
    /\ UNCHANGED <<account, refreshing, code, loggedIn>>

-----------------------------------------------------------------------------

Enable(q) == SaveEnabled(q) \/ GetDevice(q) \/ CreateDevice(q) \/ SaveDevice(q)

\* Broken: the flag is cleared before the devices are deleted.
DisableFlagFirst(q) ==
    /\ \/ /\ req[q].at = "list_devices"
          /\ enable_2fa' = FALSE /\ UNCHANGED devices
          /\ req' = [req EXCEPT ![q].found = devices, ![q].at = "delete_devices"]
       \/ /\ req[q].at = "delete_devices"
          /\ devices' = devices \ req[q].found /\ UNCHANGED enable_2fa
          /\ Finish(q)
    /\ UNCHANGED <<made, accepted, overwritten, overlapped, session>>

Disable(q) == ListDevices(q) \/ DeleteDevice(q) \/ SaveDisabled(q)

Next ==
    \/ \E q \in Requests :
          \/ \E first \in {"save_enabled", "list_devices", "save_edit"} : Accept(q, first)
          \/ Enable(q) \/ Disable(q) \/ SaveEdit(q)
    \/ Login \/ Verify \/ Logout \/ Click \/ Refresh \/ Tick

Spec == Init /\ [][Next]_vars

-----------------------------------------------------------------------------

TypeOK ==
    /\ enable_2fa \in BOOLEAN
    /\ devices \subseteq 1..made /\ made \in 0..MaxRequests
    /\ req \in [Requests -> Request]
    /\ accepted \in 0..MaxRequests
    /\ access \in 0..AccessLifetime /\ refresh \in 0..RefreshLifetime
    /\ refreshing \in 0..MaxRefreshes
    /\ idle \in 0..MayStayAway
    /\ {code, loggedIn, strayed, overwritten, overlapped} \subseteq BOOLEAN

AtRest == \A q \in Requests : req[q].at = "idle"

CanLogIn == enable_2fa => devices # {} \/ overwritten
CanEnable == Cardinality(devices) <= 1 \/ overlapped

\* When no request runs, a user who is asked for a code has a device that gives one, in
\* whatever order the statements of enabling and disabling requests came, unless an edit
\* wrote back the enable_2fa it had read before one of them.  And get_or_create does not
\* find several devices, unless two requests were enabling at the same time.
NeverStuck == AtRest => CanLogIn /\ CanEnable

\* A session survives as long as the user never stays away for more than the difference of
\* the lifetimes, although only a click without a valid access token renews anything.
StaysLoggedIn == loggedIn => refresh > 0 \/ strayed
=============================================================================
