--------------------------- MODULE AccountsProofs ---------------------------
(***************************************************************************)
(* Invariants of Accounts for any number of requests side by side and any  *)
(* lifetimes of the tokens: the second factor stays usable, and a session  *)
(* lasts as long as the user comes back in time.                           *)
(***************************************************************************)
EXTENDS Accounts, FiniteSetTheorems, TLAPS

-----------------------------------------------------------------------------
(* The inductive invariants *)

\* What a request has read are rows there were; one that saves a device has read one.
ReadOK ==
    \A q \in Requests :
        /\ req[q].found \subseteq 1..made
        /\ req[q].at = "save_device" => req[q].found # {}

TypesInv == TypeOK /\ ReadOK

\* If a code is asked for that no device gives, a request is about to register a device or
\* to clear the flag: enabling sets the flag first, disabling clears it last.
Repairing == {"get_device", "create_device", "save_device", "delete_devices", "save_disabled"}

FlagOK ==
    enable_2fa /\ devices = {} /\ ~overwritten => \E q \in Requests : req[q].at \in Repairing

AtMostOne(S) == \A d, e \in S : d = e

\* One request enables at a time and finds what it has read, or less.
OneDevice ==
    ~overlapped =>
        /\ AtMostOne(devices)
        /\ \A p, q \in Requests : req[p].at \in EnablingAt /\ req[q].at \in EnablingAt => p = q
        /\ \A q \in Requests :
              /\ req[q].at = "create_device" => devices = {}
              /\ req[q].at = "save_device" =>
                     devices \subseteq req[q].found /\ AtMostOne(req[q].found)

FactorInv == TypeOK /\ ReadOK /\ FlagOK /\ OneDevice

\* While the access token is valid the refresh token outlives it by what a user may stay
\* away; afterwards by what is left of that since the last click, and a click asks for new
\* tokens, which come before the next tick.
SessionOK ==
    loggedIn /\ ~strayed =>
        /\ refresh > 0
        /\ access > 0 => refresh >= MayStayAway + access
        /\ access = 0 /\ refreshing = 0 => refresh > MayStayAway - idle

-----------------------------------------------------------------------------
(* Types *)

LEMMA AwayFacts == MayStayAway \in Nat \ {0} /\ MayStayAway + AccessLifetime = RefreshLifetime
BY AccountsAssumption DEF MayStayAway

LEMMA InitTypes == Init => TypeOK /\ ReadOK
<1> SUFFICES ASSUME Init
             PROVE  TypeOK /\ ReadOK
  OBVIOUS
<1>1. req \in [Requests -> Request]
  BY DEF Init, Request, IdleRequest
<1>2. {code, loggedIn, strayed, overwritten, overlapped} \subseteq BOOLEAN
  BY DEF Init
<1>3. /\ made \in 0..MaxRequests /\ accepted \in 0..MaxRequests
      /\ refreshing \in 0..MaxRefreshes
      /\ access \in 0..AccessLifetime /\ refresh \in 0..RefreshLifetime
      /\ idle \in 0..MayStayAway
  BY AccountsAssumption, AwayFacts DEF Init
<1>4. enable_2fa \in BOOLEAN /\ devices \subseteq 1..made
  BY DEF Init
<1>5. TypeOK
  BY <1>1, <1>2, <1>3, <1>4 DEF TypeOK
<1>6. ReadOK
  BY DEF Init, ReadOK, IdleRequest
<1> QED
  BY <1>5, <1>6

LEMMA AcceptTypes ==
    ASSUME TypeOK, ReadOK, NEW q \in Requests,
           NEW first \in {"save_enabled", "list_devices", "save_edit"}, Accept(q, first)
    PROVE  TypeOK' /\ ReadOK'
<1>1. [at |-> first, enable_2fa |-> enable_2fa, found |-> {}] \in Request
  BY DEF TypeOK, Request
<1>2. req' \in [Requests -> Request]
  BY <1>1 DEF TypeOK, Accept
<1>3. accepted' \in 0..MaxRequests
  BY AccountsAssumption DEF TypeOK, Accept
<1>4. overlapped' \in BOOLEAN
  BY DEF Accept, TypeOK
<1>5. TypeOK'
  BY <1>2, <1>3, <1>4 DEF TypeOK, Accept, session
<1>6. ReadOK'
  BY DEF ReadOK, Accept, TypeOK
<1> QED
  BY <1>5, <1>6

LEMMA IdleRequestType == IdleRequest \in Request
BY DEF IdleRequest, Request

LEMMA EnableTypes ==
    ASSUME TypeOK, ReadOK, NEW q \in Requests, Enable(q)
    PROVE  TypeOK' /\ ReadOK'
<1>1. CASE SaveEnabled(q)
  BY <1>1 DEF TypeOK, ReadOK, session, SaveEnabled, Proceed, Request
<1>2. CASE GetDevice(q)
  <2>1. devices \subseteq 1..made /\ devices \in SUBSET Devices
    BY AccountsAssumption DEF TypeOK, Devices
  <2>2. CASE Cardinality(devices) > 1
    <3>1. req' = [req EXCEPT ![q] = IdleRequest]
      BY <1>2, <2>2 DEF GetDevice, Finish
    <3> QED
      BY <1>2, <3>1, IdleRequestType DEF TypeOK, ReadOK, GetDevice, session, IdleRequest
  <2>3. CASE ~(Cardinality(devices) > 1)
    <3>1. req' = [req EXCEPT ![q].found = devices,
                      ![q].at = IF devices = {} THEN "create_device" ELSE "save_device"]
      BY <1>2, <2>3 DEF GetDevice
    <3>2. req[q] \in Request /\ req \in [Requests -> Request]
      BY DEF TypeOK
    <3>3. req' \in [Requests -> Request]
      BY <2>1, <3>1, <3>2 DEF Request
    <3>4. /\ req'[q].found = devices
          /\ req'[q].at = IF devices = {} THEN "create_device" ELSE "save_device"
          /\ \A p \in Requests \ {q} : req'[p] = req[p]
      BY <3>1, <3>2 DEF Request
    <3>5. made' = made
      BY <1>2 DEF GetDevice
    <3>6. ReadOK'
      BY <2>1, <3>4, <3>5 DEF ReadOK
    <3> QED
      BY <1>2, <3>3, <3>6 DEF TypeOK, GetDevice, session
  <2> QED
    BY <2>2, <2>3
<1>3. CASE CreateDevice(q)
  <2>1. made \in 0..MaxRequests /\ devices \subseteq 1..made
    BY DEF TypeOK
  <2>2. made < MaxRequests /\ made' = made + 1 /\ devices' = devices \union {made + 1}
    BY <1>3 DEF CreateDevice
  <2>3. made' \in 0..MaxRequests /\ devices' \subseteq 1..made' /\ 1..made \subseteq 1..made'
    <3>1. made \in Nat /\ made' = made + 1 /\ made' \in 0..MaxRequests
      BY <2>1, <2>2, AccountsAssumption
    <3>2. 1..made \subseteq 1..made' /\ made + 1 \in 1..made'
      BY <3>1
    <3> QED
      BY <2>1, <2>2, <3>1, <3>2
  <2>4. req' = [req EXCEPT ![q] = IdleRequest]
    BY <1>3 DEF CreateDevice, Finish
  <2>5. req' \in [Requests -> Request]
    BY <2>4, IdleRequestType DEF TypeOK
  <2>6. ReadOK'
    BY <2>3, <2>4 DEF TypeOK, ReadOK, IdleRequest
  <2> QED
    BY <1>3, <2>3, <2>5, <2>6 DEF TypeOK, CreateDevice, session
<1>4. CASE SaveDevice(q)
  <2>1. req' \in [Requests -> Request] /\ ReadOK'
    BY <1>4, IdleRequestType DEF TypeOK, ReadOK, SaveDevice, Finish, IdleRequest
  <2> QED
    BY <1>4, <2>1 DEF TypeOK, ReadOK, SaveDevice, session
<1> QED
  BY <1>1, <1>2, <1>3, <1>4 DEF Enable

LEMMA OtherTypes ==
    ASSUME TypeOK, ReadOK, NEW q \in Requests, Disable(q) \/ SaveEdit(q)
    PROVE  TypeOK' /\ ReadOK'
<1> USE DEF TypeOK, ReadOK, session
<1>1. CASE ListDevices(q)
  BY <1>1, AccountsAssumption DEF ListDevices, Request, Devices
<1>2. CASE DeleteDevice(q)
  <2>1. CASE req[q].found = {}
    BY <1>2, <2>1 DEF DeleteDevice, Proceed, Request
  <2>2. CASE req[q].found # {}
    <3>1. PICK d \in req[q].found : /\ devices' = devices \ {d}
                                    /\ req' = [req EXCEPT ![q].found = @ \ {d}]
      BY <1>2, <2>2 DEF DeleteDevice
    <3> QED
      BY <1>2, <3>1 DEF DeleteDevice, Request
  <2> QED
    BY <2>1, <2>2
<1>3. CASE SaveDisabled(q)
  BY <1>3 DEF SaveDisabled, Finish, Request, IdleRequest
<1>4. CASE SaveEdit(q)
  BY <1>4 DEF SaveEdit, Finish, Request, IdleRequest
<1> QED
  BY <1>1, <1>2, <1>3, <1>4 DEF Disable

\* The session is a matter of its own.
SessionStep == Login \/ Verify \/ Logout \/ Click \/ Refresh \/ Tick

LEMMA SessionLeavesAccount == SessionStep => UNCHANGED account
BY DEF SessionStep, Login, Verify, Logout, Click, Refresh, Tick

LEMMA SessionTypes ==
    ASSUME TypeOK, ReadOK, SessionStep
    PROVE  TypeOK' /\ ReadOK'
<1>1. UNCHANGED account
  BY SessionLeavesAccount
<1>2. ReadOK'
  BY <1>1 DEF account, ReadOK
<1>3. /\ access' \in 0..AccessLifetime /\ refresh' \in 0..RefreshLifetime
      /\ refreshing' \in 0..MaxRefreshes
      /\ idle' \in 0..MayStayAway
  BY AccountsAssumption, AwayFacts
     DEF TypeOK, SessionStep, Login, Verify, Logout, Click, Refresh, Tick, SetCookies, Left
<1>4. {code', loggedIn', strayed'} \subseteq BOOLEAN
  BY DEF TypeOK, SessionStep, Login, Verify, Logout, Click, Refresh, Tick, SetCookies
<1> QED
  BY <1>1, <1>2, <1>3, <1>4 DEF TypeOK, account

LEMMA TypeStep == TypeOK /\ ReadOK /\ [Next]_vars => TypeOK' /\ ReadOK'
<1> SUFFICES ASSUME TypeOK, ReadOK, [Next]_vars
             PROVE  TypeOK' /\ ReadOK'
  OBVIOUS
<1>1. CASE UNCHANGED vars
  BY <1>1 DEF vars, account, session, TypeOK, ReadOK
<1> QED
  BY <1>1, AcceptTypes, EnableTypes, OtherTypes, SessionTypes DEF Next, SessionStep

-----------------------------------------------------------------------------
(* The second factor *)

\* In terms of elements, CanEnable is AtMostOne.
LEMMA CountOne ==
    ASSUME NEW n \in Nat, NEW S \in SUBSET (1..n)
    PROVE  Cardinality(S) \in Nat /\ (Cardinality(S) <= 1 <=> AtMostOne(S))
<1>1. IsFiniteSet(S) /\ Cardinality(S) \in Nat
  <2>1. IsFiniteSet(1..n)
    BY FS_Interval
  <2> QED
    BY <2>1, FS_Subset, FS_CardinalityType
<1>2. CASE S = {}
  BY <1>1, <1>2, FS_EmptySet DEF AtMostOne
<1>3. CASE S # {}
  <2>1. PICK d \in S : TRUE
    BY <1>3
  <2>2. IsFiniteSet(S \ {d}) /\ Cardinality(S \ {d}) = Cardinality(S) - 1
    BY <1>1, <2>1, FS_RemoveElement
  <2>3. Cardinality(S) <= 1 <=> Cardinality(S \ {d}) = 0
    BY <1>1, <2>2, FS_CardinalityType
  <2>4. Cardinality(S \ {d}) = 0 <=> S \ {d} = {}
    BY <2>2, FS_EmptySet
  <2> QED
    BY <1>1, <2>1, <2>3, <2>4 DEF AtMostOne
<1> QED
  BY <1>2, <1>3

LEMMA InitFactor == Init => FlagOK /\ OneDevice
BY DEF Init, FlagOK, OneDevice, AtMostOne, IdleRequest, EnablingAt

LEMMA AcceptKeeps ==
    ASSUME FactorInv, NEW q \in Requests,
           NEW first \in {"save_enabled", "list_devices", "save_edit"}, Accept(q, first)
    PROVE  FlagOK' /\ OneDevice'
<1>1. FlagOK'
  BY DEF FactorInv, TypeOK, FlagOK, Accept, Repairing
<1>2. OneDevice'
  BY DEF FactorInv, TypeOK, OneDevice, Accept, EnablingAt
<1> QED
  BY <1>1, <1>2

LEMMA EnableKeepsFlag ==
    ASSUME FactorInv, NEW q \in Requests, Enable(q)
    PROVE  FlagOK'
<1> USE DEF FactorInv, TypeOK, FlagOK, Repairing
<1>1. CASE SaveEnabled(q)
  BY <1>1 DEF SaveEnabled, Proceed
<1>2. CASE GetDevice(q)
  <2>1. CASE Cardinality(devices) > 1
    BY <1>2, <2>1, FS_EmptySet DEF GetDevice
  <2>2. CASE ~(Cardinality(devices) > 1)
    <3>1. /\ req'[q].at \in Repairing
          /\ UNCHANGED <<enable_2fa, devices, overwritten>>
      BY <1>2, <2>2 DEF GetDevice, Request
    <3> QED
      BY <3>1
  <2> QED
    BY <2>1, <2>2
<1>3. CASE CreateDevice(q)
  BY <1>3 DEF CreateDevice
<1>4. CASE SaveDevice(q)
  BY <1>4 DEF SaveDevice, ReadOK
<1> QED
  BY <1>1, <1>2, <1>3, <1>4 DEF Enable

LEMMA EnableKeepsOne ==
    ASSUME FactorInv, NEW q \in Requests, Enable(q)
    PROVE  OneDevice'
<1> SUFFICES ASSUME ~overlapped
             PROVE  OneDevice'
  BY DEF Enable, SaveEnabled, GetDevice, CreateDevice, SaveDevice, OneDevice
<1>1. OneDevice /\ req \in [Requests -> Request]
  BY DEF FactorInv, TypeOK
<1>2. CASE SaveEnabled(q)
  BY <1>1, <1>2 DEF SaveEnabled, Proceed, OneDevice, EnablingAt
<1>3. CASE GetDevice(q)
  <2>1. AtMostOne(devices) /\ ~(Cardinality(devices) > 1)
    <3>1. made \in Nat /\ devices \in SUBSET (1..made)
      BY AccountsAssumption DEF FactorInv, TypeOK
    <3>2. Cardinality(devices) \in Nat /\ (Cardinality(devices) <= 1 <=> AtMostOne(devices))
      BY <3>1, CountOne
    <3>3. AtMostOne(devices)
      BY <1>1 DEF OneDevice
    <3> QED
      BY <3>2, <3>3
  <2>2. /\ req' = [req EXCEPT ![q].found = devices,
                      ![q].at = IF devices = {} THEN "create_device" ELSE "save_device"]
        /\ req[q].at = "get_device" /\ UNCHANGED <<devices, overlapped>>
    BY <1>3, <2>1 DEF GetDevice
  <2> QED
    BY <1>1, <2>1, <2>2 DEF OneDevice, EnablingAt, Request
<1>4. CASE CreateDevice(q)
  <2>1. devices' = {made + 1} /\ req' = [req EXCEPT ![q] = IdleRequest] /\ ~overlapped'
    BY <1>1, <1>4 DEF CreateDevice, Finish, OneDevice
  <2>2. AtMostOne(devices')
    BY <2>1 DEF AtMostOne
  <2>3. \A p \in Requests : req'[p].at \notin {"create_device", "save_device"}
    BY <1>1, <1>4, <2>1 DEF OneDevice, EnablingAt, CreateDevice, IdleRequest
  <2> QED
    BY <1>1, <2>1, <2>2, <2>3 DEF OneDevice, EnablingAt, IdleRequest
<1>5. CASE SaveDevice(q)
  <2>1. devices' = req[q].found /\ req' = [req EXCEPT ![q] = IdleRequest] /\ ~overlapped'
    BY <1>1, <1>5 DEF SaveDevice, Finish, OneDevice
  <2>2. AtMostOne(devices')
    BY <1>1, <1>5, <2>1 DEF SaveDevice, OneDevice
  <2>3. \A p \in Requests : req'[p].at \notin {"create_device", "save_device"}
    BY <1>1, <1>5, <2>1 DEF OneDevice, EnablingAt, SaveDevice, IdleRequest
  <2> QED
    BY <1>1, <2>1, <2>2, <2>3 DEF OneDevice, EnablingAt, IdleRequest
<1> QED
  BY <1>2, <1>3, <1>4, <1>5 DEF Enable

LEMMA DeleteDeviceStep ==
    ASSUME FactorInv, NEW q \in Requests, DeleteDevice(q)
    PROVE  /\ devices' \subseteq devices
           /\ \A p \in Requests \ {q} : req'[p] = req[p]
           /\ req'[q].at \in {"delete_devices", "save_disabled"}
<1>1. req[q] \in Request /\ req[q].at = "delete_devices" /\ req \in [Requests -> Request]
  BY DEF FactorInv, TypeOK, DeleteDevice
<1>2. CASE req[q].found = {}
  BY <1>1, <1>2 DEF DeleteDevice, Proceed, Request
<1>3. CASE req[q].found # {}
  <2>1. PICK d \in req[q].found : /\ devices' = devices \ {d}
                                  /\ req' = [req EXCEPT ![q].found = @ \ {d}]
    BY <1>3 DEF DeleteDevice
  <2> QED
    BY <1>1, <2>1 DEF Request
<1> QED
  BY <1>2, <1>3

\* Disabling only removes devices, and an edit none.
LEMMA OtherKeeps ==
    ASSUME FactorInv, NEW q \in Requests, Disable(q) \/ SaveEdit(q)
    PROVE  FlagOK' /\ OneDevice'
<1>1. FlagOK'
  <2> USE DEF FactorInv, TypeOK, FlagOK, Repairing
  <2>1. CASE ListDevices(q)
    BY <2>1 DEF ListDevices
  <2>2. CASE DeleteDevice(q)
    <3>1. req'[q].at \in Repairing
      BY <2>2, DeleteDeviceStep
    <3> QED
      BY <2>2, <3>1 DEF DeleteDevice
  <2>3. CASE SaveDisabled(q)
    BY <2>3 DEF SaveDisabled
  <2>4. CASE SaveEdit(q)
    BY <2>4 DEF SaveEdit, Finish
  <2> QED
    BY <2>1, <2>2, <2>3, <2>4 DEF Disable
<1>2. OneDevice'
  <2>1. devices' \subseteq devices /\ overlapped' = overlapped
    BY DeleteDeviceStep DEF Disable, SaveEdit, ListDevices, DeleteDevice, SaveDisabled
  <2>2. \A p \in Requests : req'[p].at \in EnablingAt => req'[p] = req[p]
    <3>1. CASE ListDevices(q)
      BY <3>1 DEF FactorInv, TypeOK, ListDevices, Request, EnablingAt
    <3>2. CASE DeleteDevice(q)
      BY <3>2, DeleteDeviceStep DEF EnablingAt
    <3>3. CASE SaveDisabled(q) \/ SaveEdit(q)
      BY <3>3 DEF FactorInv, TypeOK, SaveDisabled, SaveEdit, Finish, IdleRequest, EnablingAt
    <3> QED
      BY <3>1, <3>2, <3>3 DEF Disable
  <2> QED
    BY <2>1, <2>2 DEF FactorInv, OneDevice, AtMostOne, EnablingAt
<1> QED
  BY <1>1, <1>2

LEMMA FactorStep == FactorInv /\ [Next]_vars => FactorInv'
<1> SUFFICES ASSUME FactorInv, [Next]_vars
             PROVE  FactorInv'
  OBVIOUS
<1>1. TypeOK' /\ ReadOK'
  BY TypeStep DEF FactorInv
<1>2. ASSUME UNCHANGED account
      PROVE  FlagOK' /\ OneDevice'
  BY <1>2 DEF account, FactorInv, FlagOK, OneDevice
<1>3. FlagOK' /\ OneDevice'
  <2>1. CASE UNCHANGED vars
    BY <1>2, <2>1 DEF vars
  <2>2. CASE SessionStep
    BY <1>2, <2>2, SessionLeavesAccount
  <2> QED
    BY <2>1, <2>2, AcceptKeeps, EnableKeepsFlag, EnableKeepsOne, OtherKeeps DEF Next, SessionStep
<1> QED
  BY <1>1, <1>3 DEF FactorInv

-----------------------------------------------------------------------------
(* The session *)

\* An accepted request, and whatever one does, leaves the session alone.
LEMMA SessionKept ==
    ASSUME TypeOK, SessionOK, [Next]_vars
    PROVE  SessionOK'
<1>1. CASE UNCHANGED session
  BY <1>1 DEF session, SessionOK
<1>2. CASE SetCookies
  BY <1>2, AwayFacts, AccountsAssumption DEF SessionOK, SetCookies
<1>3. CASE Logout
  BY <1>3 DEF SessionOK, Logout
<1>4. CASE Click
  BY <1>4, AwayFacts DEF TypeOK, SessionOK, Click
<1>5. CASE Tick
  <2>1. /\ access \in Nat /\ refresh \in Nat /\ idle \in 0..MayStayAway /\ refreshing = 0
        /\ access' = Left(access) /\ refresh' = Left(refresh) /\ loggedIn' = loggedIn
        /\ idle' = IF idle < MayStayAway THEN idle + 1 ELSE idle
        /\ strayed' = (strayed \/ idle = MayStayAway)
    BY <1>5, AccountsAssumption DEF TypeOK, Tick
  <2> QED
    <3> SUFFICES ASSUME loggedIn, ~strayed, idle < MayStayAway
                 PROVE  /\ refresh' > 0
                        /\ access' > 0 => refresh' >= MayStayAway + access'
                        /\ refresh' > MayStayAway - idle'
      <4>1. idle \in 0..MayStayAway /\ MayStayAway \in Nat
        BY <2>1, AwayFacts
      <4>2. CASE idle = MayStayAway
        BY <2>1, <4>2 DEF SessionOK
      <4>3. CASE idle < MayStayAway
        BY <2>1, <4>1, <4>3 DEF SessionOK
      <4> QED
        BY <4>1, <4>2, <4>3
    <3>1. refresh > 0 /\ refresh' = refresh - 1 /\ idle' = idle + 1 /\ MayStayAway \in Nat
      BY <2>1, AwayFacts DEF SessionOK, Left
    <3>2. CASE access = 0
      BY <2>1, <3>1, <3>2 DEF SessionOK, Left
    <3>3. CASE access > 0
      BY <2>1, <3>1, <3>3, AwayFacts DEF SessionOK, Left
    <3> QED
      BY <2>1, <3>2, <3>3
<1>6. CASE Login
  BY <1>1, <1>2, <1>6 DEF Login, session, SessionOK
<1> QED
  BY <1>1, <1>2, <1>3, <1>4, <1>5, <1>6
     DEF Next, Verify, Refresh, Accept, Enable, Disable, SaveEnabled, GetDevice, CreateDevice,
         SaveDevice, ListDevices, DeleteDevice, SaveDisabled, SaveEdit, vars

-----------------------------------------------------------------------------
(* The theorems *)

\* The types, in every state, for any number of requests.
THEOREM TypeCorrect == Spec => []TypeOK
<1>1. Init => TypesInv
  BY InitTypes DEF TypesInv
<1>2. TypesInv /\ [Next]_vars => TypesInv'
  BY TypeStep DEF TypesInv
<1>3. Spec => []TypesInv
  BY <1>1, <1>2, PTL DEF Spec
<1>4. TypesInv => TypeOK
  BY DEF TypesInv
<1> QED
  BY <1>3, <1>4, PTL

\* The invariant of the second factor (two_factor_auth.py) is inductive.
THEOREM FactorInductive == Spec => []FactorInv
<1>1. Init => FactorInv
  BY InitTypes, InitFactor DEF FactorInv
<1> QED
  BY <1>1, FactorStep, PTL DEF Spec

\* Whatever enabling, disabling and editing requests interleave, a user at rest who is asked
\* for a code has a device, unless an edit wrote back a stale enable_2fa; and get_or_create
\* never finds two devices unless two requests were enabling at once.
THEOREM NeverStuckAlways == Spec => []NeverStuck
<1>1. FactorInv => NeverStuck
  <2> SUFFICES ASSUME FactorInv, AtRest
               PROVE  CanLogIn /\ CanEnable
    BY DEF NeverStuck
  <2>1. CanLogIn
    BY DEF FactorInv, FlagOK, AtRest, Repairing, CanLogIn
  <2>2. CanEnable
    <3>1. made \in Nat /\ devices \in SUBSET (1..made)
      BY AccountsAssumption DEF FactorInv, TypeOK
    <3> QED
      BY <3>1, CountOne DEF FactorInv, OneDevice, CanEnable
  <2> QED
    BY <2>1, <2>2
<1> QED
  BY <1>1, FactorInductive, PTL

\* A session outlasts every absence up to the difference of the two lifetimes, for any
\* lifetimes, although only clicks renew it (refreshJWT, JWTRefreshAPIView).
THEOREM StaysLoggedInAlways == Spec => []StaysLoggedIn
<1>1. Init => SessionOK
  BY DEF Init, SessionOK
<1>2. SessionOK => StaysLoggedIn
  BY DEF SessionOK, StaysLoggedIn
<1> QED
  BY <1>1, <1>2, TypeCorrect, SessionKept, PTL DEF Spec
=============================================================================
