----------------------------- MODULE MobileShell -----------------------------
(***************************************************************************)
(* The shell of the mobile app: the token and the settings, kept in        *)
(* AsyncStorage and cached in memory (storage.ts), the Settings screen     *)
(* that changes them, and the tabs that the signed-in role opens (App.tsx).*)
(*                                                                         *)
(* AsyncStorage serves one operation after the other, here from a queue;   *)
(* the code that awaits an operation goes on when it leaves the queue.     *)
(* AsyncStorage is assumed not to fail.                                    *)
(***************************************************************************)
EXTENDS Integers, Sequences

CONSTANTS
    Tokens,     \* access tokens: of accounts and of devices
    RoleOf,     \* the role in a token; a device's is "kiosk"
    Confs,      \* settings that reach a server
    Default,    \* defaultSettings
    Requests,   \* one element per login or bind in flight
    None

ASSUME TokensAssumption ==
    /\ RoleOf \in [Tokens -> {"admin", "bu", "manager", "hr", "employee", "kiosk"}]
    /\ Default \in Confs
    /\ None \notin Tokens \cup Confs
    /\ (Tokens \cup Confs \cup {None}) \cap {"unread", "blank"} = {}

VARIABLES
    disk,     \* AsyncStorage: [token, conf]
    io,       \* its operations, oldest first
    token,    \* tokenCache, "unread" for undefined
    conf,     \* settingsCache, "unread" for undefined
    calls,    \* logins and binds in flight
    form,     \* SettingsScreen: the settings typed in
    role,     \* SettingsScreen: the role
    access,   \* Shell: role, canWfh, canEnroll
    tab,      \* Shell: the tab in front
    raced,    \* history: the token was last set while it was being read
    early     \* history: settings were stored while others were being read

stored   == <<disk, io>>
cached   == <<token, conf>>
settings == <<form, role>>
tabs     == <<access, tab>>
shellVars == <<stored, cached, calls, settings, tabs, raced, early>>

Blank == "blank"   \* a form that nothing was loaded into

IsDevice(t) == RoleOf[t] = "kiosk"

-----------------------------------------------------------------------------
(* Roles and tabs *)

\* roleFromToken: a role it does not know, such as a device's, is "employee".
RoleFromToken(t) ==
    IF t = None THEN "" ELSE IF IsDevice(t) THEN "employee" ELSE RoleOf[t]

IsAdminLike(r) == r \in {"admin", "bu"}

CanAccessAttendance(r) == r \in {"admin", "bu", "manager", "hr"}

\* getAccessSnapshot
Snapshot(t) ==
    LET account == t # None /\ ~IsDevice(t) IN
    [role |-> RoleFromToken(t), canWfh |-> account, canEnroll |-> account]

\* The tabs a Shell with access a offers.
TabsOf(a) ==
    {"settings"}
    \cup (IF IsAdminLike(a.role) THEN {"wfh"} ELSE {"kiosk"})
    \cup (IF CanAccessAttendance(a.role) THEN {"attendance"} ELSE {})
    \cup (IF a.canWfh THEN {"wfh"} ELSE {})
    \cup (IF a.canEnroll THEN {"enroll"} ELSE {})

\* refreshRole: the tab to go to from the current one.
NextTab(a, current) ==
    LET home == IF CanAccessAttendance(a.role) THEN "attendance" ELSE "kiosk" IN
    CASE IsAdminLike(a.role) /\ current = "kiosk"                           -> "attendance"
      [] current = "attendance" /\ ~CanAccessAttendance(a.role)             -> "kiosk"
      [] current = "enroll" /\ ~a.canEnroll                                 -> home
      [] current = "wfh" /\ ~a.canWfh                                       -> home
      [] OTHER                                                              -> current

\* refreshRole with the token t.
Refresh(t) ==
    /\ access' = Snapshot(t)
    /\ tab' = NextTab(Snapshot(t), tab)

-----------------------------------------------------------------------------
(* Storage *)

Op(kind, who, val) == [op |-> kind, who |-> who, val |-> val]

NoCall == [step |-> "none", acct |-> None]

\* A cold start: the effects of children run first.
FirstReads == <<Op("getConf", "settings", None), Op("getToken", "settings", None),
                Op("getToken", "shell", None)>>

ShellInit ==
    /\ disk \in [token : Tokens \cup {None}, conf : Confs \cup {None}]
    /\ io = FirstReads
    /\ token = "unread" /\ conf = "unread"
    /\ calls = [r \in Requests |-> NoCall]
    /\ form = Blank /\ role = ""
    /\ access = Snapshot(None) /\ tab = "kiosk"
    /\ raced = FALSE /\ early = FALSE

Reading(op) == \E i \in 1 .. Len(io) : io[i].op = op

\* request(): the settings, then the token, are read unless they are cached;
\* then the request is sent, to nowhere with blank settings.  q is what the
\* queue is, c and t are the caches by then.
Asks(r, call, q, c, t) ==
    CASE c = "unread" -> /\ io' = Append(q, Op("getConf", r, None))
                         /\ calls' = [calls EXCEPT ![r] = [call EXCEPT !.step = "ask"]]
      [] c # "unread" /\ t = "unread"
                      -> /\ io' = Append(q, Op("getToken", r, None))
                         /\ calls' = [calls EXCEPT ![r] = [call EXCEPT !.step = "ask"]]
      [] OTHER        -> /\ io' = q
                         /\ calls' = [calls EXCEPT ![r] = IF c = Blank THEN NoCall
                                                          ELSE [call EXCEPT !.step = "sent"]]

\* setSettings, before its write.
CacheConf(c) ==
    /\ conf' = c
    /\ early' = (early \/ Reading("getConf"))

\* setToken, called by who.
SetToken(t, who) ==
    /\ token' = t
    /\ io' = Append(io, Op("setToken", who, t))
    /\ raced' = Reading("getToken")

\* The oldest operation is done, and who awaited it goes on.
ServeConf ==
    LET h == Head(io)
        c == IF disk.conf = None THEN Default ELSE disk.conf
    IN
    /\ io # <<>> /\ h.op = "getConf"
    /\ conf' = c
    /\ IF h.who = "settings"
       THEN form' = c /\ io' = Tail(io) /\ UNCHANGED calls
       ELSE Asks(h.who, calls[h.who], Tail(io), c, token) /\ UNCHANGED form
    /\ UNCHANGED <<disk, token, role, tabs, raced, early>>

\* getToken: what was read goes into the cache, whatever the cache is now.
ServeToken ==
    LET h == Head(io) IN
    /\ io # <<>> /\ h.op = "getToken"
    /\ token' = disk.token
    /\ CASE h.who = "settings" -> /\ role' = RoleFromToken(disk.token)
                                  /\ io' = Tail(io)
                                  /\ UNCHANGED <<calls, tabs>>
         [] h.who = "shell"    -> /\ Refresh(disk.token)
                                  /\ io' = Tail(io)
                                  /\ UNCHANGED <<calls, role>>
         [] OTHER              -> /\ Asks(h.who, calls[h.who], Tail(io), conf, disk.token)
                                  /\ UNCHANGED <<role, tabs>>
    /\ UNCHANGED <<disk, conf, form, raced, early>>

StoreConf ==
    LET h == Head(io) IN
    /\ io # <<>> /\ h.op = "setConf"
    /\ disk' = [disk EXCEPT !.conf = h.val]
    /\ IF h.who = "settings"
       THEN io' = Tail(io) /\ UNCHANGED calls
       ELSE Asks(h.who, calls[h.who], Tail(io), conf, token)
    /\ UNCHANGED <<cached, settings, tabs, raced, early>>

\* The end of login, bind and logout: the role of the token each of them
\* stored, and onAuthChange with the token cached now.
StoreToken ==
    LET h == Head(io) IN
    /\ io # <<>> /\ h.op = "setToken"
    /\ disk' = [disk EXCEPT !.token = h.val]
    /\ io' = Tail(io)
    /\ role' = RoleFromToken(h.val)
    /\ Refresh(token)
    /\ calls' = [r \in Requests |-> IF r = h.who THEN NoCall ELSE calls[r]]
    /\ UNCHANGED <<cached, form, raced, early>>

-----------------------------------------------------------------------------
(* The Settings screen *)

Edit ==
    /\ tab = "settings"
    /\ form' \in Confs
    /\ UNCHANGED <<stored, cached, calls, role, tabs, raced, early>>

Save ==
    /\ tab = "settings"
    /\ CacheConf(form)
    /\ io' = Append(io, Op("setConf", "settings", form))
    /\ UNCHANGED <<disk, token, calls, settings, tabs, raced>>

\* Nothing keeps login from being pressed again while it is in flight.
Login(r) ==
    /\ tab = "settings" /\ role = ""
    /\ calls[r] = NoCall
    /\ \E t \in Tokens : /\ ~IsDevice(t)
                         /\ Asks(r, [NoCall EXCEPT !.acct = t], io, conf, token)
    /\ UNCHANGED <<disk, cached, settings, tabs, raced, early>>

\* Guests and administrators may bind the device.
Bind(r) ==
    /\ tab = "settings" /\ (role = "" \/ IsAdminLike(role))
    /\ calls[r] = NoCall
    /\ CacheConf(form)
    /\ io' = Append(io, Op("setConf", r, form))
    /\ \E t \in Tokens : /\ IsDevice(t)
                         /\ calls' = [calls EXCEPT ![r] = [step |-> "conf", acct |-> t]]
    /\ UNCHANGED <<disk, token, settings, tabs, raced>>

\* The server answers a login or a bind, or there is no answer; with blank
\* settings there is no server.
Answered(r) ==
    /\ calls[r].step = "sent"
    /\ \/ /\ SetToken(calls[r].acct, r)
          /\ calls' = [calls EXCEPT ![r].step = "store"]
       \/ /\ calls' = [calls EXCEPT ![r] = NoCall]
          /\ UNCHANGED <<io, token, raced>>
    /\ UNCHANGED <<disk, conf, settings, tabs, early>>

\* Slip: the cache is emptied after the token was removed.
LogoutUncached ==
    /\ tab = "settings" /\ role # ""
    /\ io' = Append(io, Op("setToken", "logout", None))
    /\ raced' = Reading("getToken")
    /\ UNCHANGED <<disk, cached, calls, settings, tabs, early>>

Logout ==
    /\ tab = "settings" /\ role # ""
    /\ SetToken(None, "logout")
    /\ UNCHANGED <<disk, conf, calls, settings, tabs, early>>

-----------------------------------------------------------------------------

TapTab ==
    /\ tab' \in TabsOf(access) \ {tab}
    /\ UNCHANGED <<stored, cached, calls, settings, access, raced, early>>

\* The app is killed and started again; what AsyncStorage was asked to write
\* is written or lost, the oldest first.
Kill ==
    /\ \E n \in 0 .. Len(io) :
        LET done == SubSeq(io, 1, n)
            Last(kind, old) ==
                LET writes == {i \in 1 .. n : done[i].op = kind} IN
                IF writes = {} THEN old
                ELSE done[CHOOSE i \in writes : \A j \in writes : j <= i].val
        IN disk' = [token |-> Last("setToken", disk.token),
                    conf |-> Last("setConf", disk.conf)]
    /\ io' = FirstReads
    /\ token' = "unread" /\ conf' = "unread"
    /\ calls' = [r \in Requests |-> NoCall]
    /\ form' = Blank /\ role' = ""
    /\ access' = Snapshot(None) /\ tab' = "kiosk"
    /\ raced' = FALSE /\ UNCHANGED early

Serve == ServeConf \/ ServeToken \/ StoreConf \/ StoreToken

Press ==
    \/ Edit \/ Save \/ Logout
    \/ \E r \in Requests : Login(r) \/ Bind(r)

ShellStep == Serve \/ Press \/ (\E r \in Requests : Answered(r)) \/ TapTab
=============================================================================
