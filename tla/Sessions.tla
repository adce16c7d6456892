------------------------------ MODULE Sessions ------------------------------
(***************************************************************************)
(* Sign-in and sign-out in a browser: tabs that share localStorage and       *)
(* cookies, the silent refresh of AuthProvider, the shared refresh of the    *)
(* axios interceptors, the guards of middleware.ts and StudentRoute, and the *)
(* rotation of refresh tokens in auth/service.py.  One student; the roles    *)
(* only choose the dashboard.  Refresh tokens are numbers, reused once nobody*)
(* holds them, 0 for none; an access token is valid or not.                  *)
(***************************************************************************)
EXTENDS Naturals, FiniteSets

CONSTANTS Tab,
          MaxSignIn, MaxLoad,   \* sign-ins with Google, page loads by hand (bounds)
          MaxSend,              \* requests of the pages (bound)
          MaxTick,              \* times the access tokens expire (bound)
          MaxFault              \* requests and answers that are lost (bound)

ASSUME SessionBounds == /\ {MaxSignIn, MaxLoad, MaxSend, MaxTick, MaxFault} \subseteq Nat
                        /\ IsFiniteSet(Tab)

VARIABLES tab,        \* page, store and module variables of each tab
          req,        \* req[t][k]: the request k of tab t
          lsUser, lsAt,  \* localStorage: sa_user, sa_at
          flag, cookie,  \* cookies: sa_auth (with sa_role), refresh_token
          writes,     \* POSTs to /api/auth/set-cookie under way, by token
          live, grace,   \* refresh tokens: not revoked; revoked since 120 seconds
          signIns, loads, sends, ticks, faults

browser == <<tab, req, lsUser, lsAt, flag, cookie, writes>>
server == <<live, grace>>
bounds == <<signIns, loads, sends, ticks, faults>>
vars == <<browser, server, bounds>>

Refresh == {"silent", "shared"}             \* POST /auth/refresh
Bearer == {"me", "callback", "api", "logout"}
Kind == Refresh \cup Bearer
None == "none"  \* access tokens: None, "valid", "expired"
(* rt, next: the refresh token sent and answered; at: the access token sent  *)
(* or answered; kept: the one setUser is to store.                           *)
Request == [st |-> "none", rt |-> 0, next |-> 0, at |-> None, kept |-> None, retry |-> FALSE]
Idle == [k \in Kind |-> Request]

Closed == [page |-> "closed", user |-> FALSE, init |-> FALSE, mem |-> None, rt |-> 0]

Init == /\ tab = [t \in Tab |-> Closed]
        /\ req = [t \in Tab |-> Idle]
        /\ lsUser = FALSE /\ lsAt = None /\ flag = FALSE /\ cookie = 0
        /\ writes = {} /\ live = {} /\ grace = {}
        /\ signIns = 0 /\ loads = 0 /\ sends = 0 /\ ticks = 0 /\ faults = 0

Fault == faults < MaxFault /\ faults' = faults + 1
RtHeld == {cookie} \cup writes \cup {tab[t].rt : t \in Tab}
            \cup UNION {{req[t][k].rt, req[t][k].next} : t \in Tab, k \in Kind}
Unused(S) == CHOOSE n \in 1 .. Cardinality(S) + 1 : n \notin S
NewRt == Unused(RtHeld)
Held(S) == S \cap RtHeld      \* tokens nobody holds are forgotten

-----------------------------------------------------------------------------
(* middleware.ts sees the flag, never the refresh token.                     *)
Middleware(page, f) == IF f /\ page \in {"home", "login"} THEN "student"
                       ELSE IF ~f /\ page = "student" THEN "login"
                       ELSE page

(* A page load starts from localStorage and refreshes silently on mount.     *)
Loaded(page, f, user, at) ==
  [page |-> Middleware(page, f), user |-> user /\ at # None, init |-> user /\ at # None,
   mem |-> at, rt |-> 0]
Mounted(c) == [Idle EXCEPT !["silent"].st = "sent", !["silent"].rt = c]

(* setAccessToken(null), clearUser() and what the caller does next.          *)
Cleared(t) == [tab[t] EXCEPT !.user = FALSE, !.mem = None]
(* Mistaken form of ClearStorage: localStorage keeps the user and the token. *)
ClearStorage_KeepsLocal == flag' = FALSE /\ UNCHANGED <<lsUser, lsAt>>

(* Mistaken form of ClearStorage: the cookie of middleware.ts stays.         *)
ClearStorage_KeepsFlag == lsUser' = FALSE /\ lsAt' = None /\ UNCHANGED flag

ClearStorage == lsUser' = FALSE /\ lsAt' = None /\ flag' = FALSE

ClearAndLoad(t, page, c) ==
  /\ ClearStorage
  /\ tab' = [tab EXCEPT ![t] = Loaded(page, FALSE, FALSE, None)]
  /\ req' = [req EXCEPT ![t] = Mounted(c)]

Load(t, page) ==
  /\ loads < MaxLoad /\ loads' = loads + 1
  /\ tab' = [tab EXCEPT ![t] = Loaded(page, flag, lsUser, lsAt)]
  /\ req' = [req EXCEPT ![t] = Mounted(cookie)]
  /\ UNCHANGED <<lsUser, lsAt, flag, cookie, writes, server, signIns, sends, ticks, faults>>

(* Google's callback: the backend redirects to /auth/callback with an access *)
(* token and a refresh token; the page asks /auth/me with the former.        *)
SignIn(t) ==
  /\ signIns < MaxSignIn /\ signIns' = signIns + 1
  /\ tab[t].page \in {"closed", "login", "error"}
  /\ live' = Held(live) \cup {NewRt} /\ grace' = Held(grace)
  /\ tab' = [tab EXCEPT ![t] = [Loaded("callback", flag, lsUser, lsAt)
                                  EXCEPT !.mem = "valid", !.rt = NewRt]]
  /\ lsAt' = "valid"
  /\ req' = [req EXCEPT ![t] = [Mounted(cookie) EXCEPT !["callback"].st = "sent",
                                                      !["callback"].at = "valid",
                                                      !["callback"].kept = "valid"]]
  /\ UNCHANGED <<lsUser, flag, cookie, writes, loads, sends, ticks, faults>>

(* The guard of the student pages and the redirect of the landing page are   *)
(* soft: middleware decides where they lead, the tab keeps its state, and an *)
(* effect whose page did not change does not run again.                      *)
Guard(t) ==
  /\ \/ tab[t].page = "student" /\ tab[t].init /\ ~tab[t].user
        /\ tab' = [tab EXCEPT ![t].page = Middleware("login", flag)]
     \/ tab[t].page = "home" /\ tab[t].user
        /\ tab' = [tab EXCEPT ![t].page = Middleware("student", flag)]
  /\ tab' # tab
  /\ UNCHANGED <<req, lsUser, lsAt, flag, cookie, writes, server, bounds>>

(* A page of the student, or the logout button, sends a request; a socket    *)
(* asks for a token that is not about to expire (getValidAccessToken).       *)
Token(t) == IF tab[t].mem # None THEN tab[t].mem ELSE lsAt
Shown(t) == tab[t].page = "student" /\ tab[t].user /\ tab[t].init

Send(t, k) ==
  /\ k \in {"api", "logout"} /\ req[t][k].st = "none" /\ Shown(t)
  /\ req' = [req EXCEPT ![t][k] = [Request EXCEPT !.st = "sent", !.at = Token(t)]]
  /\ tab' = [tab EXCEPT ![t].mem = Token(t)]
  /\ sends < MaxSend /\ sends' = sends + 1
  /\ UNCHANGED <<lsUser, lsAt, flag, cookie, writes, server, signIns, loads, ticks, faults>>

(* refreshPromise: a refresh under way is joined.                            *)
SharedSent == [Request EXCEPT !.st = "sent", !.rt = cookie]

Renew(t) ==
  /\ Shown(t) /\ Token(t) # None /\ req[t]["shared"].st = "none"
  /\ req' = [req EXCEPT ![t]["shared"] = SharedSent]
  /\ sends < MaxSend /\ sends' = sends + 1
  /\ UNCHANGED <<tab, lsUser, lsAt, flag, cookie, writes, server, signIns, loads, ticks, faults>>

-----------------------------------------------------------------------------
(* POST /auth/refresh: the row is read, then a successor is inserted and the *)
(* row revoked.  A token revoked since less than 120 seconds yields a new    *)
(* access token and itself.                                                  *)
Reply(t, k, r) == req' = [req EXCEPT ![t][k] = r]

RefreshReads(t, k) ==
  /\ k \in Refresh /\ req[t][k].st = "sent"
  /\ LET r == req[t][k] IN
     \/ r.rt \in live /\ Reply(t, k, [r EXCEPT !.st = "read"])
     \/ r.rt \in grace /\ Reply(t, k, [r EXCEPT !.st = "ok", !.at = "valid", !.next = r.rt])
     \/ r.rt \notin live \cup grace /\ Reply(t, k, [r EXCEPT !.st = "refused"])
  /\ UNCHANGED <<tab, lsUser, lsAt, flag, cookie, writes, live, grace, bounds>>

(* Mistaken form of RefreshRotates: the old token is not revoked.            *)
RefreshRotates_KeepsOld(t, k) ==
  /\ k \in Refresh /\ req[t][k].st = "read"
  /\ live' = Held(live) \cup {NewRt}
  /\ grace' = Held(grace) \cup {req[t][k].rt}
  /\ Reply(t, k, [req[t][k] EXCEPT !.st = "ok", !.at = "valid", !.next = NewRt])
  /\ UNCHANGED <<tab, lsUser, lsAt, flag, cookie, writes, bounds>>

RefreshRotates(t, k) ==
  /\ k \in Refresh /\ req[t][k].st = "read"
  /\ live' = (Held(live) \ {req[t][k].rt}) \cup {NewRt}
  /\ grace' = Held(grace) \cup {req[t][k].rt}
  /\ Reply(t, k, [req[t][k] EXCEPT !.st = "ok", !.at = "valid", !.next = NewRt])
  /\ UNCHANGED <<tab, lsUser, lsAt, flag, cookie, writes, bounds>>

(* get_current_user checks the access token when the request arrives; its    *)
(* answer is handled with the action of the tab that it leads to.            *)
Accepted(r) == r.st = "sent" /\ r.at = "valid"
Refused(r) == r.st = "sent" /\ r.at # "valid"

(* A request whose answer is lost, or that is refused the second time.       *)
Fails(r) == \/ Refused(r) /\ r.retry /\ UNCHANGED faults
            \/ r.st = "sent" /\ Fault

-----------------------------------------------------------------------------
(* setUser and the cookies of middleware.ts.                                 *)
SignedIn(t, at) == /\ tab' = [tab EXCEPT ![t].user = TRUE, ![t].init = TRUE]
                   /\ lsUser' = TRUE /\ lsAt' = at /\ flag' = TRUE

SilentAnswered(t) ==
  /\ req[t]["silent"].st = "ok"
  /\ LET r == req[t]["silent"] IN
     /\ cookie' = r.next
     /\ tab' = [tab EXCEPT ![t].mem = r.at] /\ lsAt' = r.at
     /\ req' = [req EXCEPT ![t]["silent"] = [Request EXCEPT !.st = "asking"],
                           ![t]["me"] = [Request EXCEPT !.st = "sent", !.at = r.at,
                                                        !.kept = r.at]]
  /\ UNCHANGED <<lsUser, flag, writes, server, bounds>>

MeAnswered(t) ==
  /\ Accepted(req[t]["me"])
  /\ SignedIn(t, req[t]["me"].kept)
  /\ req' = [req EXCEPT ![t]["silent"] = Request, ![t]["me"] = Request]
  /\ UNCHANGED <<cookie, writes, server, bounds>>

(* 401 or network error: the session of the tab is cleared.                  *)
SilentFails(t) ==
  /\ \/ req[t]["silent"].st = "refused" /\ UNCHANGED faults
     \/ req[t]["silent"].st \in {"sent", "read", "ok"} /\ Fault
     \/ Fails(req[t]["me"])
  /\ tab' = [tab EXCEPT ![t] = [Cleared(t) EXCEPT !.init = TRUE]]
  /\ ClearStorage
  /\ req' = [req EXCEPT ![t]["silent"] = Request, ![t]["me"] = Request]
  /\ UNCHANGED <<cookie, writes, server, signIns, loads, sends, ticks>>

(* Mistaken form of Retries: refreshPromise is not reset, and a refresh that *)
(* has ended is joined.                                                      *)
Retries_AfterEnd(t, k) ==
  /\ k \in Bearer /\ Refused(req[t][k]) /\ ~req[t][k].retry
  /\ req' = [req EXCEPT ![t][k].st = "waiting"]
  /\ UNCHANGED <<tab, lsUser, lsAt, flag, cookie, writes, server, bounds>>

(* The interceptor: a first 401 waits for the shared refresh, then the       *)
(* request is sent once more.                                                *)
Retries(t, k) ==
  /\ k \in Bearer /\ Refused(req[t][k]) /\ ~req[t][k].retry
  /\ req' = [req EXCEPT ![t][k].st = "waiting",
                        ![t]["shared"] = IF @.st = "none" THEN SharedSent ELSE @]
  /\ UNCHANGED <<tab, lsUser, lsAt, flag, cookie, writes, server, bounds>>

SharedAnswered(t) ==
  /\ req[t]["shared"].st = "ok"
  /\ LET r == req[t]["shared"] IN
     /\ cookie' = r.next /\ writes' = writes \cup {r.next}
     /\ tab' = [tab EXCEPT ![t].mem = r.at] /\ lsAt' = r.at
     /\ req' = [req EXCEPT ![t] = [k \in Kind |->
                  IF k = "shared" THEN Request
                  ELSE IF @[k].st = "waiting"
                  THEN [@[k] EXCEPT !.st = "sent", !.at = r.at, !.retry = TRUE]
                  ELSE @[k]]]
  /\ UNCHANGED <<lsUser, flag, server, bounds>>

(* Mistaken form of SharedFails: the 401 of a refresh is not exempt from the *)
(* interceptor's retry, so the refresh awaits refreshPromise, itself.        *)
SharedFails_AwaitsItself(t) ==
  /\ req[t]["shared"].st \in {"sent", "read", "ok"} /\ Fault
  /\ ClearAndLoad(t, IF req[t]["logout"].st = "waiting" THEN "home" ELSE "login", cookie)
  /\ UNCHANGED <<cookie, writes, server, signIns, loads, sends, ticks>>

SharedFails(t) ==
  /\ \/ req[t]["shared"].st = "refused" /\ UNCHANGED faults
     \/ req[t]["shared"].st \in {"sent", "read", "ok"} /\ Fault
  /\ ClearAndLoad(t, IF req[t]["logout"].st = "waiting" THEN "home" ELSE "login", cookie)
  /\ UNCHANGED <<cookie, writes, server, signIns, loads, sends, ticks>>

ApiEnds(t) ==
  /\ \/ Accepted(req[t]["api"]) /\ UNCHANGED faults
     \/ Fails(req[t]["api"])
  /\ Reply(t, "api", Request)
  /\ UNCHANGED <<tab, lsUser, lsAt, flag, cookie, writes, server, signIns, loads, sends, ticks>>

(* The answer of /auth/logout deletes the cookie; the refresh token was not  *)
(* sent to its path and is not revoked.  The tab is cleared in any case.     *)
LogoutEnds(t) ==
  /\ \/ /\ Accepted(req[t]["logout"]) /\ cookie' = 0 /\ UNCHANGED faults
     \/ /\ Fails(req[t]["logout"]) /\ cookie' = cookie
  /\ ClearAndLoad(t, "home", cookie')
  /\ UNCHANGED <<writes, server, signIns, loads, sends, ticks>>

CallbackAnswered(t) ==
  /\ Accepted(req[t]["callback"])
  /\ LET at == req[t]["callback"].kept IN
     /\ tab' = [tab EXCEPT ![t].user = TRUE]
     /\ lsUser' = TRUE /\ lsAt' = at /\ flag' = TRUE
  /\ writes' = writes \cup {tab[t].rt}
  /\ Reply(t, "callback", [Request EXCEPT !.st = "storing"])
  /\ UNCHANGED <<cookie, server, bounds>>

(* router.replace("/student") once the cookie is stored.                     *)
CallbackStored(t) ==
  /\ req[t]["callback"].st = "storing" /\ tab[t].rt \notin writes
  /\ tab' = [tab EXCEPT ![t].page = Middleware("student", flag), ![t].rt = 0]
  /\ Reply(t, "callback", Request)
  /\ UNCHANGED <<lsUser, lsAt, flag, cookie, writes, server, bounds>>

CallbackFails(t) ==
  /\ Fails(req[t]["callback"])
  /\ tab' = [tab EXCEPT ![t].page = "error", ![t].rt = 0]
  /\ Reply(t, "callback", Request)
  /\ UNCHANGED <<lsUser, lsAt, flag, cookie, writes, server, signIns, loads, sends, ticks>>

(* /api/auth/set-cookie, which nobody but the callback page waits for.       *)
Write(w) ==
  /\ writes' = writes \ {w}
  /\ \/ cookie' = w /\ UNCHANGED faults
     \/ Fault /\ UNCHANGED cookie
  /\ UNCHANGED <<tab, req, lsUser, lsAt, flag, server, signIns, loads, sends, ticks>>

(* An access token lives longer than the 120 seconds.                        *)
Aged(at) == IF at = "valid" THEN "expired" ELSE at

Tick ==
  /\ ticks < MaxTick /\ ticks' = ticks + 1
  /\ grace' = {}
  /\ lsAt' = Aged(lsAt)
  /\ tab' = [t \in Tab |-> [tab[t] EXCEPT !.mem = Aged(@)]]
  /\ req' = [t \in Tab |-> [k \in Kind |->
               [req[t][k] EXCEPT !.at = Aged(@), !.kept = Aged(@)]]]
  /\ UNCHANGED <<lsUser, flag, cookie, writes, live, signIns, loads, sends, faults>>

Serve(t, k) == RefreshReads(t, k) \/ RefreshRotates(t, k) \/ Retries(t, k)
Deliver(t) == \/ SilentAnswered(t) \/ MeAnswered(t) \/ SilentFails(t)
              \/ SharedAnswered(t) \/ SharedFails(t) \/ ApiEnds(t)
              \/ LogoutEnds(t)
              \/ CallbackAnswered(t) \/ CallbackStored(t) \/ CallbackFails(t)

Next == \/ \E t \in Tab : \/ \E page \in {"home", "student"} : Load(t, page)
                         \/ SignIn(t) \/ Guard(t) \/ Renew(t) \/ Deliver(t)
                         \/ \E k \in Kind : Send(t, k) \/ Serve(t, k)
        \/ \E w \in writes : Write(w)
        \/ Tick

Spec == Init /\ [][Next]_vars

(* Requests are served or time out, and answers are handled; nobody has to   *)
(* load a page or to send a request.                                         *)
Fairness == /\ \A t \in Tab, k \in Kind : WF_vars(Serve(t, k))
            /\ \A t \in Tab : WF_vars(Deliver(t)) /\ WF_vars(Guard(t))
            /\ WF_vars(\E w \in writes : Write(w))

FairSpec == Spec /\ Fairness

-----------------------------------------------------------------------------
At == {None, "valid", "expired"}

TabState == [page : {"closed", "home", "login", "student", "callback", "error"},
             user : BOOLEAN, init : BOOLEAN, mem : At, rt : Nat]
RequestState == [st : {"none", "sent", "read", "ok", "refused", "asking", "waiting", "storing"},
                 rt : Nat, next : Nat, at : At, kept : At, retry : BOOLEAN]

TypeOK ==
  /\ tab \in [Tab -> TabState]
  /\ req \in [Tab -> [Kind -> RequestState]]
  /\ {lsUser, flag} \subseteq BOOLEAN /\ lsAt \in At /\ cookie \in Nat
  /\ writes \cup live \cup grace \subseteq Nat \ {0}
  /\ live \cap grace = {}

(* localStorage and the cookie that middleware routes by always say the     *)
(* same, with a token for a user; and so does the store of a page.           *)
StorageAgrees == lsUser = flag /\ (flag => lsAt # None)
StoresAgree == /\ StorageAgrees
               /\ \A t \in Tab : tab[t].page # "closed" => tab[t].user = flag

(* A request waits only for one that is under way, and never in a circle:    *)
(* the silent refresh for /auth/me, a request with an access token for the   *)
(* shared refresh, and the shared refresh for the backend alone.             *)
WaitsAreServed == \A t \in Tab, k \in Kind :
  /\ req[t][k].st = "waiting" => k \in Bearer /\ req[t]["shared"].st # "none"
  /\ req[t][k].st = "asking" => k = "silent" /\ req[t]["me"].st # "none"

(* Every request comes to an end: none waits for a refresh that waits for it.*)
RequestsEnd == \A t \in Tab, k \in Kind : req[t][k].st # "none" ~> req[t][k].st = "none"

(* No tab stays for good on a page of the student that it refuses to show.   *)
NotStuck == \A t \in Tab :
              []<>~(tab[t].page = "student" /\ tab[t].init /\ ~tab[t].user)

=============================================================================
