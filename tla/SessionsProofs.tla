--------------------------- MODULE SessionsProofs ---------------------------
(***************************************************************************)
(* Proofs about Sessions for every finite set of tabs and every bound.     *)
(* What the storage shared by the tabs holds is proved of any number of    *)
(* them; that the store of a page agrees with it, of a browser with one:   *)
(* another tab changes the storage under a page that does not look again.  *)
(***************************************************************************)
EXTENDS Sessions, FiniteSetTheorems, FunctionTheorems, TLAPS

(***************************************************************************)
(* Lemmas about the names of refresh tokens.                               *)
(***************************************************************************)

\* Of one number more than a finite set has members, one is not a member.
LEMMA UnusedIsNew ==
  ASSUME NEW S, IsFiniteSet(S)
  PROVE  Unused(S) \in Nat \ {0} /\ Unused(S) \notin S
  <1> DEFINE N == Cardinality(S) + 1
             I == 1 .. N
  <1>1. Cardinality(S) \in Nat /\ N \in Nat
    BY FS_CardinalityType
  <1>2. N > Cardinality(S) /\ 1 \in Int /\ N \in Int /\ ~(1 > N) /\ N - 1 + 1 = N
    BY <1>1
  <1>3. I \subseteq Nat \ {0}
    BY <1>1
  <1> HIDE DEF N
  <1>4. Cardinality(I) = N
    BY <1>2, FS_Interval
  <1> HIDE DEF I
  <1>5. ~(I \in SUBSET S)
    <2>1. I \in SUBSET S => Cardinality(I) <= Cardinality(S)
      BY FS_Subset
    <2> QED
      BY <1>1, <1>2, <1>4, <2>1
  <1>6. (CHOOSE n \in I : n \notin S) \in I /\ (CHOOSE n \in I : n \notin S) \notin S
    BY <1>5
  <1> QED
    BY <1>3, <1>6 DEF Unused, I, N

\* The values of a function on a finite set are finitely many.
LEMMA FiniteValues ==
  ASSUME NEW S, IsFiniteSet(S), NEW f, f = [x \in S |-> f[x]]
  PROVE  IsFiniteSet({f[x] : x \in S})
  <1> DEFINE R == {f[x] : x \in S}
  <1>1. f \in Surjection(S, R)
    BY DEF Surjection
  <1> QED
    BY <1>1, FS_Surjection

\* There are six kinds of requests.
LEMMA FiniteKind == IsFiniteSet(Kind)
  <1>1. IsFiniteSet({"silent"}) /\ IsFiniteSet({"me"})
    BY FS_Singleton
  <1>2. IsFiniteSet({"silent"} \cup {"shared"}) /\ IsFiniteSet({"me"} \cup {"callback"})
    BY <1>1, FS_AddElement
  <1>3. IsFiniteSet(({"me"} \cup {"callback"}) \cup {"api"})
    BY <1>2, FS_AddElement
  <1>4. IsFiniteSet((({"me"} \cup {"callback"}) \cup {"api"}) \cup {"logout"})
    BY <1>3, FS_AddElement
  <1>5. IsFiniteSet(({"silent"} \cup {"shared"})
                    \cup ((({"me"} \cup {"callback"}) \cup {"api"}) \cup {"logout"}))
    BY <1>2, <1>4, FS_Union
  <1>6. Kind = ({"silent"} \cup {"shared"})
               \cup ((({"me"} \cup {"callback"}) \cup {"api"}) \cup {"logout"})
    BY DEF Kind, Refresh, Bearer
  <1> QED
    BY <1>5, <1>6

\* The tokens in the cookie, under way and in the tabs are finitely many.
LEMMA HeldFinite ==
  ASSUME IsFiniteSet(writes)
  PROVE  IsFiniteSet(RtHeld)
  <1> DEFINE P == Tab \X Kind
             inUrl == [t \in Tab |-> tab[t].rt]
             sent == [p \in P |-> req[p[1]][p[2]].rt]
             answered == [p \in P |-> req[p[1]][p[2]].next]
             A == {inUrl[t] : t \in Tab}
             B == {sent[p] : p \in P}
             C == {answered[p] : p \in P}
  <1>1. IsFiniteSet(Tab) /\ IsFiniteSet(P)
    BY SessionBounds, FiniteKind, FS_Product
  <1>2. \A t \in Tab : tab[t].rt \in A
    OBVIOUS
  <1>3. \A t \in Tab, k \in Kind : req[t][k].rt \in B /\ req[t][k].next \in C
    <2> TAKE t \in Tab, k \in Kind
    <2>1. /\ <<t, k>> \in P /\ sent[<<t, k>>] = req[t][k].rt
          /\ answered[<<t, k>>] = req[t][k].next
      OBVIOUS
    <2> QED
      BY <2>1
  <1>4. /\ inUrl = [t \in Tab |-> inUrl[t]] /\ sent = [p \in P |-> sent[p]]
        /\ answered = [p \in P |-> answered[p]]
    OBVIOUS
  <1> HIDE DEF P, inUrl, sent, answered
  <1>5. IsFiniteSet(A) /\ IsFiniteSet(B) /\ IsFiniteSet(C)
    BY <1>1, <1>4, FiniteValues
  <1> HIDE DEF A, B, C
  <1>6. RtHeld \in SUBSET ((writes \cup {cookie}) \cup (A \cup (B \cup C)))
    BY <1>2, <1>3 DEF RtHeld
  <1>7. IsFiniteSet(writes \cup {cookie}) /\ IsFiniteSet(B \cup C)
    BY <1>5, FS_AddElement, FS_Union
  <1>8. IsFiniteSet(A \cup (B \cup C))
    BY <1>5, <1>7, FS_Union
  <1>9. IsFiniteSet((writes \cup {cookie}) \cup (A \cup (B \cup C)))
    BY <1>7, <1>8, FS_Union
  <1> QED
    BY <1>6, <1>9, FS_Subset

\* A refresh token of the backend is positive, and nobody holds it.
LEMMA NewRtIsNew ==
  ASSUME IsFiniteSet(writes)
  PROVE  NewRt \in Nat \ {0} /\ NewRt \notin RtHeld
  BY HeldFinite, UnusedIsNew DEF NewRt

(***************************************************************************)
(* The inductive invariant.  A tab and its requests are taken together: the *)
(* tokens that an answer will store were there when it was asked for.      *)
(***************************************************************************)
RequestOK(k, r, x) ==
  /\ k \in Refresh => /\ r.st = "read" => r.rt # 0
                      /\ r.st = "ok" => r.next # 0 /\ r.at # None
  /\ k = "me" /\ r.st # "none" => r.kept # None
  /\ k = "callback" /\ r.st \in {"sent", "waiting"} => r.kept # None /\ x.rt # 0

RowOK(x, q) == /\ x \in TabState /\ q \in [Kind -> RequestState]
               /\ \A k \in Kind : RequestOK(k, q[k], x)

RowsOK == /\ tab \in [Tab -> TabState] /\ req \in [Tab -> [Kind -> RequestState]]
          /\ \A t \in Tab : RowOK(tab[t], req[t])

TokensOK == /\ cookie \in Nat /\ writes \cup live \cup grace \subseteq Nat \ {0}
            /\ live \cap grace = {} /\ IsFiniteSet(writes)

StorageOK == {lsUser, flag} \subseteq BOOLEAN /\ lsAt \in At /\ StorageAgrees

IndInv == RowsOK /\ TokensOK /\ StorageOK

(***************************************************************************)
(* Lemmas about rows.                                                      *)
(***************************************************************************)

\* A step changes the row of one tab.
LEMMA RowStep ==
  ASSUME RowsOK, NEW t \in Tab, NEW x, NEW q, RowOK(x, q),
         tab' = [tab EXCEPT ![t] = x], req' = [req EXCEPT ![t] = q]
  PROVE  RowsOK'
  <1>1. x \in TabState /\ q \in [Kind -> RequestState]
    BY DEF RowOK
  <1>2. tab' \in [Tab -> TabState] /\ req' \in [Tab -> [Kind -> RequestState]]
    BY <1>1 DEF RowsOK
  <1>3. \A u \in Tab : RowOK(tab'[u], req'[u])
    <2> TAKE u \in Tab
    <2>1. CASE u = t
      <3>1. tab'[u] = x /\ req'[u] = q
        BY <2>1 DEF RowsOK
      <3> QED
        BY <3>1
    <2>2. CASE u # t
      <3>1. tab'[u] = tab[u] /\ req'[u] = req[u]
        BY <2>2 DEF RowsOK
      <3>2. RowOK(tab[u], req[u])
        BY DEF RowsOK
      <3> QED
        BY <3>1, <3>2
    <2> QED
      BY <2>1, <2>2
  <1> QED
    BY <1>2, <1>3 DEF RowsOK

\* One request of a tab moves.
LEMMA RequestStep ==
  ASSUME RowsOK, NEW t \in Tab, NEW k \in Kind, NEW r \in RequestState,
         RequestOK(k, r, tab[t]),
         tab' = tab, req' = [req EXCEPT ![t][k] = r]
  PROVE  RowsOK'
  <1> DEFINE x == tab[t]
             q == [req[t] EXCEPT ![k] = r]
  <1>1. RowOK(x, req[t])
    BY DEF RowsOK
  <1>2. q \in [Kind -> RequestState] /\ x \in TabState
    BY <1>1 DEF RowOK
  <1>3. \A l \in Kind : RequestOK(l, q[l], x)
    <2> TAKE l \in Kind
    <2>1. q[l] = IF l = k THEN r ELSE req[t][l]
      BY <1>1 DEF RowOK
    <2>2. RequestOK(l, req[t][l], x)
      BY <1>1 DEF RowOK
    <2> HIDE DEF q
    <2> QED
      BY <2>1, <2>2
  <1>4. tab' = [tab EXCEPT ![t] = x] /\ req' = [req EXCEPT ![t] = q]
    BY DEF RowsOK
  <1>5. RowOK(x, q)
    BY <1>2, <1>3 DEF RowOK
  <1> HIDE DEF x, q
  <1> QED
    BY <1>4, <1>5, RowStep

\* The tab changes, and its requests do not.
LEMMA TabStep ==
  ASSUME RowsOK, NEW t \in Tab, NEW x \in TabState,
         req[t]["callback"].st \in {"sent", "waiting"} => x.rt = tab[t].rt,
         tab' = [tab EXCEPT ![t] = x], req' = req
  PROVE  RowsOK'
  <1> DEFINE q == req[t]
  <1>1. RowOK(tab[t], q)
    BY DEF RowsOK
  <1>2. RowOK(x, q)
    <2>1. q \in [Kind -> RequestState] /\ \A k \in Kind : RequestOK(k, q[k], tab[t])
      BY <1>1 DEF RowOK
    <2>2. \A k \in Kind : RequestOK(k, q[k], x)
      BY <2>1 DEF RequestOK
    <2> QED
      BY <2>1, <2>2 DEF RowOK
  <1>3. req' = [req EXCEPT ![t] = q]
    BY DEF RowsOK
  <1> HIDE DEF q
  <1> QED
    BY <1>2, <1>3, RowStep

\* A page load has the types of a tab, and drops the tab's requests but the
\* silent refresh.
LEMMA LoadedTyped ==
  ASSUME NEW page \in {"home", "login", "student", "callback"}, NEW f \in BOOLEAN,
         NEW user \in BOOLEAN, NEW at \in At
  PROVE  Loaded(page, f, user, at) \in TabState
  BY DEF Loaded, Middleware, TabState, At, None

LEMMA MountedOK ==
  ASSUME NEW x \in TabState, NEW c \in Nat
  PROVE  RowOK(x, Mounted(c))
  BY DEF RowOK, RequestOK, Mounted, Idle, Request, RequestState, Kind, Refresh, Bearer, At, None

\* What the invariant says of a tab and of a request.
LEMMA RowTyped ==
  ASSUME RowsOK, NEW t \in Tab, NEW k \in Kind
  PROVE  /\ tab[t] \in TabState /\ req[t] \in [Kind -> RequestState]
         /\ req[t][k] \in RequestState /\ RequestOK(k, req[t][k], tab[t])
  BY DEF RowsOK, RowOK

\* The names of the requests.
LEMMA KindNames ==
  /\ \A k : k \in Kind <=> k \in {"silent", "shared", "me", "callback", "api", "logout"}
  /\ Refresh = {"silent", "shared"} /\ Bearer = {"me", "callback", "api", "logout"}
  BY DEF Kind, Refresh, Bearer

\* A request not yet made asks nothing of the tab.
LEMMA NoRequest ==
  /\ Request \in RequestState
  /\ \A k, x : RequestOK(k, Request, x)
  BY DEF Request, RequestState, RequestOK, At, None

\* A shared refresh that is sent, or one that is under way.
LEMMA SharedSentOK ==
  ASSUME TokensOK
  PROVE  SharedSent \in RequestState /\ \A x : RequestOK("shared", SharedSent, x)
  BY DEF SharedSent, TokensOK, Request, RequestState, RequestOK, At, None

(***************************************************************************)
(* Lemmas about tokens and storage.                                        *)
(***************************************************************************)

\* The tokens of the cookie, of a POST and of a request are held.
LEMMA HeldByRequest ==
  ASSUME NEW t \in Tab, NEW k \in Kind
  PROVE  req[t][k].rt \in RtHeld
  <1> DEFINE both == {req[t][k].rt, req[t][k].next}
             all == {{req[u][l].rt, req[u][l].next} : u \in Tab, l \in Kind}
  <1>1. both \in all
    OBVIOUS
  <1>2. req[t][k].rt \in both
    OBVIOUS
  <1> HIDE DEF both, all
  <1>3. req[t][k].rt \in UNION all
    BY <1>1, <1>2
  <1> QED
    BY <1>3 DEF RtHeld, all

\* clearUser empties localStorage and drops the flag.
LEMMA ClearKeepsStorage ==
  ASSUME ClearStorage
  PROVE  StorageOK'
  BY DEF ClearStorage, StorageOK, StorageAgrees, At, None

\* setUser stores the user with its token, and sets the flag.
LEMMA SetUserKeepsStorage ==
  ASSUME NEW at \in At, at # None, lsUser' = TRUE, lsAt' = at, flag' = TRUE
  PROVE  StorageOK'
  BY DEF StorageOK, StorageAgrees

\* A new access token replaces that of localStorage.
LEMMA TokenKeepsStorage ==
  ASSUME StorageOK, NEW at \in At, at # None, lsAt' = at, UNCHANGED <<lsUser, flag>>
  PROVE  StorageOK'
  BY DEF StorageOK, StorageAgrees

\* A token is stored in the cookie, perhaps with a POST that stores it again.
LEMMA CookieKeepsTokens ==
  ASSUME TokensOK, cookie' \in Nat, NEW w \in Nat \ {0},
         writes' = writes \cup {w}, UNCHANGED server
  PROVE  TokensOK'
  <1>1. IsFiniteSet(writes \cup {w})
    BY FS_AddElement DEF TokensOK
  <1> QED
    BY <1>1 DEF TokensOK, server

(***************************************************************************)
(* Every step keeps the invariant: pages, guards and requests.             *)
(***************************************************************************)

\* The page starts from localStorage, where a user has a token.
LEMMA LoadStep ==
  ASSUME IndInv, NEW t \in Tab, NEW page \in {"home", "student"}, Load(t, page)
  PROVE  IndInv'
  <1> DEFINE x == Loaded(page, flag, lsUser, lsAt)
             q == Mounted(cookie)
  <1>1. x \in TabState
    BY LoadedTyped DEF IndInv, StorageOK
  <1>2. RowOK(x, q)
    BY <1>1, MountedOK DEF IndInv, TokensOK
  <1>3. tab' = [tab EXCEPT ![t] = x] /\ req' = [req EXCEPT ![t] = q]
    BY DEF Load
  <1> HIDE DEF x, q
  <1>4. RowsOK'
    BY <1>2, <1>3, RowStep DEF IndInv
  <1>5. TokensOK' /\ StorageOK'
    BY DEF Load, IndInv, TokensOK, StorageOK, StorageAgrees, server
  <1> QED
    BY <1>4, <1>5 DEF IndInv

\* The callback's page knows its two tokens before it asks for the user; its
\* refresh token is new.
LEMMA SignInStep ==
  ASSUME IndInv, NEW t \in Tab, SignIn(t)
  PROVE  IndInv'
  <1> DEFINE x == [Loaded("callback", flag, lsUser, lsAt) EXCEPT !.mem = "valid", !.rt = NewRt]
             q == [Mounted(cookie) EXCEPT !["callback"].st = "sent",
                                          !["callback"].at = "valid",
                                          !["callback"].kept = "valid"]
  <1>1. NewRt \in Nat \ {0} /\ NewRt \notin RtHeld
    BY NewRtIsNew DEF IndInv, TokensOK
  <1>2. Loaded("callback", flag, lsUser, lsAt) \in TabState
    BY LoadedTyped DEF IndInv, StorageOK
  <1>3. x \in TabState /\ x.rt = NewRt
    BY <1>1, <1>2 DEF TabState, At
  <1>4. cookie \in Nat
    BY DEF IndInv, TokensOK
  <1>5. RowOK(x, q)
    <2> HIDE DEF x
    <2>1. q \in [Kind -> RequestState]
      BY <1>4 DEF Mounted, Idle, Request, RequestState, Kind, Refresh, Bearer, At, None
    <2>2. \A k \in Kind : RequestOK(k, q[k], x)
      BY <1>1, <1>3, <1>4 DEF RequestOK, Mounted, Idle, Request, Kind, Refresh, Bearer, None
    <2> QED
      BY <1>3, <2>1, <2>2 DEF RowOK
  <1>6. tab' = [tab EXCEPT ![t] = x] /\ req' = [req EXCEPT ![t] = q]
    BY DEF SignIn
  <1> HIDE DEF x, q
  <1>7. RowsOK'
    BY <1>5, <1>6, RowStep DEF IndInv
  <1>8. TokensOK'
    <2>1. live' = Held(live) \cup {NewRt} /\ grace' = Held(grace)
      BY DEF SignIn
    <2> QED
      BY <1>1, <2>1 DEF SignIn, IndInv, TokensOK, Held
  <1>9. StorageOK'
    BY DEF SignIn, IndInv, StorageOK, StorageAgrees, At, None
  <1> QED
    BY <1>7, <1>8, <1>9 DEF IndInv

\* A soft redirect leads to a page.
LEMMA GuardStep ==
  ASSUME IndInv, NEW t \in Tab, Guard(t)
  PROVE  IndInv'
  <1>1. PICK page \in {"home", "login", "student"} : tab' = [tab EXCEPT ![t].page = page]
    BY DEF Guard, Middleware
  <1> DEFINE x == [tab[t] EXCEPT !.page = page]
  <1>2. tab[t] \in TabState /\ tab \in [Tab -> TabState]
    BY DEF IndInv, RowsOK
  <1>3. x \in TabState /\ x.rt = tab[t].rt
    BY <1>2 DEF TabState
  <1>4. tab' = [tab EXCEPT ![t] = x] /\ req' = req
    BY <1>1, <1>2 DEF Guard
  <1> HIDE DEF x
  <1>5. RowsOK'
    BY <1>3, <1>4, TabStep DEF IndInv
  <1>6. TokensOK' /\ StorageOK'
    BY DEF Guard, IndInv, TokensOK, StorageOK, StorageAgrees, server
  <1> QED
    BY <1>5, <1>6 DEF IndInv

\* A request of the student's page, with the token in memory or the one stored.
LEMMA SendStep ==
  ASSUME IndInv, NEW t \in Tab, NEW k \in Kind, Send(t, k)
  PROVE  IndInv'
  <1> DEFINE x == [tab[t] EXCEPT !.mem = Token(t)]
             r == [Request EXCEPT !.st = "sent", !.at = Token(t)]
             q == [req[t] EXCEPT ![k] = r]
  <1>1. k \in {"api", "logout"}
    BY DEF Send
  <1>2. RowOK(tab[t], req[t]) /\ tab[t] \in TabState /\ req[t] \in [Kind -> RequestState]
    BY DEF IndInv, RowsOK, RowOK
  <1>3. Token(t) \in At
    BY <1>2 DEF Token, TabState, IndInv, StorageOK
  <1>4. x \in TabState /\ x.rt = tab[t].rt
    BY <1>2, <1>3 DEF TabState
  <1>5. r \in RequestState
    BY <1>3 DEF Request, RequestState, At, None
  <1>6. q \in [Kind -> RequestState] /\ \A l \in Kind : l # k => q[l] = req[t][l]
    BY <1>2, <1>5
  <1>7. RowOK(x, q)
    <2>1. \A l \in Kind : RequestOK(l, req[t][l], tab[t])
      BY <1>2 DEF RowOK
    <2> HIDE DEF x, q
    <2>2. \A l \in Kind : RequestOK(l, q[l], x)
      BY <1>1, <1>4, <1>6, <2>1 DEF RequestOK, Refresh
    <2> QED
      BY <1>4, <1>6, <2>2 DEF RowOK
  <1>8. tab' = [tab EXCEPT ![t] = x] /\ req' = [req EXCEPT ![t] = q]
    BY DEF Send, IndInv, RowsOK
  <1> HIDE DEF x, q
  <1>9. RowsOK'
    BY <1>7, <1>8, RowStep DEF IndInv
  <1>10. TokensOK' /\ StorageOK'
    BY DEF Send, IndInv, TokensOK, StorageOK, StorageAgrees, server
  <1> QED
    BY <1>9, <1>10 DEF IndInv

\* A socket asks for a token that lasts.
LEMMA RenewStep ==
  ASSUME IndInv, NEW t \in Tab, Renew(t)
  PROVE  IndInv'
  <1>1. "shared" \in Kind
    BY KindNames
  <1>2. SharedSent \in RequestState /\ RequestOK("shared", SharedSent, tab[t])
    BY SharedSentOK DEF IndInv
  <1>3. tab' = tab /\ req' = [req EXCEPT ![t]["shared"] = SharedSent]
    BY DEF Renew
  <1>4. RowsOK'
    BY <1>1, <1>2, <1>3, RequestStep DEF IndInv
  <1>5. TokensOK' /\ StorageOK'
    BY DEF Renew, IndInv, TokensOK, StorageOK, StorageAgrees, server
  <1> QED
    BY <1>4, <1>5 DEF IndInv

(***************************************************************************)
(* Every step keeps the invariant: the backend.                            *)
(***************************************************************************)

\* A token that is found is a number other than 0, and so is the answer.
LEMMA RefreshReadsStep ==
  ASSUME IndInv, NEW t \in Tab, NEW k \in Kind, RefreshReads(t, k)
  PROVE  IndInv'
  <1> DEFINE r == req[t][k]
  <1>1. r \in RequestState
    BY RowTyped DEF IndInv
  <1>2. k \in Refresh /\ tab' = tab
    BY DEF RefreshReads
  <1>3. k # "me" /\ k # "callback"
    BY <1>2 DEF Refresh
  <1>4. PICK new \in {[r EXCEPT !.st = "read"],
                      [r EXCEPT !.st = "ok", !.at = "valid", !.next = r.rt],
                      [r EXCEPT !.st = "refused"]} :
               /\ req' = [req EXCEPT ![t][k] = new]
               /\ new.st \in {"read", "ok"} => r.rt \in live \cup grace
    <2>1. CASE r.rt \in live /\ Reply(t, k, [r EXCEPT !.st = "read"])
      BY <2>1 DEF Reply
    <2>2. CASE r.rt \in grace /\ Reply(t, k, [r EXCEPT !.st = "ok", !.at = "valid", !.next = r.rt])
      BY <2>2 DEF Reply
    <2>3. CASE r.rt \notin live \cup grace /\ Reply(t, k, [r EXCEPT !.st = "refused"])
      <3>1. [r EXCEPT !.st = "refused"].st = "refused"
        BY <1>1 DEF RequestState
      <3> QED
        BY <2>3, <3>1 DEF Reply
    <2> QED
      BY <2>1, <2>2, <2>3 DEF RefreshReads
  <1>5. new \in RequestState
    BY <1>1, <1>4 DEF RequestState, At
  <1>6. RequestOK(k, new, tab[t])
    <2>1. new.st \in {"read", "ok"} => new.rt # 0 /\ r.rt # 0 /\ new.rt = r.rt
      BY <1>1, <1>4 DEF RequestState, IndInv, TokensOK
    <2>2. new.st = "ok" => new.next = r.rt /\ new.at = "valid"
      BY <1>1, <1>4 DEF RequestState
    <2> QED
      BY <1>3, <2>1, <2>2 DEF RequestOK, None
  <1> HIDE DEF r
  <1>7. RowsOK'
    BY <1>2, <1>4, <1>5, <1>6, RequestStep DEF IndInv
  <1>8. TokensOK' /\ StorageOK'
    BY DEF RefreshReads, IndInv, TokensOK, StorageOK, StorageAgrees
  <1> QED
    BY <1>7, <1>8 DEF IndInv

\* The new token is none that is held, and the old one is revoked: no token
\* is both valid and revoked.
LEMMA RefreshRotatesStep ==
  ASSUME IndInv, NEW t \in Tab, NEW k \in Kind, RefreshRotates(t, k)
  PROVE  IndInv'
  <1> DEFINE r == req[t][k]
             new == [r EXCEPT !.st = "ok", !.at = "valid", !.next = NewRt]
  <1>1. r \in RequestState /\ RequestOK(k, r, tab[t]) /\ k \in Refresh /\ r.st = "read"
    BY RowTyped DEF IndInv, RefreshRotates
  <1>2. NewRt \in Nat \ {0} /\ NewRt \notin RtHeld
    BY NewRtIsNew DEF IndInv, TokensOK
  <1>3. r.rt \in RtHeld /\ r.rt \in Nat \ {0}
    BY <1>1, HeldByRequest DEF RequestOK, RequestState
  <1>4. new \in RequestState /\ RequestOK(k, new, tab[t])
    BY <1>1, <1>2 DEF RequestOK, RequestState, Refresh, At, None
  <1>5. tab' = tab /\ req' = [req EXCEPT ![t][k] = new]
    BY DEF RefreshRotates, Reply
  <1>6. RowsOK'
    <2> HIDE DEF new
    <2> QED
      BY <1>4, <1>5, RequestStep DEF IndInv
  <1>7. TokensOK'
    <2>1. /\ live' = (Held(live) \ {r.rt}) \cup {NewRt}
          /\ grace' = Held(grace) \cup {r.rt} /\ UNCHANGED <<cookie, writes>>
      BY DEF RefreshRotates
    <2> HIDE DEF r
    <2> QED
      BY <1>2, <1>3, <2>1 DEF IndInv, TokensOK, Held
  <1>8. StorageOK'
    BY DEF RefreshRotates, IndInv, StorageOK, StorageAgrees
  <1> QED
    BY <1>6, <1>7, <1>8 DEF IndInv

(***************************************************************************)
(* Every step keeps the invariant: answers.                                *)
(***************************************************************************)

\* The silent refresh stores its tokens, and asks for the user.
LEMMA SilentAnsweredStep ==
  ASSUME IndInv, NEW t \in Tab, SilentAnswered(t)
  PROVE  IndInv'
  <1> DEFINE r == req[t]["silent"]
             x == [tab[t] EXCEPT !.mem = r.at]
             asking == [Request EXCEPT !.st = "asking"]
             me == [Request EXCEPT !.st = "sent", !.at = r.at, !.kept = r.at]
             q == [req[t] EXCEPT !["silent"] = asking, !["me"] = me]
  <1>0. "silent" \in Kind /\ "silent" \in Refresh
    BY KindNames
  <1>1. r \in RequestState /\ RequestOK("silent", r, tab[t]) /\ r.st = "ok"
    BY <1>0, RowTyped DEF IndInv, SilentAnswered
  <1>2. r.at \in At /\ r.at # None /\ r.next \in Nat \ {0}
    BY <1>0, <1>1 DEF RequestOK, RequestState
  <1>3. RowOK(tab[t], req[t]) /\ tab[t] \in TabState /\ req[t] \in [Kind -> RequestState]
    BY DEF IndInv, RowsOK, RowOK
  <1>4. x \in TabState /\ x.rt = tab[t].rt
    BY <1>2, <1>3 DEF TabState
  <1>5. /\ asking \in RequestState /\ asking.st = "asking"
        /\ me \in RequestState /\ me.st = "sent" /\ me.kept = r.at
    BY <1>2 DEF Request, RequestState, At, None
  <1> HIDE DEF asking, me, x, r
  <1>6. /\ q \in [Kind -> RequestState] /\ q["silent"] = asking /\ q["me"] = me
        /\ \A k \in Kind : k \notin {"silent", "me"} => q[k] = req[t][k]
    BY <1>3, <1>5, KindNames
  <1>7. RowOK(x, q)
    <2>1. \A k \in Kind : RequestOK(k, req[t][k], tab[t])
      BY <1>3 DEF RowOK
    <2> HIDE DEF q
    <2>2. \A k \in Kind : RequestOK(k, q[k], x)
      BY <1>2, <1>4, <1>5, <1>6, <2>1 DEF RequestOK
    <2> QED
      BY <1>4, <1>6, <2>2 DEF RowOK
  <1>8. tab' = [tab EXCEPT ![t] = x] /\ req' = [req EXCEPT ![t] = q]
    BY DEF SilentAnswered, IndInv, RowsOK, x, r, me, asking
  <1>9. RowsOK'
    <2> HIDE DEF q
    <2> QED
      BY <1>7, <1>8, RowStep DEF IndInv
  <1>10. TokensOK'
    BY <1>2 DEF SilentAnswered, IndInv, TokensOK, server, r
  <1>11. StorageOK'
    <2>1. lsAt' = r.at /\ UNCHANGED <<lsUser, flag>>
      BY DEF SilentAnswered, r
    <2> QED
      BY <1>2, <2>1, TokenKeepsStorage DEF IndInv
  <1> QED
    BY <1>9, <1>10, <1>11 DEF IndInv

\* The silent refresh and its request for the user are over: the row of the
\* tab without them.
LEMMA SilentOver ==
  ASSUME RowsOK, NEW t \in Tab, NEW x \in TabState, x.rt = tab[t].rt,
         tab' = [tab EXCEPT ![t] = x],
         req' = [req EXCEPT ![t]["silent"] = Request, ![t]["me"] = Request]
  PROVE  RowsOK'
  <1> DEFINE q == [req[t] EXCEPT !["silent"] = Request, !["me"] = Request]
  <1>1. RowOK(tab[t], req[t]) /\ req[t] \in [Kind -> RequestState]
    BY DEF RowsOK, RowOK
  <1>2. /\ q \in [Kind -> RequestState] /\ q["silent"] = Request /\ q["me"] = Request
        /\ \A k \in Kind : k \notin {"silent", "me"} => q[k] = req[t][k]
    BY <1>1, NoRequest, KindNames
  <1>3. req' = [req EXCEPT ![t] = q]
    BY DEF RowsOK
  <1> HIDE DEF q
  <1>4. \A k \in Kind : RequestOK(k, q[k], x)
    <2>1. \A k \in Kind : RequestOK(k, req[t][k], tab[t])
      BY <1>1 DEF RowOK
    <2>2. \A k \in Kind : k \notin {"silent", "me"} => RequestOK(k, req[t][k], x)
      BY <2>1 DEF RequestOK
    <2> QED
      BY <1>2, <2>2, NoRequest
  <1> QED
    BY <1>2, <1>3, <1>4, RowStep DEF RowOK

\* The user is stored with the token that was kept for it.
LEMMA MeAnsweredStep ==
  ASSUME IndInv, NEW t \in Tab, MeAnswered(t)
  PROVE  IndInv'
  <1> DEFINE at == req[t]["me"].kept
             x == [tab[t] EXCEPT !.user = TRUE, !.init = TRUE]
  <1>1. /\ "me" \in Kind /\ tab[t] \in TabState /\ req[t]["me"] \in RequestState
        /\ RequestOK("me", req[t]["me"], tab[t])
    BY KindNames, RowTyped DEF IndInv
  <1>2. at \in At /\ at # None
    BY <1>1 DEF RequestOK, RequestState, MeAnswered, Accepted
  <1>3. x \in TabState /\ x.rt = tab[t].rt
    BY <1>1 DEF TabState
  <1>4. tab' = [tab EXCEPT ![t] = x]
    BY DEF MeAnswered, SignedIn, IndInv, RowsOK
  <1>5. /\ req' = [req EXCEPT ![t]["silent"] = Request, ![t]["me"] = Request]
        /\ lsUser' = TRUE /\ lsAt' = at /\ flag' = TRUE
    BY DEF MeAnswered, SignedIn
  <1> HIDE DEF x, at
  <1>6. RowsOK'
    BY <1>3, <1>4, <1>5, SilentOver DEF IndInv
  <1>7. StorageOK'
    BY <1>2, <1>5, SetUserKeepsStorage
  <1>8. TokensOK'
    BY DEF MeAnswered, IndInv, TokensOK, server
  <1> QED
    BY <1>6, <1>7, <1>8 DEF IndInv

\* The tab and the storage are cleared together.
LEMMA SilentFailsStep ==
  ASSUME IndInv, NEW t \in Tab, SilentFails(t)
  PROVE  IndInv'
  <1> DEFINE x == [Cleared(t) EXCEPT !.init = TRUE]
  <1>1. tab[t] \in TabState
    BY DEF IndInv, RowsOK
  <1>2. x \in TabState /\ x.rt = tab[t].rt
    BY <1>1 DEF TabState, Cleared, At
  <1>3. /\ tab' = [tab EXCEPT ![t] = x]
        /\ req' = [req EXCEPT ![t]["silent"] = Request, ![t]["me"] = Request]
    BY DEF SilentFails
  <1> HIDE DEF x
  <1>4. RowsOK'
    BY <1>2, <1>3, SilentOver DEF IndInv
  <1>5. StorageOK'
    BY ClearKeepsStorage DEF SilentFails
  <1>6. TokensOK'
    BY DEF SilentFails, IndInv, TokensOK, server
  <1> QED
    BY <1>4, <1>5, <1>6 DEF IndInv

\* The request waits, and a shared refresh is sent unless one is under way.
LEMMA RetriesStep ==
  ASSUME IndInv, NEW t \in Tab, NEW k \in Kind, Retries(t, k)
  PROVE  IndInv'
  <1> DEFINE w == [req[t][k] EXCEPT !.st = "waiting"]
             s == IF req[t]["shared"].st = "none" THEN SharedSent ELSE req[t]["shared"]
             q == [req[t] EXCEPT ![k] = w, !["shared"] = s]
  <1>1. k \in Bearer /\ k # "shared" /\ k \notin Refresh /\ req[t][k].st = "sent" /\ "shared" \in Kind
    BY KindNames DEF Retries, Refused
  <1>2. RowOK(tab[t], req[t]) /\ tab[t] \in TabState /\ req[t] \in [Kind -> RequestState]
    BY DEF IndInv, RowsOK, RowOK
  <1>3. \A l \in Kind : RequestOK(l, req[t][l], tab[t]) /\ req[t][l] \in RequestState
    BY <1>2 DEF RowOK
  <1>4. s \in RequestState /\ RequestOK("shared", s, tab[t])
    BY <1>1, <1>3, SharedSentOK DEF IndInv
  <1>5. w \in RequestState /\ RequestOK(k, w, tab[t])
    BY <1>1, <1>3 DEF RequestOK, RequestState
  <1>6. tab' = [tab EXCEPT ![t] = tab[t]]
    BY DEF Retries, IndInv, RowsOK
  <1>7. req' = [req EXCEPT ![t] = q]
    <2>1. req' = [req EXCEPT ![t][k].st = "waiting",
                             ![t]["shared"] = IF @.st = "none" THEN SharedSent ELSE @]
      BY DEF Retries
    <2> QED
      BY <1>1, <1>2, <2>1 DEF IndInv, RowsOK
  <1> HIDE DEF w, s
  <1>8. /\ q \in [Kind -> RequestState] /\ q[k] = w /\ q["shared"] = s
        /\ \A l \in Kind : l \notin {k, "shared"} => q[l] = req[t][l]
    BY <1>1, <1>2, <1>4, <1>5
  <1> HIDE DEF q
  <1>9. RowOK(tab[t], q)
    <2>1. \A l \in Kind : RequestOK(l, q[l], tab[t])
      BY <1>3, <1>4, <1>5, <1>8
    <2> QED
      BY <1>2, <1>8, <2>1 DEF RowOK
  <1>10. RowsOK'
    BY <1>6, <1>7, <1>9, RowStep DEF IndInv
  <1>11. TokensOK' /\ StorageOK'
    BY DEF Retries, IndInv, TokensOK, StorageOK, StorageAgrees, server
  <1> QED
    BY <1>10, <1>11 DEF IndInv

\* Who waited for the refresh sends again with the new token.
LEMMA SharedAnsweredStep ==
  ASSUME IndInv, NEW t \in Tab, SharedAnswered(t)
  PROVE  IndInv'
  <1> DEFINE r == req[t]["shared"]
             x == [tab[t] EXCEPT !.mem = r.at]
             again(k) == [req[t][k] EXCEPT !.st = "sent", !.at = r.at, !.retry = TRUE]
             q == [k \in Kind |-> IF k = "shared" THEN Request
                                  ELSE IF req[t][k].st = "waiting" THEN again(k)
                                  ELSE req[t][k]]
  <1>0. "shared" \in Kind /\ "shared" \in Refresh
    BY KindNames
  <1>1. r \in RequestState /\ RequestOK("shared", r, tab[t]) /\ r.st = "ok"
    BY <1>0, RowTyped DEF IndInv, SharedAnswered
  <1>2. r.at \in At /\ r.at # None /\ r.next \in Nat \ {0}
    BY <1>0, <1>1 DEF RequestOK, RequestState
  <1>3. RowOK(tab[t], req[t]) /\ tab[t] \in TabState /\ req[t] \in [Kind -> RequestState]
    BY DEF IndInv, RowsOK, RowOK
  <1>4. x \in TabState /\ x.rt = tab[t].rt
    BY <1>2, <1>3 DEF TabState
  <1>5. tab' = [tab EXCEPT ![t] = x] /\ req' = [req EXCEPT ![t] = q]
    BY DEF SharedAnswered, IndInv, RowsOK
  <1>6. cookie' = r.next /\ writes' = writes \cup {r.next} /\ UNCHANGED server
        /\ lsAt' = r.at /\ UNCHANGED <<lsUser, flag>>
    BY DEF SharedAnswered
  <1> HIDE DEF x, r
  <1>7. \A k \in Kind : q[k] \in RequestState /\ RequestOK(k, q[k], x)
    <2> TAKE k \in Kind
    <2>1. req[t][k] \in RequestState /\ RequestOK(k, req[t][k], tab[t])
      BY <1>3 DEF RowOK
    <2>2. CASE k = "shared"
      BY <2>2, NoRequest
    <2>3. CASE k # "shared" /\ req[t][k].st = "waiting"
      <3>1. again(k) \in RequestState /\ again(k).st = "sent" /\ again(k).kept = req[t][k].kept
        BY <1>2, <2>1 DEF RequestState
      <3>2. q[k] = again(k)
        BY <2>3
      <3> HIDE DEF again, q
      <3>3. RequestOK(k, again(k), x)
        BY <1>4, <2>1, <2>3, <3>1 DEF RequestOK
      <3> QED
        BY <3>1, <3>2, <3>3
    <2>4. CASE k # "shared" /\ req[t][k].st # "waiting"
      <3>1. q[k] = req[t][k]
        BY <2>4
      <3>2. RequestOK(k, req[t][k], x)
        BY <1>4, <2>1 DEF RequestOK
      <3> QED
        BY <2>1, <3>1, <3>2
    <2> QED
      BY <2>2, <2>3, <2>4
  <1>8. q \in [Kind -> RequestState]
    BY <1>7
  <1> HIDE DEF q
  <1>9. RowsOK'
    BY <1>4, <1>5, <1>7, <1>8, RowStep DEF IndInv, RowOK
  <1>10. TokensOK'
    BY <1>2, <1>6, CookieKeepsTokens DEF IndInv
  <1>11. StorageOK'
    BY <1>2, <1>6, TokenKeepsStorage DEF IndInv
  <1> QED
    BY <1>9, <1>10, <1>11 DEF IndInv

\* The storage is cleared and the page loaded anew.
LEMMA ClearAndLoadStep ==
  ASSUME RowsOK, NEW t \in Tab, NEW page \in {"home", "login"}, NEW c \in Nat,
         ClearAndLoad(t, page, c)
  PROVE  RowsOK' /\ StorageOK'
  <1> DEFINE x == Loaded(page, FALSE, FALSE, None)
             q == Mounted(c)
  <1>1. x \in TabState
    BY LoadedTyped DEF At
  <1>2. RowOK(x, q)
    BY <1>1, MountedOK
  <1>3. tab' = [tab EXCEPT ![t] = x] /\ req' = [req EXCEPT ![t] = q]
    BY DEF ClearAndLoad
  <1> HIDE DEF x, q
  <1>4. RowsOK'
    BY <1>2, <1>3, RowStep
  <1>5. StorageOK'
    BY ClearKeepsStorage DEF ClearAndLoad
  <1> QED
    BY <1>4, <1>5

LEMMA SharedFailsStep ==
  ASSUME IndInv, NEW t \in Tab, SharedFails(t)
  PROVE  IndInv'
  <1>1. PICK page \in {"home", "login"} : ClearAndLoad(t, page, cookie)
    BY DEF SharedFails
  <1>2. RowsOK' /\ StorageOK'
    BY <1>1, ClearAndLoadStep DEF IndInv, TokensOK
  <1>3. TokensOK'
    BY DEF SharedFails, IndInv, TokensOK, server
  <1> QED
    BY <1>2, <1>3 DEF IndInv

LEMMA LogoutEndsStep ==
  ASSUME IndInv, NEW t \in Tab, LogoutEnds(t)
  PROVE  IndInv'
  <1>1. PICK c \in Nat : cookie' = c /\ ClearAndLoad(t, "home", c)
    BY DEF LogoutEnds, IndInv, TokensOK
  <1>2. RowsOK' /\ StorageOK'
    BY <1>1, ClearAndLoadStep DEF IndInv
  <1>3. TokensOK'
    BY <1>1 DEF LogoutEnds, IndInv, TokensOK, server
  <1> QED
    BY <1>2, <1>3 DEF IndInv

LEMMA ApiEndsStep ==
  ASSUME IndInv, NEW t \in Tab, ApiEnds(t)
  PROVE  IndInv'
  <1>1. "api" \in Kind /\ Request \in RequestState /\ RequestOK("api", Request, tab[t])
    BY KindNames, NoRequest
  <1>2. tab' = tab /\ req' = [req EXCEPT ![t]["api"] = Request]
    BY DEF ApiEnds, Reply
  <1>3. RowsOK'
    BY <1>1, <1>2, RequestStep DEF IndInv
  <1>4. TokensOK' /\ StorageOK'
    BY DEF ApiEnds, IndInv, TokensOK, StorageOK, StorageAgrees, server
  <1> QED
    BY <1>3, <1>4 DEF IndInv

\* The request of the callback's page is over: what the tab holds no longer
\* matters to it.
LEMMA CallbackOver ==
  ASSUME RowsOK, NEW t \in Tab, NEW x \in TabState, NEW r \in RequestState,
         r.st \in {"none", "storing"},
         tab' = [tab EXCEPT ![t] = x], req' = [req EXCEPT ![t]["callback"] = r]
  PROVE  RowsOK'
  <1> DEFINE q == [req[t] EXCEPT !["callback"] = r]
  <1>1. RowOK(tab[t], req[t]) /\ req[t] \in [Kind -> RequestState]
    BY DEF RowsOK, RowOK
  <1>2. /\ q \in [Kind -> RequestState] /\ q["callback"] = r
        /\ \A k \in Kind : k # "callback" => q[k] = req[t][k]
    BY <1>1, KindNames
  <1>3. req' = [req EXCEPT ![t] = q]
    BY DEF RowsOK
  <1> HIDE DEF q
  <1>4. \A k \in Kind : RequestOK(k, q[k], x)
    <2>1. \A k \in Kind : RequestOK(k, req[t][k], tab[t])
      BY <1>1 DEF RowOK
    <2>2. \A k \in Kind : k # "callback" => RequestOK(k, req[t][k], x)
      BY <2>1 DEF RequestOK
    <2>3. RequestOK("callback", r, x)
      BY KindNames DEF RequestOK
    <2> QED
      BY <1>2, <2>2, <2>3
  <1> QED
    BY <1>2, <1>3, <1>4, RowStep DEF RowOK

\* The user is stored with the token of the URL, and the refresh token of the
\* URL is posted.
LEMMA CallbackAnsweredStep ==
  ASSUME IndInv, NEW t \in Tab, CallbackAnswered(t)
  PROVE  IndInv'
  <1> DEFINE at == req[t]["callback"].kept
             x == [tab[t] EXCEPT !.user = TRUE]
             r == [Request EXCEPT !.st = "storing"]
  <1>1. /\ tab[t] \in TabState /\ req[t]["callback"] \in RequestState
        /\ RequestOK("callback", req[t]["callback"], tab[t])
    BY KindNames, RowTyped DEF IndInv
  <1>2. at \in At /\ at # None /\ tab[t].rt \in Nat \ {0}
    BY <1>1 DEF RequestOK, RequestState, TabState, CallbackAnswered, Accepted
  <1>3. x \in TabState
    BY <1>1 DEF TabState
  <1>4. r \in RequestState /\ r.st = "storing"
    BY DEF Request, RequestState, At, None
  <1>5. tab' = [tab EXCEPT ![t] = x] /\ req' = [req EXCEPT ![t]["callback"] = r]
    BY DEF CallbackAnswered, Reply, IndInv, RowsOK
  <1>6. /\ lsUser' = TRUE /\ lsAt' = at /\ flag' = TRUE
        /\ writes' = writes \cup {tab[t].rt} /\ UNCHANGED <<cookie, server>>
    BY DEF CallbackAnswered
  <1> HIDE DEF x, r, at
  <1>7. RowsOK'
    BY <1>3, <1>4, <1>5, CallbackOver DEF IndInv
  <1>8. StorageOK'
    BY <1>2, <1>6, SetUserKeepsStorage
  <1>9. TokensOK'
    <2>1. cookie' \in Nat /\ UNCHANGED server
      BY <1>6 DEF IndInv, TokensOK
    <2> QED
      BY <1>2, <1>6, <2>1, CookieKeepsTokens DEF IndInv
  <1> QED
    BY <1>7, <1>8, <1>9 DEF IndInv

\* The callback's page leaves, for the dashboard or for the error page.
LEMMA CallbackLeaves ==
  ASSUME IndInv, NEW t \in Tab, NEW page \in {"home", "login", "student", "error"},
         tab' = [tab EXCEPT ![t].page = page, ![t].rt = 0],
         req' = [req EXCEPT ![t]["callback"] = Request],
         UNCHANGED <<lsUser, lsAt, flag, cookie, writes, server>>
  PROVE  IndInv'
  <1> DEFINE x == [tab[t] EXCEPT !.page = page, !.rt = 0]
  <1>1. tab[t] \in TabState
    BY DEF IndInv, RowsOK
  <1>2. x \in TabState
    BY <1>1 DEF TabState
  <1>3. Request \in RequestState /\ Request.st = "none"
    BY NoRequest DEF Request
  <1>4. tab' = [tab EXCEPT ![t] = x]
    BY DEF IndInv, RowsOK
  <1> HIDE DEF x
  <1>5. RowsOK'
    BY <1>2, <1>3, <1>4, CallbackOver DEF IndInv
  <1>6. TokensOK' /\ StorageOK'
    BY DEF IndInv, TokensOK, StorageOK, StorageAgrees, server
  <1> QED
    BY <1>5, <1>6 DEF IndInv

LEMMA CallbackStoredStep ==
  ASSUME IndInv, NEW t \in Tab, CallbackStored(t)
  PROVE  IndInv'
  <1>1. PICK page \in {"home", "login", "student"} :
          tab' = [tab EXCEPT ![t].page = page, ![t].rt = 0]
    BY DEF CallbackStored, Middleware
  <1>2. /\ req' = [req EXCEPT ![t]["callback"] = Request]
        /\ UNCHANGED <<lsUser, lsAt, flag, cookie, writes, server>>
    BY DEF CallbackStored, Reply
  <1> QED
    BY <1>1, <1>2, CallbackLeaves

LEMMA CallbackFailsStep ==
  ASSUME IndInv, NEW t \in Tab, CallbackFails(t)
  PROVE  IndInv'
  <1>1. /\ tab' = [tab EXCEPT ![t].page = "error", ![t].rt = 0]
        /\ req' = [req EXCEPT ![t]["callback"] = Request]
        /\ UNCHANGED <<lsUser, lsAt, flag, cookie, writes, server>>
    BY DEF CallbackFails, Reply
  <1> QED
    BY <1>1, CallbackLeaves

\* Only a token is stored by /api/auth/set-cookie.
LEMMA WriteStep ==
  ASSUME IndInv, NEW w \in writes, Write(w)
  PROVE  IndInv'
  <1>1. RowsOK'
    BY DEF Write, IndInv, RowsOK
  <1>2. IsFiniteSet(writes \ {w})
    BY FS_RemoveElement DEF IndInv, TokensOK
  <1>3. TokensOK'
    BY <1>2 DEF Write, IndInv, TokensOK, server
  <1>4. StorageOK'
    BY DEF Write, IndInv, StorageOK, StorageAgrees
  <1> QED
    BY <1>1, <1>3, <1>4 DEF IndInv

\* A token that expires is a token still.
LEMMA TickStep ==
  ASSUME IndInv, Tick
  PROVE  IndInv'
  <1>1. \A at \in At : Aged(at) \in At /\ (at # None => Aged(at) # None)
    BY DEF Aged, At, None
  <1>2. ASSUME NEW t \in Tab
        PROVE  RowOK(tab'[t], req'[t])
    <2> DEFINE aged(k) == [req[t][k] EXCEPT !.at = Aged(@), !.kept = Aged(@)]
               x == [tab[t] EXCEPT !.mem = Aged(@)]
    <2>1. RowOK(tab[t], req[t])
      BY DEF IndInv, RowsOK
    <2>2. tab'[t] = x /\ req'[t] = [k \in Kind |-> aged(k)]
      BY DEF Tick
    <2>3. x \in TabState /\ x.rt = tab[t].rt
      BY <1>1, <2>1 DEF RowOK, TabState
    <2>4. ASSUME NEW k \in Kind
          PROVE  aged(k) \in RequestState /\ RequestOK(k, aged(k), x)
      <3>1. req[t][k] \in RequestState /\ RequestOK(k, req[t][k], tab[t])
        BY <2>1 DEF RowOK
      <3>2. /\ aged(k) \in RequestState /\ aged(k).st = req[t][k].st
            /\ aged(k).rt = req[t][k].rt /\ aged(k).next = req[t][k].next
            /\ req[t][k].at # None => aged(k).at # None
            /\ req[t][k].kept # None => aged(k).kept # None
        BY <1>1, <3>1 DEF RequestState
      <3> HIDE DEF aged, x
      <3>3. RequestOK(k, aged(k), x)
        BY <2>3, <3>1, <3>2 DEF RequestOK
      <3> QED
        BY <3>2, <3>3
    <2> HIDE DEF aged, x
    <2> QED
      BY <2>2, <2>3, <2>4 DEF RowOK
  <1>3. /\ tab' = [t \in Tab |-> tab'[t]] /\ req' = [t \in Tab |-> req'[t]]
    BY DEF Tick
  <1>4. RowsOK'
    <2>1. /\ tab' \in [Tab -> TabState] /\ req' \in [Tab -> [Kind -> RequestState]]
      BY <1>2, <1>3 DEF RowOK
    <2> QED
      BY <1>2, <2>1 DEF RowsOK
  <1>5. TokensOK'
    BY DEF Tick, IndInv, TokensOK
  <1>6. StorageOK'
    BY <1>1 DEF Tick, IndInv, StorageOK, StorageAgrees
  <1> QED
    BY <1>4, <1>5, <1>6 DEF IndInv

\* A browser that has not been opened.
LEMMA InitInv == Init => IndInv
  <1> SUFFICES ASSUME Init PROVE IndInv
    OBVIOUS
  <1>1. Closed \in TabState
    BY DEF Closed, TabState, At, None
  <1>2. /\ Idle \in [Kind -> RequestState]
        /\ \A k \in Kind : RequestOK(k, Idle[k], Closed)
    BY NoRequest DEF Idle
  <1>3. RowsOK
    BY <1>1, <1>2 DEF Init, RowsOK, RowOK
  <1>4. TokensOK
    BY FS_EmptySet DEF Init, TokensOK
  <1>5. StorageOK
    BY DEF Init, StorageOK, StorageAgrees, At
  <1> QED
    BY <1>3, <1>4, <1>5 DEF IndInv

LEMMA Step == IndInv /\ [Next]_vars => IndInv'
  <1> SUFFICES ASSUME IndInv, [Next]_vars PROVE IndInv'
    OBVIOUS
  <1>1. ASSUME NEW t \in Tab, NEW page \in {"home", "student"}, Load(t, page) PROVE IndInv'
    BY <1>1, LoadStep
  <1>2. ASSUME NEW t \in Tab, SignIn(t) \/ Guard(t) \/ Renew(t) PROVE IndInv'
    BY <1>2, SignInStep, GuardStep, RenewStep
  <1>3. ASSUME NEW t \in Tab, Deliver(t) PROVE IndInv'
    BY <1>3, SilentAnsweredStep, MeAnsweredStep, SilentFailsStep, SharedAnsweredStep,
       SharedFailsStep, ApiEndsStep, LogoutEndsStep, CallbackAnsweredStep,
       CallbackStoredStep, CallbackFailsStep DEF Deliver
  <1>4. ASSUME NEW t \in Tab, NEW k \in Kind, Send(t, k) \/ Serve(t, k) PROVE IndInv'
    BY <1>4, SendStep, RefreshReadsStep, RefreshRotatesStep, RetriesStep DEF Serve
  <1>5. ASSUME NEW w \in writes, Write(w) PROVE IndInv'
    BY <1>5, WriteStep
  <1>6. CASE Tick
    BY <1>6, TickStep
  <1>7. CASE UNCHANGED vars
    <2>1. RowsOK' /\ TokensOK' /\ StorageOK'
      BY <1>7 DEF IndInv, RowsOK, TokensOK, StorageOK, StorageAgrees, vars, browser, server
    <2> QED
      BY <2>1 DEF IndInv
  <1> QED
    BY <1>1, <1>2, <1>3, <1>4, <1>5, <1>6, <1>7 DEF Next

(***************************************************************************)
(* A browser with one tab: the store and the flag are written together.    *)
(***************************************************************************)
UserAsFlag == \A t \in Tab : tab[t].user = flag

\* A step of the one tab writes both, or neither.
LEMMA UserStep ==
  ASSUME \A t, u \in Tab : t = u, IndInv, UserAsFlag, [Next]_vars
  PROVE  UserAsFlag'
  <1>0. /\ tab \in [Tab -> TabState] /\ flag \in BOOLEAN /\ lsUser = flag
        /\ flag => lsAt # None
        /\ \A t \in Tab : tab[t] \in TabState /\ tab[t].user = flag
    BY DEF UserAsFlag, IndInv, RowsOK, StorageOK, StorageAgrees
  <1>1. ASSUME NEW t \in Tab, tab'[t].user = flag'
        PROVE  UserAsFlag'
    BY <1>1 DEF UserAsFlag
  <1>2. \A page, f, user, at : Loaded(page, f, user, at).user = (user /\ at # None)
    BY DEF Loaded
  <1>3. ASSUME NEW t \in Tab, NEW page \in {"home", "student"}, Load(t, page)
        PROVE  UserAsFlag'
    <2>1. tab'[t] = Loaded(page, flag, lsUser, lsAt) /\ flag' = flag
      BY <1>0, <1>3 DEF Load
    <2> QED
      BY <1>0, <1>1, <1>2, <2>1
  <1>4. ASSUME NEW t \in Tab, SignIn(t)
        PROVE  UserAsFlag'
    <2>1. tab'[t].user = Loaded("callback", flag, lsUser, lsAt).user /\ flag' = flag
      BY <1>0, <1>4 DEF SignIn, Loaded
    <2> QED
      BY <1>0, <1>1, <1>2, <2>1
  <1>5. ASSUME NEW t \in Tab, NEW k \in Kind,
               \/ Guard(t) \/ Send(t, k) \/ SilentAnswered(t) \/ SharedAnswered(t)
               \/ CallbackStored(t) \/ CallbackFails(t)
        PROVE  UserAsFlag'
    <2>1. tab'[t].user = tab[t].user
      <3>1. CASE Guard(t)
        <4>1. PICK page : tab' = [tab EXCEPT ![t].page = page]
          BY <3>1 DEF Guard
        <4> QED
          BY <1>0, <4>1 DEF TabState
      <3>2. CASE Send(t, k) \/ SilentAnswered(t) \/ SharedAnswered(t)
        <4>1. PICK at : tab' = [tab EXCEPT ![t].mem = at]
          BY <3>2 DEF Send, SilentAnswered, SharedAnswered
        <4> QED
          BY <1>0, <4>1 DEF TabState
      <3>3. CASE CallbackStored(t) \/ CallbackFails(t)
        <4>1. PICK page : tab' = [tab EXCEPT ![t].page = page, ![t].rt = 0]
          BY <3>3 DEF CallbackStored, CallbackFails
        <4> QED
          BY <1>0, <4>1 DEF TabState
      <3> QED
        BY <1>5, <3>1, <3>2, <3>3
    <2>2. flag' = flag
      BY <1>5 DEF Guard, Send, SilentAnswered, SharedAnswered, CallbackStored, CallbackFails
    <2> QED
      BY <1>0, <1>1, <2>1, <2>2
  <1>6. ASSUME NEW t \in Tab, MeAnswered(t) \/ CallbackAnswered(t)
        PROVE  UserAsFlag'
    <2>1. tab'[t].user = TRUE /\ flag' = TRUE
      BY <1>0, <1>6 DEF MeAnswered, CallbackAnswered, SignedIn, TabState
    <2> QED
      BY <1>1, <2>1
  <1>7. ASSUME NEW t \in Tab, SilentFails(t)
        PROVE  UserAsFlag'
    <2>1. tab'[t].user = FALSE /\ flag' = FALSE
      BY <1>0, <1>7 DEF SilentFails, Cleared, ClearStorage, TabState
    <2> QED
      BY <1>1, <2>1
  <1>8. ASSUME NEW t \in Tab, SharedFails(t) \/ LogoutEnds(t)
        PROVE  UserAsFlag'
    <2>1. PICK page \in {"home", "login"} :
            tab' = [tab EXCEPT ![t] = Loaded(page, FALSE, FALSE, None)] /\ flag' = FALSE
      BY <1>8 DEF SharedFails, LogoutEnds, ClearAndLoad, ClearStorage
    <2>2. tab'[t] = Loaded(page, FALSE, FALSE, None)
      BY <1>0, <2>1
    <2>3. tab'[t].user = FALSE
      <3>1. Loaded(page, FALSE, FALSE, None).user = (FALSE /\ None # None)
        BY <1>2
      <3>2. (FALSE /\ None # None) = FALSE
        OBVIOUS
      <3> QED
        BY <2>2, <3>1, <3>2
    <2> QED
      BY <1>1, <2>1, <2>3
  <1>9. ASSUME NEW t \in Tab, NEW k \in Kind, Renew(t) \/ Serve(t, k) \/ ApiEnds(t)
        PROVE  UserAsFlag'
    <2>1. tab' = tab /\ flag' = flag
      BY <1>9 DEF Renew, Serve, RefreshReads, RefreshRotates, Retries, ApiEnds
    <2>2. tab'[t].user = flag'
      BY <1>0, <2>1
    <2> QED
      BY <1>1, <2>2
  <1>10. ASSUME NEW w \in writes, Write(w)
         PROVE  UserAsFlag'
    BY <1>10 DEF Write, UserAsFlag
  <1>11. CASE Tick
    <2>1. flag' = flag /\ \A t \in Tab : tab'[t].user = tab[t].user
      BY <1>0, <1>11 DEF Tick, TabState
    <2> QED
      BY <2>1 DEF UserAsFlag
  <1>12. CASE UNCHANGED vars
    BY <1>12 DEF vars, browser, UserAsFlag
  <1>13. "api" \in Kind
    BY KindNames
  <1> QED
    BY <1>3, <1>4, <1>5, <1>6, <1>7, <1>8, <1>9, <1>10, <1>11, <1>12, <1>13 DEF Next, Deliver

(***************************************************************************)
(* Who waits for whom.                                                     *)
(***************************************************************************)
WaitsOK(q) == \A k \in Kind :
  /\ q[k].st = "waiting" => k \in Bearer /\ q["shared"].st # "none"
  /\ q[k].st = "asking" => k = "silent" /\ q["me"].st # "none"

\* A step changes the requests of one tab, or of none.
LEMMA WaitsRow ==
  ASSUME IndInv, WaitsAreServed, NEW t \in Tab, NEW q, WaitsOK(q),
         req' = [req EXCEPT ![t] = q]
  PROVE  WaitsAreServed'
  <1>1. \A u \in Tab : u # t => req'[u] = req[u]
    BY DEF IndInv, RowsOK
  <1>2. req'[t] = q
    BY DEF IndInv, RowsOK
  <1> QED
    BY <1>1, <1>2 DEF WaitsAreServed, WaitsOK

\* A request that waits for none takes the place of one; if others may wait
\* for it, it is under way.
LEMMA WaitsRequest ==
  ASSUME IndInv, WaitsAreServed, NEW t \in Tab, NEW k \in Kind, NEW r,
         r.st \notin {"waiting", "asking"},
         k \in {"shared", "me"} => r.st # "none",
         req' = [req EXCEPT ![t][k] = r]
  PROVE  WaitsAreServed'
  <1> DEFINE q == [req[t] EXCEPT ![k] = r]
  <1>1. req[t] \in [Kind -> RequestState] /\ req' = [req EXCEPT ![t] = q]
    BY DEF IndInv, RowsOK
  <1>2. q[k] = r /\ \A l \in Kind : l # k => q[l] = req[t][l]
    BY <1>1
  <1>3. "shared" \in Kind /\ "me" \in Kind
    BY KindNames
  <1> HIDE DEF q
  <1>4. WaitsOK(q)
    BY <1>2, <1>3 DEF WaitsOK, WaitsAreServed
  <1> QED
    BY <1>1, <1>4, WaitsRow

\* A page that has just been loaded waits for nothing.
LEMMA WaitsMounted ==
  ASSUME NEW c
  PROVE  \A k \in Kind : Mounted(c)[k].st \in {"none", "sent"}
  BY DEF Mounted, Idle, Request

\* The backend answers, requests are sent, and those nobody waits for end.
LEMMA WaitsOfOne ==
  ASSUME IndInv, WaitsAreServed, NEW t \in Tab, NEW k \in Kind,
         \/ Send(t, k) \/ Renew(t) \/ RefreshReads(t, k) \/ RefreshRotates(t, k)
         \/ ApiEnds(t) \/ CallbackAnswered(t) \/ CallbackStored(t) \/ CallbackFails(t)
  PROVE  WaitsAreServed'
  <1>1. \A l \in Kind : req[t][l] \in RequestState
    BY RowTyped DEF IndInv
  <1>2. "shared" \in Kind /\ "api" \in Kind /\ "callback" \in Kind
    BY KindNames
  <1>3. Request.st = "none"
    BY DEF Request
  <1>4. CASE Send(t, k)
    <2> DEFINE r == [Request EXCEPT !.st = "sent", !.at = Token(t)]
    <2>1. r.st = "sent" /\ req' = [req EXCEPT ![t][k] = r]
      BY <1>4 DEF Send, Request
    <2> HIDE DEF r
    <2> QED
      BY <2>1, WaitsRequest
  <1>5. CASE Renew(t)
    <2>1. SharedSent.st = "sent" /\ req' = [req EXCEPT ![t]["shared"] = SharedSent]
      BY <1>5 DEF Renew, SharedSent, Request
    <2> QED
      BY <1>2, <2>1, WaitsRequest
  <1>6. CASE RefreshReads(t, k) \/ RefreshRotates(t, k)
    <2> DEFINE r0 == req[t][k]
    <2>1. PICK r \in {[r0 EXCEPT !.st = "read"], [r0 EXCEPT !.st = "refused"],
                      [r0 EXCEPT !.st = "ok", !.at = "valid", !.next = r0.rt],
                      [r0 EXCEPT !.st = "ok", !.at = "valid", !.next = NewRt]} :
            req' = [req EXCEPT ![t][k] = r]
      <3>1. CASE RefreshReads(t, k)
        BY <3>1 DEF RefreshReads, Reply
      <3>2. CASE RefreshRotates(t, k)
        BY <3>2 DEF RefreshRotates, Reply
      <3> QED
        BY <1>6, <3>1, <3>2
    <2>2. r.st \in {"read", "ok", "refused"}
      BY <1>1, <2>1 DEF RequestState
    <2> HIDE DEF r0
    <2> QED
      BY <2>1, <2>2, WaitsRequest
  <1>7. CASE ApiEnds(t)
    <2>1. req' = [req EXCEPT ![t]["api"] = Request]
      BY <1>7 DEF ApiEnds, Reply
    <2> QED
      BY <1>2, <1>3, <2>1, WaitsRequest
  <1>8. CASE CallbackAnswered(t) \/ CallbackStored(t) \/ CallbackFails(t)
    <2>1. PICK r \in {Request, [Request EXCEPT !.st = "storing"]} :
            req' = [req EXCEPT ![t]["callback"] = r]
      BY <1>8 DEF CallbackAnswered, CallbackStored, CallbackFails, Reply
    <2>2. r.st \in {"none", "storing"}
      BY <2>1 DEF Request
    <2> QED
      BY <1>2, <2>1, <2>2, WaitsRequest
  <1> QED
    BY <1>4, <1>5, <1>6, <1>7, <1>8

\* A page that is loaded anew leaves no request behind that waits.
LEMMA WaitsOfLoad ==
  ASSUME IndInv, WaitsAreServed, NEW t \in Tab, NEW page \in {"home", "student"},
         Load(t, page) \/ SignIn(t) \/ SharedFails(t) \/ LogoutEnds(t)
  PROVE  WaitsAreServed'
  <1>1. PICK c, q : /\ req' = [req EXCEPT ![t] = q]
                    /\ \/ q = Mounted(c)
                       \/ q = [Mounted(c) EXCEPT !["callback"].st = "sent",
                                                 !["callback"].at = "valid",
                                                 !["callback"].kept = "valid"]
    BY DEF Load, SignIn, SharedFails, LogoutEnds, ClearAndLoad
  <1>2. \A k \in Kind : q[k].st \in {"none", "sent"}
    <2>1. CASE q = Mounted(c)
      BY <2>1, WaitsMounted
    <2>2. CASE q = [Mounted(c) EXCEPT !["callback"].st = "sent", !["callback"].at = "valid",
                                      !["callback"].kept = "valid"]
      <3>1. \A k \in Kind : k # "callback" => q[k] = Mounted(c)[k]
        BY <2>2, KindNames DEF Mounted, Idle
      <3>2. q["callback"].st = "sent"
        BY <2>2, KindNames DEF Mounted, Idle, Request
      <3> QED
        BY <3>1, <3>2, WaitsMounted
    <2> QED
      BY <1>1, <2>1, <2>2
  <1>3. WaitsOK(q)
    BY <1>2 DEF WaitsOK
  <1> QED
    BY <1>1, <1>3, WaitsRow

\* The silent refresh and /auth/me begin and end together.
LEMMA WaitsOfSilent ==
  ASSUME IndInv, WaitsAreServed, NEW t \in Tab,
         SilentAnswered(t) \/ MeAnswered(t) \/ SilentFails(t)
  PROVE  WaitsAreServed'
  <1>1. ASSUME NEW s, NEW m,
               \/ s.st = "none" /\ m.st = "none"
               \/ s.st = "asking" /\ m.st = "sent",
               req' = [req EXCEPT ![t]["silent"] = s, ![t]["me"] = m]
        PROVE  WaitsAreServed'
    <2> DEFINE q == [req[t] EXCEPT !["silent"] = s, !["me"] = m]
    <2>1. req[t] \in [Kind -> RequestState] /\ req' = [req EXCEPT ![t] = q]
      BY <1>1 DEF IndInv, RowsOK
    <2>2. /\ q["silent"] = s /\ q["me"] = m /\ q["shared"] = req[t]["shared"]
          /\ \A k \in Kind : k \notin {"silent", "me"} => q[k] = req[t][k]
      BY <2>1, KindNames
    <2> HIDE DEF q
    <2>3. WaitsOK(q)
      BY <1>1, <2>2 DEF WaitsOK, WaitsAreServed
    <2> QED
      BY <2>1, <2>3, WaitsRow
  <1>2. CASE SilentAnswered(t)
    <2> DEFINE s == [Request EXCEPT !.st = "asking"]
               m == [Request EXCEPT !.st = "sent", !.at = req[t]["silent"].at,
                                    !.kept = req[t]["silent"].at]
    <2>1. /\ s.st = "asking" /\ m.st = "sent"
          /\ req' = [req EXCEPT ![t]["silent"] = s, ![t]["me"] = m]
      BY <1>2 DEF SilentAnswered, Request
    <2> HIDE DEF s, m
    <2> QED
      BY <1>1, <2>1
  <1>3. CASE MeAnswered(t) \/ SilentFails(t)
    <2>1. /\ Request.st = "none"
          /\ req' = [req EXCEPT ![t]["silent"] = Request, ![t]["me"] = Request]
      BY <1>3 DEF MeAnswered, SilentFails, Request
    <2> QED
      BY <1>1, <2>1
  <1> QED
    BY <1>2, <1>3

\* Who waits sees to it that there is a shared refresh.
LEMMA WaitsOfRetries ==
  ASSUME IndInv, WaitsAreServed, NEW t \in Tab, NEW k \in Kind, Retries(t, k)
  PROVE  WaitsAreServed'
  <1> DEFINE w == [req[t][k] EXCEPT !.st = "waiting"]
             s == IF req[t]["shared"].st = "none" THEN SharedSent ELSE req[t]["shared"]
             q == [req[t] EXCEPT ![k] = w, !["shared"] = s]
  <1>1. k \in Bearer /\ k # "shared" /\ k # "silent" /\ "shared" \in Kind /\ "me" \in Kind
    BY KindNames DEF Retries
  <1>2. req[t] \in [Kind -> RequestState] /\ req[t][k] \in RequestState
    BY DEF IndInv, RowsOK
  <1>3. req' = [req EXCEPT ![t] = q]
    <2>1. req' = [req EXCEPT ![t][k].st = "waiting",
                             ![t]["shared"] = IF @.st = "none" THEN SharedSent ELSE @]
      BY DEF Retries
    <2> QED
      BY <1>1, <1>2, <2>1 DEF IndInv, RowsOK
  <1>4. w.st = "waiting" /\ s.st # "none" /\ (s.st = "sent" \/ s.st = req[t]["shared"].st)
    BY <1>2 DEF RequestState, SharedSent, Request
  <1> HIDE DEF w, s
  <1>5. /\ q[k] = w /\ q["shared"] = s
        /\ \A l \in Kind : l \notin {k, "shared"} => q[l] = req[t][l]
    BY <1>1, <1>2
  <1> HIDE DEF q
  <1>6. \A l \in Kind : /\ req[t][l].st = "waiting" => l \in Bearer
                        /\ req[t][l].st = "asking" => l = "silent" /\ req[t]["me"].st # "none"
    BY DEF WaitsAreServed
  <1>7. q["me"].st # "none" \/ q["me"].st = req[t]["me"].st
    BY <1>1, <1>4, <1>5
  <1>8. WaitsOK(q)
    <2> SUFFICES ASSUME NEW l \in Kind
                 PROVE  /\ q[l].st = "waiting" => l \in Bearer /\ q["shared"].st # "none"
                        /\ q[l].st = "asking" => l = "silent" /\ q["me"].st # "none"
      BY DEF WaitsOK
    <2>1. CASE l = k
      BY <1>1, <1>4, <1>5, <2>1
    <2>2. CASE l = "shared"
      BY <1>1, <1>4, <1>5, <1>6, <1>7, <2>2
    <2>3. CASE l \notin {k, "shared"}
      BY <1>4, <1>5, <1>6, <1>7, <2>3
    <2> QED
      BY <2>1, <2>2, <2>3
  <1> QED
    BY <1>3, <1>8, WaitsRow

\* Nobody waits once the shared refresh is answered.
LEMMA WaitsOfShared ==
  ASSUME IndInv, WaitsAreServed, NEW t \in Tab, SharedAnswered(t)
  PROVE  WaitsAreServed'
  <1> DEFINE again(k) == [req[t][k] EXCEPT !.st = "sent", !.at = req[t]["shared"].at,
                                           !.retry = TRUE]
             q == [k \in Kind |-> IF k = "shared" THEN Request
                                  ELSE IF req[t][k].st = "waiting" THEN again(k)
                                  ELSE req[t][k]]
  <1>1. req' = [req EXCEPT ![t] = q]
    BY DEF SharedAnswered, IndInv, RowsOK
  <1>2. \A k \in Kind : again(k).st = "sent"
    BY RowTyped DEF IndInv, RequestState
  <1>3. Request.st = "none" /\ "me" \in Kind
    BY KindNames DEF Request
  <1> HIDE DEF again
  <1>4. \A k \in Kind : \/ k = "shared" /\ q[k].st = "none"
                        \/ k # "shared" /\ req[t][k].st = "waiting" /\ q[k].st = "sent"
                        \/ k # "shared" /\ req[t][k].st # "waiting" /\ q[k].st = req[t][k].st
    BY <1>2, <1>3
  <1> HIDE DEF q
  <1>5. WaitsOK(q)
    BY <1>3, <1>4 DEF WaitsOK, WaitsAreServed
  <1> QED
    BY <1>1, <1>5, WaitsRow

LEMMA WaitsStep ==
  ASSUME IndInv, WaitsAreServed, [Next]_vars
  PROVE  WaitsAreServed'
  <1>1. ASSUME NEW t \in Tab, NEW page \in {"home", "student"},
               Load(t, page) \/ SignIn(t) \/ SharedFails(t) \/ LogoutEnds(t)
        PROVE  WaitsAreServed'
    BY <1>1, WaitsOfLoad
  <1>2. ASSUME NEW t \in Tab, NEW k \in Kind,
               \/ Send(t, k) \/ Renew(t) \/ ApiEnds(t)
               \/ CallbackAnswered(t) \/ CallbackStored(t) \/ CallbackFails(t)
        PROVE  WaitsAreServed'
    BY <1>2, WaitsOfOne
  <1>3. ASSUME NEW t \in Tab, NEW k \in Kind, Serve(t, k)
        PROVE  WaitsAreServed'
    BY <1>3, WaitsOfOne, WaitsOfRetries DEF Serve
  <1>4. ASSUME NEW t \in Tab, SilentAnswered(t) \/ MeAnswered(t) \/ SilentFails(t)
        PROVE  WaitsAreServed'
    BY <1>4, WaitsOfSilent
  <1>5. ASSUME NEW t \in Tab, SharedAnswered(t)
        PROVE  WaitsAreServed'
    BY <1>5, WaitsOfShared
  <1>6. ASSUME req' = req
        PROVE  WaitsAreServed'
    BY <1>6 DEF WaitsAreServed
  <1>7. ASSUME NEW t \in Tab, Guard(t)
        PROVE  WaitsAreServed'
    BY <1>6, <1>7 DEF Guard
  <1>8. ASSUME NEW w \in writes, Write(w)
        PROVE  WaitsAreServed'
    BY <1>6, <1>8 DEF Write
  <1>9. CASE Tick
    <2>1. \A t \in Tab, k \in Kind : req'[t][k].st = req[t][k].st
      <3> TAKE t \in Tab, k \in Kind
      <3>1. req'[t][k] = [req[t][k] EXCEPT !.at = Aged(@), !.kept = Aged(@)]
        BY <1>9 DEF Tick
      <3>2. req[t][k] \in RequestState
        BY RowTyped DEF IndInv
      <3> QED
        BY <3>1, <3>2 DEF RequestState
    <2>2. "shared" \in Kind /\ "me" \in Kind
      BY KindNames
    <2> QED
      BY <2>1, <2>2 DEF WaitsAreServed
  <1>10. CASE UNCHANGED vars
    BY <1>6, <1>10 DEF vars, browser
  <1>11. "api" \in Kind
    BY KindNames
  <1> QED
    BY <1>1, <1>2, <1>3, <1>4, <1>5, <1>7, <1>8, <1>9, <1>10, <1>11 DEF Next, Deliver

(***************************************************************************)
(* Theorems.                                                               *)
(***************************************************************************)

\* However many tabs sign in, refresh, fail and log out, IndInv holds.
THEOREM Invariance == Spec => []IndInv
  <1> QED
    BY InitInv, Step, PTL DEF Spec

\* Every variable keeps its type; above all no refresh token is both valid
\* and revoked, whoever rotates it and in whatever order.
THEOREM TypeCorrect == Spec => []TypeOK
  <1>1. IndInv => TypeOK
    BY DEF IndInv, RowsOK, TokensOK, StorageOK, TypeOK
  <1> QED
    BY <1>1, Invariance, PTL

\* In a browser with any number of tabs, localStorage and the cookie that
\* middleware.ts routes by agree, and a user is stored with a token.
THEOREM StorageAlwaysAgrees == Spec => []StorageAgrees
  <1>1. IndInv => StorageAgrees
    BY DEF IndInv, StorageOK
  <1> QED
    BY <1>1, Invariance, PTL

\* In a browser with one tab the store of the page agrees with them as well.
THEOREM StoresAlwaysAgree ==
  ASSUME \A t, u \in Tab : t = u
  PROVE  Spec => []StoresAgree
  <1>1. Init => IndInv /\ UserAsFlag
    <2>1. Init => \A t \in Tab : tab[t] = Closed /\ flag = FALSE
      BY DEF Init
    <2>2. Closed.user = FALSE
      BY DEF Closed
    <2> QED
      BY <2>1, <2>2, InitInv DEF UserAsFlag
  <1>2. IndInv /\ UserAsFlag /\ [Next]_vars => (IndInv /\ UserAsFlag)'
    BY Step, UserStep
  <1>3. IndInv /\ UserAsFlag => StoresAgree
    BY DEF IndInv, StorageOK, UserAsFlag, StoresAgree
  <1> QED
    BY <1>1, <1>2, <1>3, PTL DEF Spec

\* No request waits in vain or in a circle: whoever waits for the shared
\* refresh, or for /auth/me, waits for one that is under way.  It is the part
\* of RequestsEnd that is about states, for any number of tabs and requests.
THEOREM NobodyWaitsInVain == Spec => []WaitsAreServed
  <1>1. Init => IndInv /\ WaitsAreServed
    <2>1. Init => \A t \in Tab, k \in Kind : req[t][k].st = "none"
      BY DEF Init, Idle, Request
    <2> QED
      BY <2>1, InitInv DEF WaitsAreServed
  <1>2. IndInv /\ WaitsAreServed /\ [Next]_vars => (IndInv /\ WaitsAreServed)'
    BY Step, WaitsStep
  <1> QED
    BY <1>1, <1>2, PTL DEF Spec

=============================================================================
