------------------------------ MODULE Sessions ------------------------------
(***************************************************************************)
(* The sessions of one browser: every login or refresh issues a pair of    *)
(* tokens, an access token that the page keeps and a refresh token in a    *)
(* cookie.  A refresh retires the token it exchanges before it issues a    *)
(* new pair; logging out retires both tokens of the request and clears the *)
(* cookie, and a withdrawal does the same after it has saved the account   *)
(* (module Accounts has that part).  A retired token is an entry of the    *)
(* cache that lives for what was left of the token's lifetime, and a check *)
(* that cannot reach the cache lets the token pass.                        *)
(*                                                                         *)
(* Requests of several tabs overlap, replies arrive in any order or get    *)
(* lost.  Token n of each kind belongs to the n-th pair.                   *)
(***************************************************************************)
EXTENDS Integers, Sequences, FiniteSets

CONSTANTS Tabs,          \* each has at most one request under way
          AccessLife,    \* JWT_ACCESS_TOKEN_LIFETIME
          RefreshLife,   \* JWT_REFRESH_TOKEN_LIFETIME, also the cookie's age
          MaxTime,       \* bound of the clock
          MaxPairs,      \* bound of the pairs issued
          MaxFaults      \* bound of the outages of the cache and lost replies

ASSUME LifeAssumption ==
    /\ AccessLife \in Nat \ {0}
    /\ RefreshLife \in Nat \ {0}
    /\ AccessLife <= RefreshLife
    /\ MaxTime \in Nat \ {0}
    /\ MaxPairs \in Nat
    /\ MaxFaults \in Nat

VARIABLES clock,
          issued,    \* the times at which the pairs were issued
          entries,   \* per kind and pair: when its entry leaves the cache, 0 if none
          jar,       \* the refresh token in the cookie, 0 if none
          page,      \* the access token that the page holds, 0 if none
          request,   \* per tab
          held,      \* history: refresh tokens that have been in the jar
          strays,    \* history: tokens that left the jar without being exchanged
          outages,   \* history: how often a request could not reach the cache
          lost,      \* history: how many replies did not arrive
          ended      \* history: a logout that nothing overlapped was the last event

sessionVars == <<clock, issued, entries, jar, page, request,
                 held, strays, outages, lost, ended>>

TokenKinds == {"access", "refresh"}
Pairs == 1 .. MaxPairs
Life == [access |-> AccessLife, refresh |-> RefreshLife]

SessionRequest(op, at, cookie, bearer, new) ==
    [op |-> op, at |-> at, cookie |-> cookie, bearer |-> bearer, new |-> new]
NoRequest == SessionRequest("none", "idle", 0, 0, 0)
MovedTo(x, at, new) == SessionRequest(x.op, at, x.cookie, x.bearer, new)

Expiry(kind, n) == issued[n] + Life[kind]
Lives(kind, n) == n \in 1 .. Len(issued) /\ clock < Expiry(kind, n)
Retired(kind, n) == clock < entries[kind][n]
Accepted(kind, n) == Lives(kind, n) /\ ~Retired(kind, n)

\* The entry as it would be with the lifetime of an access token for both kinds.
UntilAccessLife(kind, n) == IF kind = "access" THEN Expiry(kind, n) ELSE clock + AccessLife

\* When an entry made now leaves the cache: its TTL is exp - now.
Until(kind, n) == Expiry(kind, n)

EntryAdded(kind, n) ==
    [k \in TokenKinds |-> [m \in Pairs |->
        IF k = kind /\ m = n THEN Until(kind, n) ELSE entries[k][m]]]

\* A token that does not decode any more, or a failing cache, adds no entry.
Retire(kind, n, reached) ==
    entries' = IF reached /\ Lives(kind, n) THEN EntryAdded(kind, n) ELSE entries

Alone(t) == \A u \in Tabs \ {t} : request[u].at = "idle"

\* Whether an operation on the cache reaches it.
Reached == IF outages + lost < MaxFaults THEN BOOLEAN ELSE {TRUE}

SessionInit ==
    /\ clock = 1
    /\ issued = <<>>
    /\ entries = [k \in TokenKinds |-> [n \in Pairs |-> 0]]
    /\ jar = 0
    /\ page = 0
    /\ request = [t \in Tabs |-> NoRequest]
    /\ held = {}
    /\ strays = {}
    /\ outages = 0
    /\ lost = 0
    /\ ended = FALSE

\* A tab sends a request with the tokens the browser has at that moment.
Send(t, op) ==
    /\ request[t].at = "idle"
    /\ request' = [request EXCEPT ![t] = SessionRequest(op, "sent", jar, page, 0)]
    /\ ended' = (ended /\ op # "login")
    /\ UNCHANGED <<clock, issued, entries, jar, page, held, strays, outages, lost>>

SendLogin(t) == Send(t, "login")
SendRefresh(t) == jar # 0 /\ Send(t, "refresh")
SendLogout(t) == page # 0 /\ Send(t, "logout")

Proceed(t, at) == request' = [request EXCEPT ![t] = MovedTo(request[t], at, 0)]
Refuse(t) == request' = [request EXCEPT ![t] = NoRequest]

\* A new pair, and the reply that carries it.
Issue(t) ==
    /\ Len(issued) < MaxPairs
    /\ issued' = Append(issued, clock)
    /\ request' = [request EXCEPT ![t] = MovedTo(request[t], "reply", Len(issued) + 1)]

\* KakaoLoginView and AdminLoginView after they have found the user.
LogIn(t) ==
    /\ request[t].at = "sent" /\ request[t].op = "login"
    /\ Issue(t)
    /\ UNCHANGED <<clock, entries, jar, page, held, strays, outages, lost, ended>>

\* TokenRefreshView: no entry for the token, or a cache that does not answer.
CheckRefresh(t) ==
    /\ request[t].at = "sent" /\ request[t].op = "refresh"
    /\ \E reached \in Reached :
        /\ outages' = IF reached THEN outages ELSE outages + 1
        /\ IF Lives("refresh", request[t].cookie)
                /\ (reached => ~Retired("refresh", request[t].cookie))
           THEN Proceed(t, "checked")
           ELSE Refuse(t)
    /\ UNCHANGED <<clock, issued, entries, jar, page, held, strays, lost, ended>>

RetireOld(t) ==
    /\ request[t].at = "checked"
    /\ \E reached \in Reached :
        /\ outages' = IF reached THEN outages ELSE outages + 1
        /\ Retire("refresh", request[t].cookie, reached)
    /\ Proceed(t, "retired")
    /\ UNCHANGED <<clock, issued, jar, page, held, strays, lost, ended>>

IssuePair(t) ==
    /\ request[t].at = "retired"
    /\ Issue(t)
    /\ UNCHANGED <<clock, entries, jar, page, held, strays, outages, lost, ended>>

\* LogoutView and WithdrawView: the bearer token has to be accepted.
CheckLogout(t) ==
    /\ request[t].at = "sent" /\ request[t].op = "logout"
    /\ \E reached \in Reached :
        /\ outages' = IF reached THEN outages ELSE outages + 1
        /\ IF /\ Lives("access", request[t].bearer)
              /\ reached => ~Retired("access", request[t].bearer)
           THEN Proceed(t, "checked out")
           ELSE Refuse(t)
    /\ UNCHANGED <<clock, issued, entries, jar, page, held, strays, lost, ended>>

RetireAccess(t) ==
    /\ request[t].at = "checked out"
    /\ \E reached \in Reached :
        /\ outages' = IF reached THEN outages ELSE outages + 1
        /\ Retire("access", request[t].bearer, reached)
    /\ Proceed(t, "half out")
    /\ UNCHANGED <<clock, issued, jar, page, held, strays, lost, ended>>

RetireCookie(t) ==
    /\ request[t].at = "half out"
    /\ \E reached \in Reached :
        /\ outages' = IF reached THEN outages ELSE outages + 1
        /\ IF request[t].cookie # 0
           THEN Retire("refresh", request[t].cookie, reached)
           ELSE UNCHANGED entries
    /\ Proceed(t, "reply")
    /\ UNCHANGED <<clock, issued, jar, page, held, strays, lost, ended>>

\* The reply as it would be if a refresh set no cookie.
ReceiveAccessOnly(t) ==
    /\ request[t].at = "reply" /\ request[t].op \in {"login", "refresh"}
    /\ jar' = IF request[t].op = "login" THEN request[t].new ELSE jar
    /\ page' = request[t].new
    /\ held' = held \cup {jar'}
    /\ strays' = strays
    /\ Refuse(t)
    /\ UNCHANGED <<clock, issued, entries, outages, lost, ended>>

\* The browser takes the new pair, in whatever order replies arrive.
ReceivePair(t) ==
    /\ request[t].at = "reply" /\ request[t].op \in {"login", "refresh"}
    /\ jar' = request[t].new
    /\ page' = request[t].new
    /\ held' = held \cup {request[t].new}
    /\ strays' = IF request[t].op = "refresh" /\ request[t].cookie = jar THEN strays
                 ELSE strays \cup ({jar} \ {0})
    /\ Refuse(t)
    /\ UNCHANGED <<clock, issued, entries, outages, lost, ended>>

\* The reply of a logout clears the cookie.
ReceiveLogout(t) ==
    /\ request[t].at = "reply" /\ request[t].op = "logout"
    /\ jar' = 0
    /\ page' = 0
    /\ strays' = IF request[t].cookie = jar THEN strays ELSE strays \cup ({jar} \ {0})
    /\ ended' = Alone(t)
    /\ Refuse(t)
    /\ UNCHANGED <<clock, issued, entries, held, outages, lost>>

\* A reply that does not reach the browser.
LoseReply(t) ==
    /\ request[t].at = "reply"
    /\ outages + lost < MaxFaults
    /\ lost' = lost + 1
    /\ Refuse(t)
    /\ UNCHANGED <<clock, issued, entries, jar, page, held, strays, outages, ended>>

\* Time passes: tokens expire, and entries with them.
Tick ==
    /\ clock < MaxTime
    /\ clock' = clock + 1
    /\ UNCHANGED <<issued, entries, jar, page, request, held, strays, outages, lost, ended>>

SessionNext ==
    \/ \E t \in Tabs : \/ SendLogin(t) \/ SendRefresh(t) \/ SendLogout(t)
                       \/ LogIn(t)
                       \/ CheckRefresh(t) \/ RetireOld(t) \/ IssuePair(t)
                       \/ CheckLogout(t) \/ RetireAccess(t) \/ RetireCookie(t)
                       \/ ReceivePair(t) \/ ReceiveLogout(t) \/ LoseReply(t)
    \/ Tick

SessionSpec == SessionInit /\ [][SessionNext]_sessionVars

-----------------------------------------------------------------------------
SessionRequests ==
    [op : {"none", "login", "refresh", "logout"},
     at : {"idle", "sent", "checked", "retired", "checked out", "half out", "reply"},
     cookie : 0 .. MaxPairs, bearer : 0 .. MaxPairs, new : 0 .. MaxPairs]

\* Every variable keeps its type, the browser holds issued tokens only, and no
\* entry stays in the cache longer than its token could be used (auth_service.py:239, :256).
SessionTypeOK ==
    /\ clock \in 1 .. MaxTime
    /\ issued \in Seq(1 .. MaxTime) /\ Len(issued) <= MaxPairs
    /\ jar \in 0 .. Len(issued) /\ page \in 0 .. Len(issued)
    /\ held \cup strays \subseteq 1 .. Len(issued)
    /\ outages \in Nat /\ lost \in Nat /\ outages + lost <= MaxFaults
    /\ ended \in BOOLEAN
    /\ request \in [Tabs -> SessionRequests]
    /\ \A k \in TokenKinds, n \in Pairs :
         entries[k][n] # 0 => n <= Len(issued) /\ entries[k][n] <= issued[n] + Life[k]

\* A token that is refused once, because it was retired or has expired, is
\* refused for ever: its entry may leave the cache only after it has expired.
RetiredStays ==
    [][\A k \in TokenKinds : \A n \in 1 .. Len(issued) :
         ~Accepted(k, n) => ~Accepted(k, n)']_sessionVars

\* While no reply is lost and no request is under way, the cookie of a browser
\* is a token that the next refresh accepts, until it expires, whatever
\* refreshes of several tabs overlapped before.
StaysSignedIn ==
    (/\ jar # 0
     /\ lost = 0
     /\ \A t \in Tabs : request[t].at = "idle" \/ request[t].at = "sent")
        => Accepted("refresh", jar) \/ ~Lives("refresh", jar)

\* After a logout that overlapped no other request, with a cache that always
\* answered, the browser holds no cookie and every refresh token it ever held
\* is refused, the ones it exchanged as well; only the tokens that a second
\* login, or a second exchange of one token, overwrote are not known to it.
LogoutEnds ==
    (ended /\ outages = 0 /\ \A t \in Tabs : request[t].op = "none")
        => /\ jar = 0
           /\ \A n \in held \ strays : ~Accepted("refresh", n)

\* A browser stays signed in until it logs out, and is signed out then: the two together.
SignedInUntilLogout == StaysSignedIn /\ LogoutEnds
=============================================================================
