---------------------------- MODULE BrowserSession ----------------------------
(***************************************************************************)
(* The console's session in the tabs of one browser: lib/browser-session,  *)
(* lib/session-request, lib/transport, lib/auth-context, the login and the *)
(* callback page.  Tabs share localStorage (the ID token and the session   *)
(* state with its revision), the refresh cookie and a lock, and learn of   *)
(* each other's writes by storage events.  A step is a JavaScript task up  *)
(* to its next await, or the answer of the server.                         *)
(***************************************************************************)
EXTENDS Naturals, Sequences, FiniteSets

CONSTANTS
    Tabs,
    OidcUsers,      \* accounts of the identity provider
    BasicUsers,     \* accounts with a console password
    NoUser,
    RefreshEnabled, \* the server keeps refresh grants in a cookie
    LockKinds,      \* "web" (Web Locks) and "lease" (older browsers)
    Inputs,         \* kinds of user actions and failures a run allows
    MaxEvents,      \* bound on their number
    MaxTokens       \* bound on ID tokens issued

ASSUME SessionAssumption ==
    /\ Tabs # {}
    /\ RefreshEnabled \in BOOLEAN
    /\ LockKinds \subseteq {"web", "lease"}
    /\ MaxEvents \in Nat
    /\ MaxTokens \in Nat \ {0}
    /\ OidcUsers \cap BasicUsers = {}
    /\ NoUser \notin OidcUsers \cup BasicUsers

VARIABLES
    store,   \* localStorage: token, logged-out mark, refreshAvailable, revision
    grant,   \* whose refresh grant the HttpOnly cookie holds
    lock,    \* who holds the session lock
    lockKind,
    tab,     \* per tab: the snapshot and the module's variables
    cache,   \* per tab: whose data the query cache holds
    mail,    \* tabs with an undelivered storage event
    flight,  \* per tab: the refresh in flight
    boot,    \* per tab: the pending ensureValidSession of the provider
    req,     \* per tab: the pending API request
    sign,    \* per tab: the pending sign-in
    out,     \* per tab: the pending logout
    issued,  \* every ID token: its user, age, and `outs` when it was asked for
    outs,    \* history: number of logouts
    owed,    \* history: tabs whose undisturbed logout has not cleared the cookie
    events

vars == <<store, grant, lock, lockKind, tab, cache, mail, flight, boot, req,
          sign, out, issued, outs, owed, events>>

Users == OidcUsers \cup BasicUsers
None == 0                  \* no token
Fail == MaxTokens + 1      \* a promise that rejects
Tokens == 0 .. MaxTokens
Free == <<"nobody", "none">>

UserOf(n) == IF n = None THEN NoUser ELSE issued[n].user
Left(n) == n # None /\ issued[n].age # "expired"
Fresh(n) == n # None /\ issued[n].age = "fresh"

NewTab == [tok |-> None, status |-> "loading", epoch |-> 0, leaving |-> FALSE,
           hydrated |-> FALSE, listening |-> FALSE, config |-> FALSE,
           backoff |-> FALSE, armed |-> FALSE]
NoFlight == [pc |-> "off", before |-> None, epoch |-> 0, rejected |-> None,
             fence |-> 0, cookie |-> NoUser, asked |-> 0, answer |-> None]
Idle == [pc |-> "idle", mode |-> "ensure", stage |-> "first", kind |-> "read",
         force |-> FALSE, avail |-> "unset", left |-> FALSE,
         bearer |-> None, epoch |-> 0]
NoSign == [pc |-> "off", user |-> NoUser, epoch |-> 0, fence |-> 0,
           asked |-> 0, answer |-> None]

-----------------------------------------------------------------------------
(* What a task of tab t reads and writes, as a record that the functions   *)
(* of browser-session.ts transform one after the other.                    *)

World(t) == [tab |-> tab[t], cache |-> cache[t], store |-> store, mail |-> mail]

Put(t, w) ==
    /\ tab' = [tab EXCEPT ![t] = w.tab]
    /\ cache' = [cache EXCEPT ![t] = w.cache]
    /\ store' = w.store
    /\ mail' = w.mail

Others(t) == {s \in Tabs \ {t} : tab[s].listening}

Publish(w, n, status, invalidate) ==
    LET changed == UserOf(n) # UserOf(w.tab.tok) \/ invalidate
        epoch == IF changed THEN w.tab.epoch + 1 ELSE w.tab.epoch
    IN  [w EXCEPT !.tab = [@ EXCEPT !.tok = n, !.status = status, !.armed = TRUE,
                                    !.epoch = epoch],
                  !.cache = IF changed THEN {} ELSE @]

WriteToken(w, t, n) ==
    [w EXCEPT !.store.tok = n,
              !.mail = IF w.store.tok = n THEN @ ELSE @ \cup Others(t)]

WriteState(w, t, loggedOut, avail) ==
    [w EXCEPT !.store = [@ EXCEPT !.out = loggedOut, !.avail = avail,
                                  !.rev = w.store.rev + 1],
              !.mail = @ \cup Others(t)]

Adopt(w, n) ==
    Publish(w, n, IF Left(n) THEN "authenticated" ELSE "loading", FALSE)

Anonymous(w, t, invalidate) ==
    Publish(WriteToken(w, t, None), None, "anonymous", invalidate)

SignedOut(w, t, invalidate) ==
    Anonymous(WriteState(w, t, TRUE, "no"), t, invalidate)

CompleteSession(w, t, n, avail) ==
    LET v == Publish(WriteState(WriteToken(w, t, n), t, FALSE, avail),
                     n, "authenticated", FALSE)
    IN  [v EXCEPT !.tab = [@ EXCEPT !.hydrated = TRUE, !.listening = TRUE,
                                    !.backoff = FALSE]]

Unavailable(w) ==
    LET v == Publish(w, w.tab.tok, "unavailable", FALSE)
    IN  [v EXCEPT !.tab.backoff = TRUE]

Hydrate(w) ==
    LET h == [w EXCEPT !.tab = [@ EXCEPT !.hydrated = TRUE, !.listening = TRUE]]
    IN  IF w.tab.hydrated THEN w
        ELSE IF ~w.store.out /\ w.store.tok # None THEN Adopt(h, w.store.tok)
        ELSE h

\* Mutant: the logged-out mark is not looked at.
SyncIgnoringLogout(w, t) ==
    IF w.store.tok # None /\ w.store.tok # w.tab.tok THEN Adopt(w, w.store.tok) ELSE w

SyncSessionFromStorage(w, t) ==
    IF w.store.out \/ w.store.tok = None
    THEN IF w.tab.tok # None \/ w.tab.status # "anonymous"
         THEN Anonymous(w, t, FALSE) ELSE w
    ELSE IF w.store.tok # w.tab.tok THEN Adopt(w, w.store.tok) ELSE w

ClearRejected(w, t, bearer) ==
    IF w.tab.tok = bearer /\ w.store.tok = bearer THEN SignedOut(w, t, FALSE) ELSE w

-----------------------------------------------------------------------------
(* ensureValidSession up to its first await: it returns a token (or none), *)
(* throws, or waits for the configuration.                                 *)

Done(w, n) == [how |-> "done", tok |-> n, w |-> w]

Ensure(w0, t, force) ==
    LET w == Hydrate(w0)
        n == w.tab.tok
    IN  CASE w.store.out ->
                 Done(IF w.tab.status # "anonymous" THEN Anonymous(w, t, FALSE) ELSE w, None)
          [] ~w.store.out /\ ~force /\ Fresh(n) -> Done(w, n)
          [] ~w.store.out /\ ~force /\ ~Fresh(n) /\ w.tab.backoff ->
                 Done(w, IF Left(n) THEN n ELSE Fail)
          [] OTHER -> [how |-> "config", tok |-> None, w |-> w]

\* A call q that waits for the configuration in ensureValidSession.
Waiting(q, w, force) ==
    [q EXCEPT !.pc = "config", !.mode = "ensure", !.force = force,
              !.avail = w.store.avail, !.left = Left(w.tab.tok)]

\* Mutant: redirects although this tab's logout is pending.
AfterTokenRedirects(q, w, n) ==
    CASE n = Fail -> Idle
      [] n # Fail /\ q.stage = "first" ->
             [q EXCEPT !.pc = "sent", !.bearer = n, !.epoch = w.tab.epoch]
      [] n = None /\ q.stage = "retry" -> [Idle EXCEPT !.pc = "redirect"]
      [] OTHER ->
             IF w.tab.epoch # q.epoch \/ q.kind = "write" THEN Idle
             ELSE [q EXCEPT !.pc = "sent", !.bearer = n]

\* sessionFetch after `await ensureValidSession()` or `await recoverUnauthorized()`.
AfterToken(q, w, n) ==
    CASE n = Fail -> Idle
      [] n # Fail /\ q.stage = "first" ->
             [q EXCEPT !.pc = "sent", !.bearer = n, !.epoch = w.tab.epoch]
      [] n = None /\ q.stage = "retry" ->
             IF w.tab.leaving THEN Idle ELSE [Idle EXCEPT !.pc = "redirect"]
      [] OTHER ->
             IF w.tab.epoch # q.epoch \/ q.kind = "write" THEN Idle
             ELSE [q EXCEPT !.pc = "sent", !.bearer = n]

\* A call whose refresh ended in r, in the catch blocks of its awaits.
Resumed(q, w, r) ==
    IF q.pc # "refresh" THEN q
    ELSE IF r = Fail /\ q.mode = "ensure" /\ q.left /\ ~q.force
         THEN AfterToken(q, w, w.tab.tok)
         ELSE AfterToken(q, w, r)

\* The provider's own calls ignore their result.
BootResumed(q) == IF q.pc = "refresh" THEN Idle ELSE q

-----------------------------------------------------------------------------
(* Inputs and time.                                                        *)

Input(kind) ==
    /\ kind \in Inputs
    /\ events < MaxEvents
    /\ events' = events + 1

Live(t) == req[t].pc # "redirect"

\* An answered configuration that a call is about to use keeps the tab busy.
Settled(t) == Live(t) /\ ~(tab[t].config /\ "config" \in {boot[t].pc, req[t].pc})

Minted(user, asked) == Append(issued, [user |-> user, age |-> "fresh", asked |-> asked])
CanMint == Len(issued) < MaxTokens

AgeToken(n) ==
    /\ issued[n].age # "expired"
    /\ Input("time")
    /\ issued' = [issued EXCEPT ![n].age = IF @ = "fresh" THEN "aging" ELSE "expired"]
    /\ UNCHANGED <<store, grant, lock, lockKind, tab, cache, mail, flight, boot,
                   req, sign, out, outs, owed>>

BackoffEnds(t) ==
    /\ tab[t].backoff
    /\ tab' = [tab EXCEPT ![t].backoff = FALSE]
    /\ UNCHANGED <<store, grant, lock, lockKind, cache, mail, flight, boot, req,
                   sign, out, issued, outs, owed, events>>

Deliver(t) ==
    /\ t \in mail
    /\ Settled(t)
    /\ Put(t, [SyncSessionFromStorage(World(t), t) EXCEPT !.mail = @ \ {t}])
    /\ UNCHANGED <<grant, lock, lockKind, flight, boot, req, sign, out, issued,
                   outs, owed, events>>

-----------------------------------------------------------------------------
(* The provider: bootstrap, the refresh timer, focus and the retry button. *)

EnsureFromProvider(t, force) ==
    LET e == Ensure(World(t), t, force)
    IN  /\ Put(t, [e.w EXCEPT !.tab.armed = @ /\ boot[t].pc = "start"])
        /\ boot' = [boot EXCEPT ![t] = IF e.how = "config"
                                       THEN Waiting(Idle, e.w, force) ELSE Idle]
        /\ UNCHANGED <<grant, lock, lockKind, flight, req, sign, out, issued, outs, owed>>

Bootstrap(t) ==
    /\ Live(t)
    /\ boot[t].pc = "start"
    /\ EnsureFromProvider(t, FALSE)
    /\ UNCHANGED events

RefreshTimer(t) ==
    /\ Settled(t)
    /\ boot[t].pc = "idle"
    /\ tab[t].armed
    /\ tab[t].status = "authenticated"
    /\ ~Fresh(tab[t].tok)
    /\ EnsureFromProvider(t, FALSE)
    /\ UNCHANGED events

Reconnect(t) ==
    /\ Settled(t)
    /\ boot[t].pc = "idle"
    /\ sign[t].pc = "off"
    /\ Input("reconnect")
    /\ EnsureFromProvider(t, tab[t].status = "unavailable")

-----------------------------------------------------------------------------
(* After `await getAuthConfiguration()`.                                   *)

StartFlight(t, rejected) ==
    IF flight[t].pc # "off" THEN flight[t]
    ELSE [NoFlight EXCEPT !.pc = "lock", !.before = tab[t].tok,
                          !.epoch = tab[t].epoch, !.rejected = rejected]

\* ensureValidSession where no refresh is possible.
NoRefresh(w, t, q) == IF q.left THEN w ELSE Anonymous(w, t, FALSE)

Configured(w) == [w EXCEPT !.tab.config = TRUE]

BootConfig(t) ==
    /\ Live(t)
    /\ boot[t].pc = "config"
    /\ IF RefreshEnabled /\ boot[t].avail # "no"
       THEN /\ Put(t, Configured(World(t)))
            /\ boot' = [boot EXCEPT ![t].pc = "refresh"]
            /\ flight' = [flight EXCEPT ![t] = StartFlight(t, None)]
       ELSE /\ Put(t, Configured(NoRefresh(World(t), t, boot[t])))
            /\ boot' = [boot EXCEPT ![t] = Idle]
            /\ UNCHANGED flight
    /\ UNCHANGED <<grant, lock, lockKind, req, sign, out, issued, outs, owed, events>>

\* A request waits in ensureValidSession or in recoverUnauthorized, which
\* reads refreshAvailable only now and gives up a rejected token.
ReqConfig(t) ==
    LET q == req[t]
        recover == q.mode = "recover"
        w == Configured(IF recover THEN ClearRejected(World(t), t, q.bearer)
                                   ELSE NoRefresh(World(t), t, q))
    IN  /\ Live(t)
        /\ q.pc = "config"
        /\ IF RefreshEnabled /\ (IF recover THEN store.avail ELSE q.avail) # "no"
           THEN /\ Put(t, Configured(World(t)))
                /\ req' = [req EXCEPT ![t].pc = "refresh"]
                /\ flight' = [flight EXCEPT ![t] =
                                 StartFlight(t, IF recover THEN q.bearer ELSE None)]
           ELSE /\ Put(t, w)
                /\ req' = [req EXCEPT ![t] =
                              AfterToken(q, w, IF recover THEN None ELSE w.tab.tok)]
                /\ UNCHANGED flight
        /\ UNCHANGED <<grant, lock, lockKind, boot, sign, out, issued, outs, owed, events>>

\* The shared configuration request fails: each caller of the tab takes its
\* catch block.  A logout goes on without knowing the configuration.
ConfigFails(t) ==
    LET Lost(q) == q.pc = "config" /\ ~(q.mode = "ensure" /\ q.left /\ ~q.force)
        changed == req[t].mode = "recover" /\ (tab[t].epoch # req[t].epoch \/ store.out)
        w == IF Lost(boot[t]) \/ (Lost(req[t]) /\ ~changed)
             THEN Unavailable(World(t)) ELSE World(t)
    IN  /\ Live(t)
        /\ ~tab[t].config
        /\ "config" \in {boot[t].pc, req[t].pc, sign[t].pc, out[t]}
        /\ Input("fail")
        /\ Put(t, w)
        /\ boot' = [boot EXCEPT ![t] = IF @.pc = "config" THEN Idle ELSE @]
        /\ req' = [req EXCEPT ![t] =
                      IF @.pc # "config" THEN @
                      ELSE IF ~Lost(@) THEN AfterToken(@, w, w.tab.tok)
                      ELSE AfterToken(@, w, IF changed THEN None ELSE Fail)]
        /\ sign' = [sign EXCEPT ![t] = IF @.pc = "config" THEN NoSign ELSE @]
        /\ out' = [out EXCEPT ![t] = IF @ = "config" THEN "lock" ELSE @]
        /\ UNCHANGED <<grant, lock, lockKind, flight, issued, outs, owed>>

-----------------------------------------------------------------------------
(* refreshSession: lock, fence, POST /auth/refresh, decode.                *)

Acquire(t, flow) == lock = Free /\ lock' = <<t, flow>>

\* Mutant: no `finally`.
KeepLock(t, flow) == lock' = lock

\* The lease is given back only by the tab that still owns it.
Release(t, flow) == lock' = IF lock = <<t, flow>> THEN Free ELSE lock

\* The flight of t ends in r: its callers go on in the same task.
EndFlight(t, w, r) ==
    LET v == IF r = Fail THEN Unavailable(w) ELSE w
    IN  /\ Put(t, v)
        /\ flight' = [flight EXCEPT ![t] = NoFlight]
        /\ boot' = [boot EXCEPT ![t] = BootResumed(@)]
        /\ req' = [req EXCEPT ![t] = Resumed(@, v, r)]

\* Mutant: only this tab's own changes count.
ChangedHere(t, f) == tab[t].epoch # f.epoch

Changed(t, f) == tab[t].epoch # f.epoch \/ store.rev # f.fence \/ store.out

\* In the lock: nothing left to refresh, another tab's token, or the request.
RefreshLocked(t) ==
    LET f == flight[t]
        shared == store.tok
    IN  /\ Settled(t)
        /\ f.pc = "lock"
        /\ lock = Free
        /\ \/ /\ store.out \/ tab[t].epoch # f.epoch
              /\ EndFlight(t, World(t), None)
              /\ UNCHANGED lock
           \/ /\ ~(store.out \/ tab[t].epoch # f.epoch)
              /\ shared \notin {f.before, f.rejected} /\ Left(shared)
              /\ EndFlight(t, Publish(World(t), shared, "authenticated", FALSE), shared)
              /\ UNCHANGED lock
           \/ /\ ~(store.out \/ tab[t].epoch # f.epoch)
              /\ ~(shared \notin {f.before, f.rejected} /\ Left(shared))
              /\ Acquire(t, "refresh")
              /\ flight' = [flight EXCEPT ![t] =
                     [f EXCEPT !.pc = "sent", !.fence = store.rev,
                               !.cookie = grant, !.asked = outs]]
              /\ UNCHANGED <<store, tab, cache, mail, boot, req>>
        /\ UNCHANGED <<grant, lockKind, sign, out, issued, outs, owed, events>>

\* The server's answer arrives, and with it the cookie: a renewed grant, or
\* none when the presented one is missing or no longer valid.
RefreshAnswered(t) ==
    LET f == flight[t]
    IN  /\ f.pc = "sent"
        /\ \/ /\ f.cookie # NoUser /\ CanMint
              /\ issued' = Minted(f.cookie, f.asked)
              /\ grant' = f.cookie
              /\ flight' = [flight EXCEPT ![t].pc = "token", ![t].answer = Len(issued')]
              /\ UNCHANGED events
           \/ /\ IF f.cookie = NoUser THEN UNCHANGED events ELSE Input("revoke")
              /\ grant' = NoUser
              /\ flight' = [flight EXCEPT ![t].pc = "denied"]
              /\ UNCHANGED issued
           \/ /\ IF f.cookie # NoUser /\ ~CanMint THEN UNCHANGED events ELSE Input("fail")
              /\ flight' = [flight EXCEPT ![t].pc = "failed"]
              /\ UNCHANGED <<issued, grant>>
        /\ UNCHANGED <<store, lock, lockKind, tab, cache, mail, boot, req, sign,
                       out, outs, owed>>

RefreshDecoded(t) ==
    LET f == flight[t]
        w == World(t)
    IN  /\ Settled(t)
        /\ f.pc \in {"token", "denied", "failed"}
        /\ \/ Changed(t, f) /\ EndFlight(t, w, None)
           \/ ~Changed(t, f) /\ f.pc = "denied" /\ EndFlight(t, SignedOut(w, t, FALSE), None)
           \/ /\ f.pc = "failed"
              /\ EndFlight(t, w, IF tab[t].epoch # f.epoch \/ store.out THEN None ELSE Fail)
           \/ /\ ~Changed(t, f) /\ f.pc = "token"
              /\ IF Left(f.answer)
                 THEN EndFlight(t, CompleteSession(w, t, f.answer, "yes"), f.answer)
                 ELSE EndFlight(t, w, Fail)
        /\ Release(t, "refresh")
        /\ UNCHANGED <<grant, lockKind, sign, out, issued, outs, owed, events>>

-----------------------------------------------------------------------------
(* API requests: transport.ts and sessionFetch.                            *)

StartRequest(t, kind) ==
    LET e == Ensure(World(t), t, FALSE)
        q == [Idle EXCEPT !.kind = kind]
    IN  /\ Settled(t)
        /\ tab[t].hydrated
        /\ req[t].pc = "idle"
        /\ Input(kind)
        /\ Put(t, e.w)
        /\ req' = [req EXCEPT ![t] = IF e.how = "config" THEN Waiting(q, e.w, FALSE)
                                     ELSE AfterToken(q, e.w, e.tok)]
        /\ UNCHANGED <<grant, lock, lockKind, flight, boot, sign, out, issued, outs, owed>>

\* recoverUnauthorized up to its first await.
Recover(t, q) ==
    LET w == Hydrate(World(t))
        e == Ensure(w, t, FALSE)
        r == [q EXCEPT !.stage = "retry"]
    IN  IF q.bearer # w.tab.tok
        THEN /\ Put(t, e.w)
             /\ req' = [req EXCEPT ![t] = IF e.how = "config" THEN Waiting(r, e.w, FALSE)
                                          ELSE AfterToken(r, e.w, e.tok)]
        ELSE /\ Put(t, w)
             /\ req' = [req EXCEPT ![t] =
                    CASE store.out -> AfterToken(r, w, None)
                      [] ~store.out /\ tab[t].backoff -> Idle
                      [] OTHER -> [r EXCEPT !.pc = "config", !.mode = "recover"]]

\* The server answers: 401 for a missing, an expired or a withdrawn bearer.
RequestAnswered(t) ==
    LET q == req[t]
        w == ClearRejected(World(t), t, q.bearer)
    IN  /\ Settled(t)
        /\ q.pc = "sent"
        /\ \/ /\ Left(q.bearer)
              /\ req' = [req EXCEPT ![t] = IF tab[t].epoch # q.epoch THEN Idle
                                           ELSE [q EXCEPT !.pc = "decode"]]
              /\ UNCHANGED <<store, tab, cache, mail, events>>
           \/ /\ IF Left(q.bearer) THEN Input("revoke") ELSE UNCHANGED events
              /\ \/ /\ tab[t].epoch # q.epoch
                    /\ req' = [req EXCEPT ![t] = Idle]
                    /\ UNCHANGED <<store, tab, cache, mail>>
                 \/ /\ tab[t].epoch = q.epoch /\ q.stage = "first"
                    /\ Recover(t, q)
                 \/ /\ tab[t].epoch = q.epoch /\ q.stage = "retry"
                    /\ Put(t, w)
                    /\ req' = [req EXCEPT ![t] = AfterToken(q, w, None)]
        /\ UNCHANGED <<grant, lock, lockKind, flight, boot, sign, out, issued, outs, owed>>

\* Mutant: without the interceptor's comparison.
DecodedUnchecked(t) ==
    /\ Settled(t)
    /\ req[t].pc = "decode"
    /\ cache' = [cache EXCEPT ![t] = @ \cup {UserOf(req[t].bearer)}]
    /\ req' = [req EXCEPT ![t] = Idle]
    /\ UNCHANGED <<store, grant, lock, lockKind, tab, mail, flight, boot, sign, out,
                   issued, outs, owed, events>>

\* The body is decoded; the interceptor compares the principal once more.
RequestDecoded(t) ==
    /\ Settled(t)
    /\ req[t].pc = "decode"
    /\ cache' = [cache EXCEPT ![t] = IF tab[t].epoch = req[t].epoch
                                     THEN @ \cup {UserOf(req[t].bearer)} ELSE @]
    /\ req' = [req EXCEPT ![t] = Idle]
    /\ UNCHANGED <<store, grant, lock, lockKind, tab, mail, flight, boot, sign, out,
                   issued, outs, owed, events>>

-----------------------------------------------------------------------------
(* Navigation: a tab loses its memory, its promises and its lock.  What it *)
(* had sent either reached the server or never does.                       *)

Reset(t, page, start) ==
    /\ tab' = [tab EXCEPT ![t] = page]
    /\ cache' = [cache EXCEPT ![t] = {}]
    /\ mail' = mail \ {t}
    /\ flight' = [flight EXCEPT ![t] = NoFlight]
    /\ boot' = [boot EXCEPT ![t] = [Idle EXCEPT !.pc = start]]
    /\ req' = [req EXCEPT ![t] = Idle]
    /\ lock' = IF lockKind = "web" /\ lock[1] = t THEN Free ELSE lock

Redirect(t) ==
    /\ req[t].pc = "redirect"
    /\ Reset(t, NewTab, "start")
    /\ sign' = [sign EXCEPT ![t] = NoSign]
    /\ out' = [out EXCEPT ![t] = "off"]
    /\ UNCHANGED <<store, grant, lockKind, issued, outs, owed, events>>

Reload(t) ==
    /\ Live(t)
    /\ Input("reload")
    /\ Reset(t, NewTab, "start")
    /\ sign' = [sign EXCEPT ![t] = NoSign]
    /\ out' = [out EXCEPT ![t] = "off"]
    /\ owed' = owed \ {t}
    /\ \/ UNCHANGED grant
       \/ (out[t] = "sent" \/ sign[t].pc = "clearing") /\ grant' = NoUser
       \/ /\ sign[t].pc = "sent" /\ sign[t].user \in OidcUsers /\ RefreshEnabled
          /\ grant' = sign[t].user
    /\ UNCHANGED <<store, lockKind, issued, outs>>

\* A lease of a tab that is gone, or that outlives 15 s: a password sign-in
\* makes two requests of up to 12 s each.
LeaseExpires ==
    /\ lockKind = "lease"
    /\ lock # Free
    /\ \/ lock[2] = "refresh" /\ flight[lock[1]].pc \in {"off", "lock"}
       \/ lock[2] = "out" /\ out[lock[1]] # "sent"
       \/ lock[2] = "sign" /\ sign[lock[1]].pc \in {"off", "config", "lock", "clearing", "cleared"}
    /\ lock' = Free
    /\ UNCHANGED <<store, grant, lockKind, tab, cache, mail, flight, boot, req, sign,
                   out, issued, outs, owed, events>>

-----------------------------------------------------------------------------
(* Sign-in: by authorization code on the callback page, which starts with  *)
(* an empty memory, or by password on the login page.                      *)

SameSession(t) == tab[t].epoch = sign[t].epoch /\ store.rev = sign[t].fence

SignInWithCode(t, u) ==
    /\ Live(t)
    /\ sign[t].pc = "off" /\ out[t] = "off"
    /\ tab[t].hydrated /\ tab[t].status \in {"anonymous", "unavailable"}
    /\ Input("signin")
    /\ Reset(t, [NewTab EXCEPT !.listening = TRUE], "idle")
    /\ sign' = [sign EXCEPT ![t] = [NoSign EXCEPT !.pc = "lock", !.user = u,
                                       !.fence = store.rev, !.asked = outs]]
    /\ UNCHANGED <<store, grant, lockKind, out, issued, outs, owed>>

SignInWithPassword(t, u) ==
    /\ Settled(t)
    /\ sign[t].pc = "off" /\ out[t] = "off"
    /\ tab[t].hydrated /\ tab[t].status \in {"anonymous", "unavailable"}
    /\ Input("signin")
    /\ sign' = [sign EXCEPT ![t] = [NoSign EXCEPT !.pc = "config", !.user = u,
                    !.epoch = tab[t].epoch, !.fence = store.rev, !.asked = outs]]
    /\ UNCHANGED <<store, grant, lock, lockKind, tab, cache, mail, flight, boot, req,
                   out, issued, outs, owed>>

SignConfig(t) ==
    /\ Live(t)
    /\ sign[t].pc = "config"
    /\ tab' = [tab EXCEPT ![t].config = TRUE]
    /\ sign' = [sign EXCEPT ![t].pc = "lock"]
    /\ UNCHANGED <<store, grant, lock, lockKind, cache, mail, flight, boot, req,
                   out, issued, outs, owed, events>>

SignLocked(t) ==
    /\ Settled(t)
    /\ sign[t].pc = "lock"
    /\ lock = Free
    /\ IF SameSession(t)
       THEN Acquire(t, "sign") /\ sign' = [sign EXCEPT ![t].pc = "sent"]
       ELSE UNCHANGED lock /\ sign' = [sign EXCEPT ![t] = NoSign]
    /\ UNCHANGED <<store, grant, lockKind, tab, cache, mail, flight, boot, req,
                   out, issued, outs, owed, events>>

\* /auth/token also sets the cookie; /auth/basic-login does not.
SignAnswered(t) ==
    LET s == sign[t]
    IN  /\ s.pc = "sent"
        /\ \/ /\ CanMint
              /\ issued' = Minted(s.user, s.asked)
              /\ sign' = [sign EXCEPT ![t].pc = "token", ![t].answer = Len(issued')]
              /\ grant' = IF s.user \in OidcUsers /\ RefreshEnabled THEN s.user ELSE grant
              /\ UNCHANGED events
           \/ /\ IF CanMint THEN Input("fail") ELSE UNCHANGED events
              /\ sign' = [sign EXCEPT ![t].pc = "failed"]
              /\ UNCHANGED <<issued, grant>>
        /\ UNCHANGED <<store, lock, lockKind, tab, cache, mail, flight, boot, req,
                       out, outs, owed>>

\* Mutant: a password account is accepted at once.
AcceptAtOnce(t) ==
    LET s == sign[t]
        good == s.pc = "token" /\ SameSession(t) /\ Left(s.answer)
    IN  /\ Settled(t)
        /\ s.pc \in {"token", "failed"}
        /\ IF good THEN Put(t, CompleteSession(World(t), t, s.answer, "no"))
                   ELSE UNCHANGED <<store, tab, cache, mail>>
        /\ sign' = [sign EXCEPT ![t] = NoSign]
        /\ Release(t, "sign")
        /\ UNCHANGED <<grant, lockKind, flight, boot, req, out, issued, outs, owed, events>>

SignDecoded(t) ==
    LET s == sign[t]
        good == s.pc = "token" /\ SameSession(t) /\ Left(s.answer)
        basic == s.user \in BasicUsers
    IN  /\ Settled(t)
        /\ s.pc \in {"token", "failed"}
        /\ \/ /\ good /\ basic /\ RefreshEnabled
              /\ sign' = [sign EXCEPT ![t].pc = "clearing"]
              /\ UNCHANGED <<store, lock, tab, cache, mail, owed>>
           \/ /\ good /\ ~(basic /\ RefreshEnabled)
              /\ Put(t, CompleteSession(World(t), t, s.answer,
                                        IF basic \/ ~RefreshEnabled THEN "no" ELSE "yes"))
              /\ sign' = [sign EXCEPT ![t] = NoSign]
              /\ Release(t, "sign")
              /\ owed' = {}
           \/ /\ ~good
              /\ sign' = [sign EXCEPT ![t] = NoSign]
              /\ Release(t, "sign")
              /\ UNCHANGED <<store, tab, cache, mail, owed>>
        /\ UNCHANGED <<grant, lockKind, flight, boot, req, out, issued, outs, events>>

\* A password sign-in removes the previous account's grant first.
GrantCleared(t) ==
    /\ sign[t].pc = "clearing"
    /\ \/ grant' = NoUser /\ sign' = [sign EXCEPT ![t].pc = "cleared"] /\ UNCHANGED events
       \/ Input("fail") /\ sign' = [sign EXCEPT ![t].pc = "failed"] /\ UNCHANGED grant
    /\ UNCHANGED <<store, lock, lockKind, tab, cache, mail, flight, boot, req, out,
                   issued, outs, owed>>

PasswordAccepted(t) ==
    /\ Settled(t)
    /\ sign[t].pc = "cleared"
    /\ IF SameSession(t)
       THEN /\ Put(t, CompleteSession(World(t), t, sign[t].answer, "no"))
            /\ owed' = {}
       ELSE UNCHANGED <<store, tab, cache, mail, owed>>
    /\ sign' = [sign EXCEPT ![t] = NoSign]
    /\ Release(t, "sign")
    /\ UNCHANGED <<grant, lockKind, flight, boot, req, out, issued, outs, events>>

-----------------------------------------------------------------------------
(* Logout: the tombstone first, then the cookie.                           *)

Logout(t) ==
    LET w == SignedOut(Hydrate(World(t)), t, TRUE)
    IN  /\ Settled(t)
        /\ out[t] = "off"
        /\ sign[t].pc = "off"
        /\ tab[t].status \in {"authenticated", "unavailable"}
        /\ Input("logout")
        /\ Put(t, [w EXCEPT !.tab.leaving = TRUE])
        /\ out' = [out EXCEPT ![t] = "config"]
        /\ outs' = outs + 1
        /\ owed' = IF RefreshEnabled THEN owed \cup {t} ELSE owed
        /\ UNCHANGED <<grant, lock, lockKind, flight, boot, req, sign, issued>>

LogoutConfig(t) ==
    /\ Live(t)
    /\ out[t] = "config"
    /\ tab' = [tab EXCEPT ![t].config = TRUE, ![t].leaving = RefreshEnabled]
    /\ out' = [out EXCEPT ![t] = IF RefreshEnabled THEN "lock" ELSE "done"]
    /\ UNCHANGED <<store, grant, lock, lockKind, cache, mail, flight, boot, req, sign,
                   issued, outs, owed, events>>

LogoutLocked(t) ==
    /\ Settled(t)
    /\ out[t] = "lock"
    /\ Acquire(t, "out")
    /\ out' = [out EXCEPT ![t] = "sent"]
    /\ UNCHANGED <<store, grant, lockKind, tab, cache, mail, flight, boot, req, sign,
                   issued, outs, owed, events>>

LogoutAnswered(t) ==
    /\ Settled(t)
    /\ out[t] = "sent"
    /\ \/ grant' = NoUser /\ UNCHANGED events
       \/ UNCHANGED grant /\ Input("fail")
    /\ out' = [out EXCEPT ![t] = "done"]
    /\ tab' = [tab EXCEPT ![t].leaving = FALSE]
    /\ owed' = owed \ {t}
    /\ Release(t, "out")
    /\ UNCHANGED <<store, lockKind, cache, mail, flight, boot, req, sign, issued, outs>>

\* window.location.href = "/login/" at the end of the provider's logout.
LogoutNavigates(t) ==
    /\ Live(t)
    /\ out[t] = "done"
    /\ Reset(t, NewTab, "start")
    /\ out' = [out EXCEPT ![t] = "off"]
    /\ sign' = [sign EXCEPT ![t] = NoSign]
    /\ UNCHANGED <<store, grant, lockKind, issued, outs, owed, events>>

-----------------------------------------------------------------------------
\* A browser whose tabs are all open on the console of one account.
Init ==
    \E u \in OidcUsers :
    /\ store = [tok |-> 1, out |-> FALSE, rev |-> 1,
                avail |-> IF RefreshEnabled THEN "yes" ELSE "no"]
    /\ grant = IF RefreshEnabled THEN u ELSE NoUser
    /\ lock = Free
    /\ lockKind \in LockKinds
    /\ tab = [t \in Tabs |-> [NewTab EXCEPT !.tok = 1, !.status = "authenticated",
                                 !.epoch = 1, !.hydrated = TRUE, !.listening = TRUE,
                                 !.config = TRUE, !.armed = TRUE]]
    /\ cache = [t \in Tabs |-> {}]
    /\ mail = {}
    /\ flight = [t \in Tabs |-> NoFlight]
    /\ boot = [t \in Tabs |-> Idle]
    /\ req = [t \in Tabs |-> Idle]
    /\ sign = [t \in Tabs |-> NoSign]
    /\ out = [t \in Tabs |-> "off"]
    /\ issued = <<[user |-> u, age |-> "fresh", asked |-> 0]>>
    /\ outs = 0
    /\ owed = {}
    /\ events = 0

\* The program's own next step in tab t.
TabStep(t) ==
    \/ Deliver(t) \/ Bootstrap(t) \/ RefreshTimer(t)
    \/ BootConfig(t) \/ ReqConfig(t) \/ SignConfig(t) \/ LogoutConfig(t)
    \/ RefreshLocked(t) \/ RefreshAnswered(t) \/ RefreshDecoded(t)
    \/ RequestAnswered(t) \/ RequestDecoded(t) \/ Redirect(t)
    \/ SignLocked(t) \/ SignAnswered(t) \/ SignDecoded(t)
    \/ GrantCleared(t) \/ PasswordAccepted(t)
    \/ LogoutLocked(t) \/ LogoutAnswered(t) \/ LogoutNavigates(t)

UserStep(t) ==
    \/ Reconnect(t)
    \/ \E kind \in {"read", "write"} : StartRequest(t, kind)
    \/ \E u \in OidcUsers : SignInWithCode(t, u)
    \/ \E u \in BasicUsers : SignInWithPassword(t, u)
    \/ Logout(t) \/ Reload(t)

Next ==
    \/ \E t \in Tabs : TabStep(t) \/ UserStep(t) \/ ConfigFails(t) \/ BackoffEnds(t)
    \/ \E n \in DOMAIN issued : AgeToken(n)
    \/ LeaseExpires

Spec == Init /\ [][Next]_vars

-----------------------------------------------------------------------------
(* Properties.                                                             *)

Avail == {"unset", "yes", "no"}
Store == [tok : Tokens, out : BOOLEAN, avail : Avail, rev : Nat]
Tab == [tok : Tokens, status : {"loading", "authenticated", "anonymous", "unavailable"},
        epoch : Nat, leaving : BOOLEAN, hydrated : BOOLEAN, listening : BOOLEAN,
        config : BOOLEAN, backoff : BOOLEAN, armed : BOOLEAN]
Flight == [pc : {"off", "lock", "sent", "token", "denied", "failed"}, before : Tokens,
           epoch : Nat, rejected : Tokens, fence : Nat, cookie : OidcUsers \cup {NoUser},
           asked : Nat, answer : Tokens]
Call == [pc : {"idle", "start", "config", "refresh", "sent", "decode", "redirect"},
         mode : {"ensure", "recover"}, stage : {"first", "retry"}, kind : {"read", "write"},
         force : BOOLEAN, avail : Avail, left : BOOLEAN, bearer : Tokens, epoch : Nat]
SignIn == [pc : {"off", "config", "lock", "sent", "token", "failed", "clearing", "cleared"},
           user : Users \cup {NoUser}, epoch : Nat, fence : Nat, asked : Nat,
           answer : Tokens]
Token == [user : Users, age : {"fresh", "aging", "expired"}, asked : Nat]

\* Types of what the browser stores, of what each tab shows of it, and of what
\* is pending: a tab is in one of the four states the console renders
\* (BrowserSessionSnapshot), and the cookie never holds a password account.
TypeOK ==
    /\ store \in Store
    /\ grant \in OidcUsers \cup {NoUser}
    /\ lock \in (Tabs \X {"refresh", "sign", "out"}) \cup {Free}
    /\ lockKind \in {"web", "lease"}
    /\ tab \in [Tabs -> Tab]
    /\ cache \in [Tabs -> SUBSET Users]
    /\ mail \subseteq Tabs
    /\ flight \in [Tabs -> Flight]
    /\ boot \in [Tabs -> Call] /\ req \in [Tabs -> Call]
    /\ sign \in [Tabs -> SignIn]
    /\ out \in [Tabs -> {"off", "config", "lock", "sent", "done"}]
    /\ issued \in Seq(Token)
    /\ outs \in Nat
    /\ owed \subseteq Tabs

\* A session that the user ended stays ended: the stored token was asked for,
\* by sign-in or refresh, after the last logout (the tombstone and the fence
\* of refreshSession, exchangeAuthorizationCode, exchangePasswordForSession).
SignedOutStays == store.tok # None => issued[store.tok].asked = outs

\* A tab shows the stored session, or a storage event is on its way to it
\* (syncSessionFromStorage); only a page that has not read storage yet shows
\* nothing.
TabsFollow ==
    \A t \in Tabs : tab[t].tok # store.tok =>
        t \in mail \/ (tab[t].tok = None /\ ~tab[t].hydrated)

\* The query cache of a tab holds data of the account the tab shows and of no
\* other, whatever answers arrive late (publish, assertIdentity, transport.ts).
CacheIsOwn == \A t \in Tabs : cache[t] \subseteq {UserOf(tab[t].tok)} \ {NoUser}

\* With Web Locks, a password account is installed only when no account's
\* refresh grant is left in the cookie.
PasswordStandsAlone ==
    [][lockKind = "web" /\ store'.tok # store.tok /\ UserOf(store.tok)' \in BasicUsers
           => grant' = NoUser]_vars

\* A logout that nobody disturbs goes on until it has cleared the cookie: no
\* redirect of its own tab cancels it (redirectToLogin and logoutPending).
LogoutNotCancelled == \A t \in owed : out[t] \in {"config", "lock", "sent"}

\* The lock is held by a flow that is still going to give it back, so that no
\* tab waits for it in vain (withSessionLock); a lease may outlive its tab.
LockInUse ==
    lockKind = "web" /\ lock # Free =>
        \/ lock[2] = "refresh" /\ flight[lock[1]].pc \notin {"off", "lock"}
        \/ lock[2] = "out" /\ out[lock[1]] = "sent"
        \/ lock[2] = "sign" /\ sign[lock[1]].pc \notin {"off", "config", "lock"}

-----------------------------------------------------------------------------
(* The inductive invariant: what the properties above rest on.             *)

Worlds == [tab : Tab, cache : SUBSET Users, store : Store, mail : SUBSET Tabs]

\* What a tab knows of the session: tokens that were issued; a mark of the
\* logout only without a token; the stored token or news of it; a tab that does
\* not listen yet has read nothing; the cache of the account it shows.
Sound(w) ==
    /\ w \in Worlds
    /\ w.store.tok <= Len(issued) /\ w.tab.tok <= Len(issued)
    /\ ~w.tab.listening => w.tab.tok = None /\ ~w.tab.hydrated
    /\ w.tab.status = "anonymous" => w.tab.tok = None
    /\ w.cache \subseteq {UserOf(w.tab.tok)} \ {NoUser}
InStep(t, w) ==
    /\ w.store.out => w.store.tok = None
    /\ w.tab.tok # w.store.tok => t \in w.mail \/ (w.tab.tok = None /\ ~w.tab.hydrated)
    /\ t \in w.mail => w.tab.listening
WorldsInv == \A t \in Tabs : Sound(World(t)) /\ InStep(t, World(t))

\* A page that does not listen yet has nothing under way.
ListeningInv ==
    \A t \in Tabs : ~tab[t].listening => /\ boot[t].pc \in {"idle", "start"}
                                         /\ req[t].pc = "idle" /\ flight[t].pc = "off"
                                         /\ sign[t].pc = "off"

\* Web Locks exclude: whoever is past the lock holds it, and conversely.
LockInv ==
    lockKind = "web" => \A t \in Tabs :
        /\ flight[t].pc \notin {"off", "lock"} <=> lock = <<t, "refresh">>
        /\ out[t] = "sent" <=> lock = <<t, "out">>
        /\ sign[t].pc \notin {"off", "config", "lock"} <=> lock = <<t, "sign">>

\* The fences: a refresh or sign-in that still finds the revision it started
\* from was asked for after the last logout, and its answer is its own.
FlightFenced(t) ==
    LET f == flight[t]
    IN  /\ f.pc # "off" => RefreshEnabled
        /\ f.pc \notin {"off", "lock"} =>
               f.fence <= store.rev /\ (f.fence = store.rev => f.asked = outs)
        /\ f.pc = "token" => /\ f.answer \in 1..Len(issued)
                             /\ issued[f.answer].asked = f.asked
                             /\ issued[f.answer].user \in OidcUsers
SignFenced(t) ==
    LET s == sign[t]
    IN  /\ s.pc # "off" => /\ s.user \in Users
                           /\ s.fence <= store.rev
                           /\ s.fence = store.rev => s.asked = outs
        /\ s.pc \in {"token", "clearing", "cleared"} =>
               /\ s.answer \in 1..Len(issued)
               /\ issued[s.answer].asked = s.asked
               /\ issued[s.answer].user = s.user
FenceInv == \A t \in Tabs : FlightFenced(t) /\ SignFenced(t)

\* A request whose identity has not changed carries the token of the account
\* on screen.
OwnBearer(q, shown) ==
    /\ q.epoch <= shown.epoch /\ q.bearer <= Len(issued)
    /\ q.pc \in {"sent", "decode"} /\ q.bearer # None /\ q.epoch = shown.epoch
          => UserOf(q.bearer) = UserOf(shown.tok)
    /\ q.pc = "decode" => q.bearer # None
BearerInv == \A t \in Tabs : OwnBearer(req[t], tab[t])

\* A tab whose logout has to clear the cookie knows it, and does not navigate.
LeavingInv == \A t \in owed : /\ RefreshEnabled /\ tab[t].leaving
                              /\ req[t].pc # "redirect"

\* The grant: none without refresh, none while a password account is installed.
GrantInv ==
    /\ ~RefreshEnabled => grant = NoUser
    /\ \A t \in Tabs : lockKind = "web" /\ sign[t].pc = "cleared" => grant = NoUser

\* What holds the session module together: its types, a lock that is in use,
\* and what each tab, request, refresh, sign-in and logout may rely on.
SessionInv == /\ TypeOK /\ LockInUse
              /\ WorldsInv /\ ListeningInv /\ LockInv /\ FenceInv /\ SignedOutStays /\ BearerInv
              /\ LeavingInv /\ LogoutNotCancelled /\ GrantInv
=============================================================================
