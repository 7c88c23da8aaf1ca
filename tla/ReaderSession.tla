---------------------------- MODULE ReaderSession ----------------------------
(***************************************************************************)
(* The reader-session broker (reader_session.py) behind POST and DELETE    *)
(* /session and behind the authentication of every protected route.        *)
(*                                                                         *)
(* A browser exchanges the credentials of its reader (Calibre-Web's        *)
(* cookies, or a Kavita bearer token or OIDC cookie) for an opaque, short  *)
(* lived session token.  The broker first asks the reader, which is        *)
(* outside this repository, whether it accepts the credentials; then it    *)
(* enters the token in a table bounded by MaxEntries, ordered by recency.  *)
(* Several server threads run the handlers at once.  Each handler reads    *)
(* the clock before it takes the table's lock, so the time it uses may be  *)
(* old when the lock is granted; a lock section is one step here.          *)
(*                                                                         *)
(* A cookie or bearer token is abstracted to a record: the field under     *)
(* which it is sent, the user it belongs to, and whether the broker can    *)
(* decode a user id from it.  A session cookie's digest stands for the     *)
(* token itself, and a binding for the client address and user agent.      *)
(***************************************************************************)
EXTENDS Naturals, Sequences, FiniteSets, Functions, Queues

CONSTANTS
    Threads,        \* server threads
    Users,          \* users of the reader
    Bindings,       \* (client address, user agent) pairs
    Tokens,         \* what token_factory can return
    Credentials,    \* type of reader -> sequences of cookies a browser can present
    TTL,            \* ttl_seconds
    MaxEntries,     \* max_entries
    MaxTime,        \* bound on the clock
    None

ASSUME ReaderSessionAssumption ==
    /\ DOMAIN Credentials \in SUBSET {"cwa", "kavita"}
    /\ TTL \in Nat \ {0} /\ MaxEntries \in Nat \ {0} /\ MaxTime \in Nat
    /\ None \notin Tokens /\ None \notin Users
    /\ \A type \in DOMAIN Credentials : \A cred \in Credentials[type] :
          cred \in Seq([name : STRING, user : Users, shown : BOOLEAN])

VARIABLES
    reader,     \* BT_READER_TYPE of this deployment: "cwa" or "kavita"
    clock,      \* time.monotonic
    sessions,   \* _sessions: the records, by token
    order,      \* _sessions: its insertion order, least recently used first
    req,        \* what each server thread is doing
    issued,     \* history: whom the reader vouched for when a token was issued
    dead        \* history: the tokens that have left the table

vars == <<reader, clock, sessions, order, req, issued, dead>>

Cookies == UNION {Range(cred) : cred \in Credentials[reader]}

Idle == [pc |-> "idle", bind |-> None, cred |-> <<>>, tok |-> None,
         todo |-> <<>>, ident |-> None, now |-> 0, new |-> None,
         vouched |-> None, revoking |-> FALSE]

Init ==
    /\ reader \in DOMAIN Credentials
    /\ clock = 0
    /\ sessions = <<>>
    /\ order = <<>>
    /\ req = [p \in Threads |-> Idle]
    /\ issued = <<>>
    /\ dead = {}

----------------------------------------------------------------------------
(* The reader, outside this repository: a user may log in or out of it at   *)
(* any time, so each request finds it accepting some set live of cookies.   *)
(* It answers for the first cookie it was sent that it accepts.             *)

Accepted(cred, live) == Only(cred, live)

----------------------------------------------------------------------------
(* exchange                                                                 *)

\* The handler answers: a rejection (401) or an unavailable reader (503) leaves
\* nothing behind; a success leaves what there is to say about its token.
Refuse(p) == req' = [req EXCEPT ![p] = Idle]
Succeed(p, pc, tok) == req' = [req EXCEPT ![p] = [Idle EXCEPT !.pc = pc, !.tok = tok]]

\* The cookies from which _cwa_cookie_user decodes a user id.
Named(cred) == Only(cred, {c \in Cookies : c.shown})

\* The tokens a browser may hold: those of the answers that were sent.
HandedOut == DOMAIN issued

\* Bound: there is a token left for every exchange that is under way.
TokensLeft ==
    Cardinality(Tokens \ HandedOut)
        > Cardinality({p \in Threads : req[p].pc \in {"probe_one", "probe_all", "mint", "commit"}})

(* An exchange that _validate_origin and _credentials let pass begins its  *)
(* probes; one they reject has changed nothing.                            *)
StartExchange(p, cred, bind, prior) ==
    /\ req[p].pc = "idle" /\ TokensLeft
    /\ req' = [req EXCEPT ![p] = [Idle EXCEPT
          !.pc = IF reader = "cwa" THEN "probe_one" ELSE "probe_all",
          !.cred = cred, !.bind = bind, !.tok = prior,
          !.todo = IF reader = "cwa" THEN Named(cred) ELSE <<>>]]
    /\ UNCHANGED <<reader, clock, sessions, order, issued, dead>>

\* Variant: the cookies are sent together and the first name is believed.
ProbeTogether(p, live) ==
    /\ req[p].pc = "probe_one" /\ req[p].todo # <<>>
    /\ LET ok == Accepted(req[p].cred, live) IN
       req' = [req EXCEPT ![p] =
          IF ok # <<>>
            THEN [@ EXCEPT !.pc = "mint", !.vouched = ok[1].user,
                           !.ident = <<"cwa-user", req[p].todo[1].user>>]
            ELSE [@ EXCEPT !.todo = Tail(req[p].todo)]]
    /\ UNCHANGED <<reader, clock, sessions, order, issued, dead>>

(* _probe_cwa's loop: a cookie that names a user is sent alone.  An answer *)
(* that is not the JSON the probe expects counts as a rejection.           *)
ProbeOne(p, live) ==
    /\ req[p].pc = "probe_one" /\ req[p].todo # <<>>
    /\ LET c == Head(req[p].todo) IN
       req' = [req EXCEPT ![p] =
          IF Accepted(<<c>>, live) # <<>>
            THEN [@ EXCEPT !.pc = "mint", !.ident = <<"cwa-user", c.user>>,
                           !.vouched = Accepted(<<c>>, live)[1].user]
            ELSE [@ EXCEPT !.todo = Tail(req[p].todo)]]
    /\ UNCHANGED <<reader, clock, sessions, order, issued, dead>>

\* The end of the loop: rejected when every cookie named a user.
ProbedEach(p) ==
    /\ req[p].pc = "probe_one" /\ req[p].todo = <<>>
    /\ IF Named(req[p].cred) = req[p].cred
         THEN Refuse(p)
         ELSE req' = [req EXCEPT ![p].pc = "probe_all"]
    /\ UNCHANGED <<reader, clock, sessions, order, issued, dead>>

(* _probe with all the credentials: Calibre-Web's answer does not name the *)
(* user, so the credentials are the identity; Kavita's names the user.     *)
ProbeAll(p, live) ==
    /\ req[p].pc = "probe_all"
    /\ LET cred == req[p].cred
           ok == Accepted(cred, live) IN
       req' = [req EXCEPT ![p] =
          IF ok = <<>> THEN Idle
          ELSE [@ EXCEPT !.pc = "mint", !.vouched = ok[1].user,
                  !.ident = IF reader = "cwa" THEN <<"credential", cred>>
                            ELSE <<"kavita", ok[1].user>>]]
    /\ UNCHANGED <<reader, clock, sessions, order, issued, dead>>

\* A probe that fails or passes its deadline ends the exchange: 503.
ProbeUnavailable(p) ==
    /\ \/ req[p].pc = "probe_one" /\ req[p].todo # <<>>
       \/ req[p].pc = "probe_all"
    /\ Refuse(p)
    /\ UNCHANGED <<reader, clock, sessions, order, issued, dead>>

\* Variant: the browser keeps the token it has.
MintKeepsPrior(p) ==
    /\ req[p].pc = "mint"
    /\ \E t \in Tokens :
          /\ IF req[p].tok = None THEN t \notin HandedOut ELSE t = req[p].tok
          /\ req' = [req EXCEPT ![p].pc = "commit", ![p].new = t, ![p].now = clock]
    /\ UNCHANGED <<reader, clock, sessions, order, issued, dead>>

\* The random token, new by its 256 bits, and then the clock.
Mint(p) ==
    /\ req[p].pc = "mint"
    /\ \E t \in Tokens :
          /\ t \notin HandedOut /\ \A q \in Threads : req[q].new # t
          /\ req' = [req EXCEPT ![p].pc = "commit", ![p].new = t, ![p].now = clock]
    /\ UNCHANGED <<reader, clock, sessions, order, issued, dead>>

\* _subject: the tenant, one for each identity of this reader.
Subject(ident) == <<reader, ident>>

\* A record is expired from the instant expires_at on.
Expired(record, now) == record.expires_at <= now

\* The request comes from the address and the user agent of the exchange.
SameBinding(record, r) == record.bind = r.bind

\* Variant: a loop that runs while the table is full, not while it is too long.
EvictAtLimit(queue) == IF Len(queue) >= MaxEntries
                         THEN SubSeq(queue, Len(queue) - MaxEntries + 2, Len(queue))
                         ELSE queue

\* popitem(last=False) while the table is too long.
Evict(queue) == IF Len(queue) > MaxEntries
                  THEN SubSeq(queue, Len(queue) - MaxEntries + 1, Len(queue))
                  ELSE queue

(* The lock section of exchange: the browser's former token leaves, the    *)
(* new one enters as the most recent, the expired ones and then the least  *)
(* recently used leave.                                                    *)
Commit(p) ==
    /\ req[p].pc = "commit"
    /\ LET r == req[p]
           merged == [t \in (DOMAIN sessions \ {r.tok}) \cup {r.new} |->
                        IF t = r.new
                          THEN [subject |-> Subject(r.ident), bind |-> r.bind,
                                expires_at |-> r.now + TTL]
                          ELSE sessions[t]]
           fresh == {t \in DOMAIN merged : ~Expired(merged[t], r.now)}
           queue == Evict(Only(Append(order, r.new), fresh))
           kept == fresh \cap Range(queue)
       IN /\ sessions' = [t \in kept |-> merged[t]]
          /\ order' = queue
          /\ issued' = [t \in HandedOut \cup {r.new} |->
                IF t = r.new THEN [user |-> r.vouched, ident |-> r.ident, bind |-> r.bind]
                ELSE issued[t]]
          /\ dead' = dead \cup ((DOMAIN sessions \cup {r.new}) \ kept)
    /\ Succeed(p, "issued", None)
    /\ UNCHANGED <<reader, clock>>

----------------------------------------------------------------------------
(* authenticate, and revoke, which authenticates and then removes           *)

\* _sessions.pop.
Leave(t) ==
    /\ sessions' = [u \in DOMAIN sessions \ {t} |-> sessions[u]]
    /\ order' = Only(order, DOMAIN sessions \ {t})
    /\ dead' = dead \cup ({t} \cap DOMAIN sessions)

(* A protected route, or DELETE /session: the request hook authenticates   *)
(* the token ("check"); a revocation authenticates it again ("recheck").   *)
StartAuthenticate(p, revoking, tok, bind) ==
    /\ req[p].pc = "idle"
    /\ req' = [req EXCEPT ![p] = [Idle EXCEPT !.pc = "check", !.tok = tok,
                 !.bind = bind, !.now = clock, !.revoking = revoking]]
    /\ UNCHANGED <<reader, clock, sessions, order, issued, dead>>

\* Where a request goes when authenticate returns.
Passed(r) == CASE r.pc = "check" /\ r.revoking -> "again"
               [] r.pc = "check" /\ ~r.revoking -> "accepted"
               [] r.pc = "recheck" -> "remove"

\* The lock section of authenticate.
Check(p) ==
    /\ req[p].pc \in {"check", "recheck"}
    /\ LET r == req[p]
           known == r.tok \in DOMAIN sessions
       IN \/ /\ known => Expired(sessions[r.tok], r.now)
             /\ Leave(r.tok)
             /\ Refuse(p)
          \/ /\ known /\ ~Expired(sessions[r.tok], r.now)
             /\ ~SameBinding(sessions[r.tok], r)
             /\ Refuse(p)
             /\ UNCHANGED <<sessions, order, dead>>
          \/ /\ known /\ ~Expired(sessions[r.tok], r.now)
             /\ SameBinding(sessions[r.tok], r)
             /\ order' = Append(Only(order, DOMAIN sessions \ {r.tok}), r.tok)
             /\ req' = [req EXCEPT ![p].pc = Passed(r), ![p].now = 0,
                                   ![p].ident = sessions[r.tok].subject]
             /\ UNCHANGED <<sessions, dead>>
    /\ UNCHANGED <<reader, clock, issued>>

\* revoke calls authenticate, which reads the clock once more.
RevokeAuthenticate(p) ==
    /\ req[p].pc = "again"
    /\ req' = [req EXCEPT ![p].pc = "recheck", ![p].now = clock]
    /\ UNCHANGED <<reader, clock, sessions, order, issued, dead>>

\* _remove_token, in a lock section of its own.
RemoveToken(p) ==
    /\ req[p].pc = "remove"
    /\ Leave(req[p].tok)
    /\ Succeed(p, "revoked", req[p].tok)
    /\ UNCHANGED <<reader, clock, issued>>

----------------------------------------------------------------------------
Final == {"issued", "accepted", "revoked"}

\* The answer is sent and the thread takes another request.
Respond(p) ==
    /\ req[p].pc \in Final
    /\ req' = [req EXCEPT ![p] = Idle]
    /\ UNCHANGED <<reader, clock, sessions, order, issued, dead>>

Tick ==
    /\ clock < MaxTime
    /\ clock' = clock + 1
    /\ UNCHANGED <<reader, sessions, order, req, issued, dead>>

\* The process restarts: the table is in memory only, the requests are lost.
Restart ==
    /\ sessions # <<>>
    /\ sessions' = <<>> /\ order' = <<>>
    /\ dead' = dead \cup DOMAIN sessions
    /\ req' = [p \in Threads |-> Idle]
    /\ UNCHANGED <<reader, clock, issued>>

Handle(p) ==
    \/ \E live \in SUBSET Cookies : ProbeOne(p, live) \/ ProbeAll(p, live)
    \/ ProbedEach(p) \/ ProbeUnavailable(p)
    \/ Mint(p) \/ Commit(p) \/ Check(p) \/ RevokeAuthenticate(p) \/ RemoveToken(p)
    \/ Respond(p)

Next ==
    \/ \E p \in Threads :
         \/ Handle(p)
         \/ \E bind \in Bindings, tok \in HandedOut \cup {None} :
              \/ \E cred \in Credentials[reader] : StartExchange(p, cred, bind, tok)
              \/ \E revoking \in BOOLEAN :
                    tok # None /\ StartAuthenticate(p, revoking, tok, bind)
    \/ Tick
    \/ Restart

Spec == Init /\ [][Next]_vars

----------------------------------------------------------------------------
(* Properties                                                               *)

Phases == {"idle", "probe_one", "probe_all", "mint", "commit", "check",
           "again", "recheck", "remove"} \cup Final

Identities == {<<"cwa-user", u>> : u \in Users} \cup {<<"kavita", u>> : u \in Users}
              \cup {<<"credential", cred>> : cred \in Credentials[reader]}

Subjects == {Subject(i) : i \in Identities}

Requests ==
    [pc : Phases, bind : Bindings \cup {None}, cred : Credentials[reader] \cup {<<>>},
     tok : Tokens \cup {None}, todo : Seq(Cookies),
     ident : Identities \cup Subjects \cup {None}, now : 0 .. clock,
     new : Tokens \cup {None}, vouched : Users \cup {None}, revoking : BOOLEAN]

(* Types; the table and its order hold the same tokens, each once.         *)
TypeOK ==
    /\ reader \in DOMAIN Credentials
    /\ clock \in 0 .. MaxTime
    /\ DOMAIN sessions \in SUBSET Tokens
    /\ \A t \in DOMAIN sessions :
          sessions[t] \in [subject : Subjects, bind : Bindings,
                           expires_at : 0 .. MaxTime + TTL]
    /\ order \in Seq(Tokens) /\ Range(order) = DOMAIN sessions
    /\ Len(order) = Cardinality(DOMAIN sessions)
    /\ req \in [Threads -> Requests]
    /\ DOMAIN issued \in SUBSET Tokens
    /\ \A t \in DOMAIN issued :
          issued[t] \in [user : Users, ident : Identities, bind : Bindings]
    /\ dead \in SUBSET Tokens

(* The table never exceeds BT_SESSION_MAX_ENTRIES, and no token that has   *)
(* left it (rotated by a later exchange, revoked, expired, evicted, or     *)
(* lost with the process) is ever in it again: a late handler cannot bring *)
(* a session back, so what was revoked stays revoked.                      *)
NoResurrection ==
    /\ Cardinality(DOMAIN sessions) <= MaxEntries
    /\ dead \cap DOMAIN sessions = {}
    /\ \A p \in Threads : req[p].pc = "revoked" => req[p].tok \notin DOMAIN sessions

(* Every session in the table, and every request that was accepted, acts   *)
(* for the user whom the reader accepted when the token was issued, from   *)
(* the address and the user agent of that exchange.  In particular a       *)
(* Calibre-Web user id read from an unverified cookie becomes a tenant     *)
(* only when the reader accepted that very cookie (_probe_cwa).            *)
Vouched ==
    /\ \A t \in DOMAIN sessions :
          /\ sessions[t].subject = Subject(issued[t].ident)
          /\ sessions[t].bind = issued[t].bind
          /\ issued[t].ident[1] # "credential" => issued[t].ident[2] = issued[t].user
    /\ \A p \in Threads : req[p].pc \in {"accepted", "again", "remove"} =>
          LET i == issued[req[p].tok] IN
          req[p].ident = Subject(i.ident) /\ req[p].bind = i.bind

(* The two requests that may end session t, both of which present it: an   *)
(* exchange, by whoever has credentials that the reader accepted (it takes *)
(* the former token out without asking where that token was issued), and   *)
(* a revocation, from the address and the user agent of the session.       *)
Dropped(p, t) ==
    /\ req[p].tok = t
    /\ \/ /\ req[p].pc = "commit" /\ req[p].vouched \in Users
          /\ req'[p].pc = "issued"
       \/ /\ req[p].pc = "remove" /\ SameBinding(sessions[t], req[p])
          /\ req'[p].pc = "revoked"

(* A session that has not expired leaves the table only when a request     *)
(* that presents its token rotates it (from anywhere, with credentials     *)
(* that the reader accepts) or revokes it (from where it was issued), when *)
(* the table is full, or with the process.  Nothing else ends it: not a    *)
(* request with another token, not a stranger who presents it without      *)
(* credentials, and not a handler that works with an old time.             *)
NoEarlyDrop ==
    [][\A t \in DOMAIN sessions \ DOMAIN sessions' :
          \/ sessions[t].expires_at <= clock
          \/ \E p \in Threads : Dropped(p, t)
          \/ Cardinality(DOMAIN sessions') = MaxEntries
          \/ Restart]_vars

=============================================================================
