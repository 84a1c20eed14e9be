------------------------------- MODULE OAuth -------------------------------
(***************************************************************************)
(* The authorization server of `mt mcp` (src/src/mcp/oauth.rs) and its     *)
(* clients: registration, the login form, authorization codes, access and  *)
(* refresh tokens, over requests that run at once, answers that get lost,  *)
(* a clock that may be set and a server that may stop at any point.        *)
(*                                                                         *)
(* What a request carries is a member of Queries, [client, uri, challenge];*)
(* a verifier is named by its challenge.  Scope, state and resource are    *)
(* passed through and left out.  The n-th code is code n and the n-th pair *)
(* of tokens is access token n and refresh token n: 256 random bits do not *)
(* repeat.                                                                 *)
(*                                                                         *)
(* A SQLite transaction reads a snapshot: its first write fails when       *)
(* another connection committed since, and no one commits between that     *)
(* write and its own commit.  Every commit marks the open transactions.    *)
(***************************************************************************)
EXTENDS Integers, Sequences, FiniteSets

CONSTANTS
    Client,         \* client registrations that may be made
    NoClient,       \* a refresh request that names no client
    Queries,        \* the parameters of authorize and token requests
    Redirects,      \* the redirect URIs each client registers
    ValidUris,      \* those validate_redirect_uri accepts
    Slot,           \* requests to /oauth/token served at once
    CodeTTL, AccessTTL, RefreshTTL, CsrfTTL,
    MaxNow,         \* bound on the clock
    MaxForms,       \* bound on the login forms rendered
    MaxCodes,       \* bound on the codes issued
    MaxGrants,      \* bound on the pairs of tokens issued
    MaxProcess      \* bound on the starts of the server

ASSUME OAuthAssumption ==
    /\ NoClient \notin Client
    /\ \A q \in Queries : q.client \in Client
    /\ MaxNow \in Nat
    /\ CodeTTL \in Nat /\ AccessTTL \in Nat /\ RefreshTTL \in Nat /\ CsrfTTL \in Nat

VARIABLES
    now,            \* the clock
    process,        \* which start of the server is running: it owns a csrf key
    clients,        \* oauth_clients
    forms,          \* login forms in browsers: [key, ts, query]
    codes,          \* oauth_authorization_codes: [query, expires, used]
    access,         \* oauth_access_tokens: [client, expires] by token
    refresh,        \* oauth_refresh_tokens, likewise
    requests,       \* what each slot is serving
    held,           \* the grant each client received last, 0 for none
    grants,         \* history: [source, login, client] of every pair issued
    lost            \* history: the grants whose answer never arrived

tables == <<clients, codes, access, refresh>>
vars == <<now, process, forms, requests, held, grants, lost, tables>>

Idle == [stage |-> "idle"]
FromCode(n) == <<"code", n>>
FromRefresh(n) == <<"refresh", n>>

(* Another connection commits while these requests are served. *)
Overtaken(served) ==
    [s \in Slot |->
       IF served[s].stage # "checked" THEN served[s]
       ELSE [stage |-> "checked", source |-> served[s].source, client |-> served[s].client,
             overtaken |-> TRUE]]

Remove(f, key) == [k \in DOMAIN f \ {key} |-> f[k]]
With(f, key, row) == [k \in DOMAIN f \cup {key} |-> IF k = key THEN row ELSE f[k]]

Init ==
    /\ now = 0 /\ process = 1
    /\ clients = {} /\ forms = {} /\ codes = <<>>
    /\ access = <<>> /\ refresh = <<>>
    /\ requests = [s \in Slot |-> Idle]
    /\ held = [c \in Client |-> 0]
    /\ grants = <<>> /\ lost = {}

-----------------------------------------------------------------------------
(* Registration and login. *)

(* At least one redirect URI, and every one acceptable. *)
Register(c) ==
    /\ c \notin clients
    /\ Redirects[c] # {} /\ Redirects[c] \subseteq ValidUris
    /\ clients' = clients \cup {c}
    /\ requests' = Overtaken(requests)
    /\ UNCHANGED <<now, process, forms, codes, access, refresh, held, grants, lost>>

(* `validate_authorize_request` *)
Acceptable(query) == query.client \in clients /\ query.uri \in Redirects[query.client]

Form(query) == [key |-> process, ts |-> now, query |-> query]

AuthorizeGet(query) ==
    /\ Cardinality(forms) < MaxForms /\ Len(codes) < MaxCodes
    /\ Acceptable(query)
    /\ forms' = forms \cup {Form(query)}
    /\ UNCHANGED <<now, process, requests, held, grants, lost, tables>>

(* `csrf_verify`: signed by this process for these parameters, not from    *)
(* the future and not too old.                                             *)
CsrfValid(form, query) ==
    /\ form.key = process
    /\ form.query = query
    /\ now - form.ts \in 0 .. CsrfTTL

(* A form is submitted, with the password or with a wrong one: the browser *)
(* goes back to the client with a code, or shows a new form.               *)
AuthorizePost(form, query) ==
    /\ Len(codes) < MaxCodes
    /\ Acceptable(query)
    /\ CsrfValid(form, query)
    /\ \/ /\ codes' = Append(codes, [query |-> query, expires |-> now + CodeTTL, used |-> FALSE])
          /\ requests' = Overtaken(requests)
          /\ forms' = forms \ {form}
       \/ /\ forms' = (forms \ {form}) \cup {Form(query)}
          /\ UNCHANGED <<codes, requests>>
    /\ UNCHANGED <<now, process, clients, access, refresh, held, grants, lost>>

-----------------------------------------------------------------------------
(* The token endpoint. *)

(* A client redeems a code, perhaps again before the first answer, perhaps *)
(* with the verifier of another login it started.                          *)
SendCode(s, n, query) ==
    /\ requests[s] = Idle
    /\ n \in DOMAIN codes
    /\ requests' = [requests EXCEPT ![s] =
          [stage |-> "sent", source |-> FromCode(n), client |-> query.client, query |-> query]]
    /\ UNCHANGED <<now, process, forms, held, grants, lost, tables>>

(* A client presents the refresh token it holds, naming a registration of  *)
(* its own (perhaps a newer one) or none.                                  *)
SendRefresh(s, c, named) ==
    /\ requests[s] = Idle
    /\ held[c] # 0
    /\ requests' = [requests EXCEPT ![s] =
          [stage |-> "sent", source |-> FromRefresh(held[c]), client |-> c, named |-> named]]
    /\ UNCHANGED <<now, process, forms, held, grants, lost, tables>>

(* Mutant: the code of one registration is redeemed by another. *)
CodeRedeemableByAny(request) ==
    LET row == codes[request.source[2]]
    IN  /\ ~row.used
        /\ row.query.uri = request.query.uri
        /\ ~(row.expires < now)
        /\ row.query.challenge = request.query.challenge

CodeRedeemable(request) ==
    LET row == codes[request.source[2]]
    IN  /\ ~row.used
        /\ row.query.client = request.query.client
        /\ row.query.uri = request.query.uri
        /\ ~(row.expires < now)
        /\ row.query.challenge = request.query.challenge

RefreshRedeemable(request) ==
    /\ request.source[2] \in DOMAIN refresh
    /\ ~(refresh[request.source[2]].expires < now)
    /\ request.named \in {NoClient, refresh[request.source[2]].client}

Redeemable(request) ==
    \/ request.source[1] = "code" /\ CodeRedeemable(request)
    \/ request.source[1] = "refresh" /\ RefreshRedeemable(request)

(* Mutant: a refresh token is deleted as soon as it is found. *)
CheckBurns(s) ==
    /\ requests[s].stage = "sent"
    /\ requests' = [requests EXCEPT ![s] =
          IF ~Redeemable(@) THEN Idle
          ELSE [stage |-> "checked", source |-> @.source, client |-> @.client,
                overtaken |-> FALSE]]
    /\ refresh' = IF Redeemable(requests[s]) /\ requests[s].source[1] = "refresh"
                  THEN Remove(refresh, requests[s].source[2]) ELSE refresh
    /\ UNCHANGED <<now, process, forms, held, grants, lost, clients, codes, access>>

(* The transaction begins, reads the row and decides. *)
Check(s) ==
    /\ requests[s].stage = "sent"
    /\ requests' = [requests EXCEPT ![s] =
          IF ~Redeemable(@) THEN Idle
          ELSE [stage |-> "checked", source |-> @.source, client |-> @.client,
                overtaken |-> FALSE]]
    /\ UNCHANGED <<now, process, forms, held, grants, lost, tables>>

(* The client of the new rows: the one the request names with its code, or *)
(* the one the refresh token was issued to.                                *)
ClientOf(request) ==
    IF request.source[1] = "code" THEN request.client ELSE refresh[request.source[2]].client

LoginOf(source) == IF source[1] = "code" THEN source[2] ELSE grants[source[2]].login

(* Mutant: the check is not part of the transaction that burns the code. *)
NoTransaction(request) == TRUE

(* What the transaction read still holds when it writes. *)
Undisturbed(request) == ~request.overtaken

(* Mutant: the old refresh token stays in the table. *)
Kept(source) == refresh

(* "Rotate: invalidate the presented refresh token". *)
Rotated(source) == IF source[1] = "refresh" THEN Remove(refresh, source[2]) ELSE refresh

NewPair == Len(grants) + 1

(* The code is burnt or the refresh token deleted, a new pair inserted,    *)
(* all in the transaction of the check.                                    *)
Commit(s) ==
    LET request == requests[s]
        source == request.source
        pair == NewPair
        row(ttl) == [client |-> ClientOf(request), expires |-> now + ttl]
    IN  /\ request.stage = "checked"
        /\ Undisturbed(request)
        /\ pair <= MaxGrants
        /\ codes' = IF source[1] = "code" THEN [codes EXCEPT ![source[2]].used = TRUE]
                    ELSE codes
        /\ access' = With(access, pair, row(AccessTTL))
        /\ refresh' = With(Rotated(source), pair, row(RefreshTTL))
        /\ grants' = Append(grants, [source |-> source, login |-> LoginOf(source),
                                     client |-> ClientOf(request)])
        /\ requests' = [Overtaken(requests) EXCEPT ![s] =
              [stage |-> "granted", grant |-> pair, client |-> request.client]]
        /\ UNCHANGED <<now, process, clients, forms, held, lost>>

(* The database is busy, or changed since the check: server_error. *)
Fail(s) ==
    /\ requests[s].stage \in {"sent", "checked"}
    /\ requests' = [requests EXCEPT ![s] = Idle]
    /\ UNCHANGED <<now, process, forms, held, grants, lost, tables>>

Answer(s) ==
    /\ requests[s].stage = "granted"
    /\ held' = [held EXCEPT ![requests[s].client] = requests[s].grant]
    /\ requests' = [requests EXCEPT ![s] = Idle]
    /\ UNCHANGED <<now, process, forms, grants, lost, tables>>

LoseAnswer(s) ==
    /\ requests[s].stage = "granted"
    /\ lost' = lost \cup {requests[s].grant}
    /\ requests' = [requests EXCEPT ![s] = Idle]
    /\ UNCHANGED <<now, process, forms, held, grants, tables>>

-----------------------------------------------------------------------------
(* The rest of the server. *)

(* `validate_access_token` meets an expired token and deletes it. *)
PruneExpired(t) ==
    /\ t \in DOMAIN access
    /\ access[t].expires < now
    /\ access' = Remove(access, t)
    /\ requests' = Overtaken(requests)
    /\ UNCHANGED <<now, process, clients, forms, codes, refresh, held, grants, lost>>

(* The process stops at any point: open transactions roll back, answers on *)
(* the way are lost, and the next process has a csrf key of its own.       *)
Restart ==
    /\ process < MaxProcess
    /\ process' = process + 1
    /\ lost' = lost \cup {requests[s].grant : s \in {r \in Slot : requests[r].stage = "granted"}}
    /\ requests' = [s \in Slot |-> Idle]
    /\ UNCHANGED <<now, forms, held, grants, tables>>

SetClock(t) ==
    /\ t # now
    /\ now' = t
    /\ UNCHANGED <<process, forms, requests, held, grants, lost, tables>>

Next ==
    \/ \E c \in Client : Register(c)
    \/ \E query \in Queries : AuthorizeGet(query)
    \/ \E form \in forms, query \in Queries : AuthorizePost(form, query)
    \/ \E s \in Slot, n \in 1 .. MaxCodes, query \in Queries : SendCode(s, n, query)
    \/ \E s \in Slot, c \in Client, named \in Client \cup {NoClient} : SendRefresh(s, c, named)
    \/ \E s \in Slot : Check(s) \/ Commit(s) \/ Fail(s) \/ Answer(s) \/ LoseAnswer(s)
    \/ \E t \in DOMAIN access : PruneExpired(t)
    \/ Restart
    \/ \E t \in 0 .. MaxNow : SetClock(t)

Spec == Init /\ [][Next]_vars

-----------------------------------------------------------------------------

(* A code, and a refresh token, is exchanged for tokens at most once,      *)
(* however many requests present it at the same time: "otherwise a racing  *)
(* duplicate /token call could replay the same code".                      *)
GrantedOnce ==
    \A m, n \in DOMAIN grants : grants[m].source = grants[n].source => m = n

(* Rotation replaces: of all the refresh tokens that stem from one code at *)
(* most one is in the table, and none while the code is unused.            *)
OneLinePerLogin ==
    /\ \A m, n \in DOMAIN refresh : grants[m].login = grants[n].login => m = n
    /\ \A n \in DOMAIN grants : codes[grants[n].login].used

(* The refresh token a client received last works until it expires: it is  *)
(* in the table, or has been rotated by a request of the client's own      *)
(* whose answer is on the way or was lost.                                 *)
HeldIsCurrent ==
    \A c \in Client :
        \/ held[c] \in {0} \cup DOMAIN refresh
        \/ \E n \in DOMAIN grants :
              /\ grants[n].source = FromRefresh(held[c])
              /\ \/ n \in lost
                 \/ \E s \in Slot : requests[s].stage = "granted" /\ requests[s].grant = n

(* A grant belongs to the registration that asked for the login, through   *)
(* any number of rotations.                                                *)
GrantKeepsClient ==
    /\ \A n \in DOMAIN grants : grants[n].client = codes[grants[n].login].query.client
    /\ \A c \in Client : held[c] # 0 => grants[held[c]].client = c
=============================================================================
