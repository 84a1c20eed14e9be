---------------------------- MODULE OAuthProofs ----------------------------
(***************************************************************************)
(* Whatever the clients, requests, lifetimes and bounds are: every code    *)
(* and every refresh token is exchanged at most once, and a login has at   *)
(* most one refresh token in the table.                                    *)
(***************************************************************************)
EXTENDS OAuth, TLAPS

Sources == {"code", "refresh"} \X Nat
Grant == [source : Sources, login : Nat, client : Client]
Code == [query : Queries, expires : Int, used : BOOLEAN]

(* What the argument needs of the types. *)
Shape ==
    /\ grants \in Seq(Grant)
    /\ codes \in Seq(Code)
    /\ DOMAIN refresh \subseteq DOMAIN grants
    /\ now \in Int
    /\ requests = [s \in Slot |-> requests[s]]
    /\ held = [c \in Client |-> held[c]]

(* What was exchanged can not be exchanged again. *)
Spent ==
    \A n \in DOMAIN grants :
        /\ grants[n].login \in DOMAIN codes
        /\ codes[grants[n].login].used
        /\ grants[n].source[1] = "code" => grants[n].source[2] = grants[n].login
        /\ grants[n].source[1] = "refresh" =>
              grants[n].source[2] \in DOMAIN grants \ DOMAIN refresh

(* A transaction that may still commit holds something to exchange. *)
Exchanges(s) ==
    LET source == requests[s].source
    IN  \/ source[1] = "code" /\ source[2] \in DOMAIN codes /\ ~codes[source[2]].used
        \/ source[1] = "refresh" /\ source[2] \in DOMAIN refresh

(* Grant n is one of client c. *)
Owns(c, n) == n \in DOMAIN grants /\ grants[n].client = c

(* What a request asks for, holds or is about to deliver is its client's. *)
Asks(s) ==
    LET source == requests[s].source
    IN  /\ source \in Sources /\ requests[s].client \in Client
        /\ source[1] = "refresh" => Owns(requests[s].client, source[2])
        /\ source[1] = "code" => source[2] \in DOMAIN codes

Fits(s) ==
    /\ requests[s].stage \in {"sent", "checked"} => Asks(s)
    /\ requests[s].stage = "sent" /\ requests[s].source[1] = "code" =>
          requests[s].query.client = requests[s].client
    /\ requests[s].stage = "checked" /\ requests[s].source[1] = "code" =>
          codes[requests[s].source[2]].query.client = requests[s].client
    /\ requests[s].stage = "checked" /\ ~requests[s].overtaken => Exchanges(s)
    /\ requests[s].stage = "granted" => Owns(requests[s].client, requests[s].grant)

Holding == \A s \in Slot : Fits(s)

(* What is issued, stored and received stays with the client of the login. *)
Belongs ==
    /\ \A n \in DOMAIN grants : grants[n].client = codes[grants[n].login].query.client
    /\ \A t \in DOMAIN refresh : refresh[t].client = grants[t].client
    /\ \A c \in Client : held[c] = 0 \/ Owns(c, held[c])

Lines == \A m, n \in DOMAIN refresh : grants[m].login = grants[n].login => m = n

IInv == Shape /\ Spent /\ Holding /\ Belongs /\ GrantedOnce /\ Lines

-----------------------------------------------------------------------------

(* The length and the domain of a sequence. *)
LEMMA SeqFacts ==
    ASSUME NEW S, NEW q \in Seq(S)
    PROVE  /\ Len(q) \in Nat
           /\ DOMAIN q = 1 .. Len(q)
           /\ \A n \in DOMAIN q : q[n] \in S
  OBVIOUS

(* Append stays within the element set and adds one index. *)
LEMMA AppendFacts ==
    ASSUME NEW S, NEW q \in Seq(S), NEW e \in S
    PROVE  /\ Append(q, e) \in Seq(S)
           /\ DOMAIN Append(q, e) = DOMAIN q \cup {Len(q) + 1}
           /\ Append(q, e)[Len(q) + 1] = e
           /\ \A n \in DOMAIN q : Append(q, e)[n] = q[n]
           /\ Len(q) + 1 \notin DOMAIN q
  OBVIOUS

(* What replacing an element of a sequence leaves. *)
LEMMA ReplaceFacts ==
    ASSUME NEW S, NEW q \in Seq(S), NEW k \in DOMAIN q, NEW e \in S
    PROVE  /\ [q EXCEPT ![k] = e] \in Seq(S)
           /\ DOMAIN [q EXCEPT ![k] = e] = DOMAIN q
           /\ [q EXCEPT ![k] = e][k] = e
           /\ \A n \in DOMAIN q : n # k => [q EXCEPT ![k] = e][n] = q[n]
  OBVIOUS

(* What Shape says of every grant and every request, one at a time. *)
LEMMA ShapeFacts ==
    ASSUME Shape
    PROVE  /\ \A n \in DOMAIN grants : /\ grants[n] \in Grant
                                      /\ grants[n].source \in Sources
                                      /\ grants[n].login \in Nat
                                      /\ grants[n].client \in Client
           /\ \A n \in DOMAIN codes : codes[n] \in Code
           /\ DOMAIN codes \subseteq Nat /\ DOMAIN grants \subseteq Nat
  <1>1. grants \in Seq(Grant) /\ codes \in Seq(Code) BY DEF Shape
  <1>2. /\ \A n \in DOMAIN grants : grants[n] \in Grant
        /\ \A n \in DOMAIN codes : codes[n] \in Code
        /\ DOMAIN codes = 1 .. Len(codes) /\ DOMAIN grants = 1 .. Len(grants)
    BY <1>1, SeqFacts
  <1>3. \A n \in DOMAIN grants : /\ grants[n].source \in Sources
                                 /\ grants[n].login \in Nat
                                 /\ grants[n].client \in Client
    BY <1>2 DEF Grant
  <1>4. QED BY <1>2, <1>3

(* The invariant holds before the first authorization. *)
LEMMA InitInv == Init => IInv
  BY DEF Init, IInv, Shape, Spent, Holding, Fits, Belongs, GrantedOnce, Lines, Idle

(* Only requests change, and what clients received. *)
LEMMA QuietInv ==
    ASSUME IInv, UNCHANGED <<codes, refresh, grants>>, now' \in Int,
           requests' = [s \in Slot |-> requests'[s]],
           held' = [c \in Client |-> held'[c]],
           \A s \in Slot : Fits(s)',
           \A c \in Client : held'[c] = held[c] \/ Owns(c, held'[c])
    PROVE  IInv'
  <1>1. Shape' BY DEF IInv, Shape
  <1>2. Spent' BY DEF IInv, Spent
  <1>3. Holding' BY DEF Holding
  <1>4. GrantedOnce' BY DEF IInv, GrantedOnce
  <1>5. Lines' BY DEF IInv, Lines
  <1>6. Belongs' BY DEF IInv, Belongs, Owns
  <1>7. QED BY <1>1, <1>2, <1>3, <1>4, <1>5, <1>6 DEF IInv

(* A request that nothing happens to still fits. *)
LEMMA SameFits ==
    ASSUME UNCHANGED <<codes, refresh, grants>>, NEW s \in Slot, Fits(s),
           requests'[s] = requests[s]
    PROVE  Fits(s)'
  BY DEF Fits, Asks, Owns, Exchanges

(* A step that leaves the tokens, the grants and the requests alone keeps the invariant. *)
LEMMA UnchangedInv ==
    ASSUME IInv, UNCHANGED <<codes, refresh, grants, requests, held>>, now' \in Int
    PROVE  IInv'
  <1>1. Holding /\ Shape BY DEF IInv
  <1>2. \A s \in Slot : Fits(s)' BY <1>1, SameFits DEF Holding
  <1>3. QED BY <1>1, <1>2, QuietInv DEF Shape

(* An overtaken request fits what grows.  It only lost the right to commit. *)
LEMMA OvertakenFits ==
    ASSUME NEW s \in Slot, Fits(s), requests'[s] = Overtaken(requests)[s],
           DOMAIN codes \subseteq DOMAIN codes',
           \A n \in DOMAIN codes : codes'[n].query = codes[n].query,
           DOMAIN grants \subseteq DOMAIN grants',
           \A n \in DOMAIN grants : grants'[n] = grants[n]
    PROVE  Fits(s)'
  <1>1. CASE requests[s].stage # "checked"
    <2>1. requests'[s] = requests[s] BY <1>1 DEF Overtaken
    <2>2. QED BY <1>1, <2>1 DEF Fits, Asks, Owns
  <1>2. CASE requests[s].stage = "checked"
    <2>1. /\ requests'[s].stage = "checked" /\ requests'[s].overtaken
          /\ requests'[s].source = requests[s].source
          /\ requests'[s].client = requests[s].client
      BY <1>2 DEF Overtaken
    <2>2. QED BY <1>2, <2>1 DEF Fits, Asks, Owns
  <1>3. QED BY <1>1, <1>2

(* Something commits that touches neither codes nor refresh tokens. *)
LEMMA OvertakenInv ==
    ASSUME IInv, UNCHANGED <<codes, refresh, grants, now, held>>,
           requests' = Overtaken(requests)
    PROVE  IInv'
  <1>1. Holding /\ Shape BY DEF IInv
  <1>2. \A s \in Slot : Fits(s)' BY <1>1, OvertakenFits DEF Holding
  <1>3. requests' = [s \in Slot |-> requests'[s]] BY DEF Overtaken
  <1>4. QED BY <1>1, <1>2, <1>3, QuietInv DEF Shape

(* One request moves, and changes nothing but what a client received. *)
LEMMA RequestInv ==
    ASSUME IInv, UNCHANGED <<codes, refresh, grants, now>>, NEW s \in Slot, NEW r,
           requests' = [requests EXCEPT ![s] = r],
           requests'[s] = r => Fits(s)',
           held' = [c \in Client |-> held'[c]],
           \A c \in Client : held'[c] = held[c] \/ Owns(c, held'[c])
    PROVE  IInv'
  <1>1. Holding /\ Shape BY DEF IInv
  <1>2. /\ requests' = [t \in Slot |-> requests'[t]]
        /\ requests'[s] = r
        /\ \A t \in Slot : t # s => requests'[t] = requests[t]
    BY <1>1 DEF Shape
  <1>3. \A t \in Slot : Fits(t)' BY <1>1, <1>2, SameFits DEF Holding
  <1>4. QED BY <1>1, <1>2, <1>3, QuietInv DEF Shape

(* The form: a new code, which nobody has presented yet. *)
LEMMA AuthorizePostInv ==
    ASSUME IInv, NEW form, NEW query \in Queries, AuthorizePost(form, query)
    PROVE  IInv'
  <1> DEFINE code == [query |-> query, expires |-> now + CodeTTL, used |-> FALSE]
  <1>1. CASE codes' = Append(codes, code) /\ requests' = Overtaken(requests)
    <2>1. code \in Code BY OAuthAssumption DEF Code, IInv, Shape
    <2>2. codes \in Seq(Code) BY DEF IInv, Shape
    <2>3. UNCHANGED <<refresh, grants, now, held>> BY DEF AuthorizePost
    <2> HIDE DEF code
    <2>4. /\ codes' \in Seq(Code)
          /\ DOMAIN codes \subseteq DOMAIN codes'
          /\ \A n \in DOMAIN codes : codes'[n] = codes[n]
      BY <1>1, <2>1, <2>2, AppendFacts
    <2>5. requests' = [s \in Slot |-> requests'[s]] BY <1>1 DEF Overtaken
    <2>6. Shape' BY <2>3, <2>4, <2>5 DEF IInv, Shape
    <2>7. Spent' BY <2>3, <2>4 DEF IInv, Spent
    <2>8. Holding' BY <1>1, <2>3, <2>4, OvertakenFits DEF IInv, Holding
    <2>9. GrantedOnce' /\ Lines' BY <2>3 DEF IInv, GrantedOnce, Lines
    <2>10. Belongs' BY <2>3, <2>4 DEF IInv, Belongs, Spent, Owns
    <2>11. QED BY <2>6, <2>7, <2>8, <2>9, <2>10 DEF IInv
  <1>2. CASE UNCHANGED <<codes, requests>>
    BY <1>2, UnchangedInv DEF AuthorizePost, IInv, Shape
  <1>3. QED BY <1>1, <1>2 DEF AuthorizePost

(* A request with a code reaches the server. *)
LEMMA SendCodeInv ==
    ASSUME IInv, NEW s \in Slot, NEW n, NEW query \in Queries, SendCode(s, n, query)
    PROVE  IInv'
  <1> DEFINE r == [stage |-> "sent", source |-> FromCode(n), client |-> query.client,
                   query |-> query]
  <1>1. /\ UNCHANGED <<codes, refresh, grants, now, held>>
        /\ requests' = [requests EXCEPT ![s] = r]
        /\ n \in DOMAIN codes
    BY DEF SendCode, tables
  <1>2. n \in Nat BY <1>1, ShapeFacts DEF IInv
  <1>3. /\ r.stage = "sent" /\ r.source \in Sources /\ r.client \in Client
        /\ r.source[1] = "code" /\ r.source[2] = n /\ r.query.client = r.client
    BY <1>2, OAuthAssumption DEF FromCode, Sources
  <1> HIDE DEF r
  <1>4. requests'[s] = r => Fits(s)' BY <1>1, <1>3 DEF Fits, Asks
  <1>5. QED BY <1>1, <1>4, RequestInv DEF IInv, Shape

(* A request with the refresh token the client holds. *)
LEMMA SendRefreshInv ==
    ASSUME IInv, NEW s \in Slot, NEW c \in Client, NEW named, SendRefresh(s, c, named)
    PROVE  IInv'
  <1> DEFINE r == [stage |-> "sent", source |-> FromRefresh(held[c]), client |-> c,
                   named |-> named]
  <1>1. /\ UNCHANGED <<codes, refresh, grants, now, held>>
        /\ requests' = [requests EXCEPT ![s] = r]
        /\ held[c] # 0
    BY DEF SendRefresh, tables
  <1>2. Owns(c, held[c]) BY <1>1 DEF IInv, Belongs
  <1>3. held[c] \in Nat BY <1>2, ShapeFacts DEF IInv, Owns
  <1>4. /\ r.stage = "sent" /\ r.source \in Sources /\ r.client = c
        /\ r.source[1] = "refresh" /\ r.source[2] = held[c]
    BY <1>3 DEF FromRefresh, Sources
  <1> HIDE DEF r
  <1>5. requests'[s] = r => Fits(s)' BY <1>1, <1>2, <1>4 DEF Fits, Asks, Owns
  <1>6. QED BY <1>1, <1>5, RequestInv DEF IInv, Shape

(* The first half of the exchange: the row is read, not yet written. *)
LEMMA CheckInv ==
    ASSUME IInv, NEW s \in Slot, Check(s)
    PROVE  IInv'
  <1> DEFINE r == [stage |-> "checked", source |-> requests[s].source,
                   client |-> requests[s].client, overtaken |-> FALSE]
  <1>1. /\ UNCHANGED <<codes, refresh, grants, now, held>>
        /\ requests[s].stage = "sent"
    BY DEF Check, tables
  <1>2. CASE ~Redeemable(requests[s])
    <2>1. requests' = [requests EXCEPT ![s] = Idle] BY <1>2 DEF Check
    <2>2. requests'[s] = Idle => Fits(s)' BY DEF Idle, Fits
    <2>3. QED BY <1>1, <2>1, <2>2, RequestInv DEF IInv, Shape
  <1>3. CASE Redeemable(requests[s])
    <2>1. requests' = [requests EXCEPT ![s] = r] BY <1>3 DEF Check
    <2>2. /\ r.stage = "checked" /\ r.source = requests[s].source
          /\ r.client = requests[s].client /\ ~r.overtaken
      OBVIOUS
    <2> HIDE DEF r
    <2>3. /\ Asks(s)
          /\ requests[s].source[1] = "code" => requests[s].query.client = requests[s].client
      BY <1>1 DEF IInv, Holding, Fits
    <2>4. /\ requests[s].source[1] = "code" =>
                /\ ~codes[requests[s].source[2]].used
                /\ codes[requests[s].source[2]].query.client = requests[s].query.client
          /\ requests[s].source[1] = "refresh" => requests[s].source[2] \in DOMAIN refresh
          /\ requests[s].source[1] \in {"code", "refresh"}
      BY <1>3 DEF Redeemable, CodeRedeemable, RefreshRedeemable
    <2>5. requests'[s] = r => Fits(s)'
      BY <1>1, <2>2, <2>3, <2>4 DEF Fits, Asks, Owns, Exchanges
    <2>6. QED BY <1>1, <2>1, <2>5, RequestInv DEF IInv, Shape
  <1>4. QED BY <1>2, <1>3

(* A client receives the tokens it was granted. *)
LEMMA AnswerInv ==
    ASSUME IInv, NEW s \in Slot, Answer(s)
    PROVE  IInv'
  <1>1. /\ UNCHANGED <<codes, refresh, grants, now>>
        /\ requests[s].stage = "granted"
        /\ requests' = [requests EXCEPT ![s] = Idle]
        /\ held' = [held EXCEPT ![requests[s].client] = requests[s].grant]
    BY DEF Answer, tables
  <1>2. Owns(requests[s].client, requests[s].grant)
    BY <1>1 DEF IInv, Holding, Fits
  <1>3. requests'[s] = Idle => Fits(s)' BY DEF Idle, Fits
  <1>4. held = [c \in Client |-> held[c]] BY DEF IInv, Shape
  <1>5. /\ held' = [c \in Client |-> held'[c]]
        /\ \A c \in Client : \/ held'[c] = held[c]
                             \/ c = requests[s].client /\ held'[c] = requests[s].grant
    BY <1>1, <1>4
  <1>6. \A c \in Client : held'[c] = held[c] \/ Owns(c, held'[c])
    BY <1>2, <1>5
  <1>7. QED BY <1>1, <1>3, <1>5, <1>6, RequestInv

(* The second half: the guarded update, and the grant if it hit a row. *)
LEMMA CommitInv ==
    ASSUME IInv, NEW s \in Slot, Commit(s)
    PROVE  IInv'
  <1> DEFINE request == requests[s]
             source == request.source
             pair == Len(grants) + 1
             entry == [source |-> source, login |-> LoginOf(source), client |-> ClientOf(request)]
  <1>0. Fits(s) /\ request.stage = "checked" /\ ~request.overtaken
    BY DEF Commit, Undisturbed, IInv, Holding
  <1>1. source \in Sources /\ request.client \in Client
    BY <1>0 DEF Fits, Asks
  <1>2. \/ /\ source[1] = "code" /\ source[2] \in DOMAIN codes
           /\ ~codes[source[2]].used
           /\ codes[source[2]].query.client = request.client
        \/ /\ source[1] = "refresh" /\ source[2] \in DOMAIN refresh
           /\ source[2] \in DOMAIN grants
           /\ grants[source[2]].client = request.client
           /\ refresh[source[2]].client = request.client
    <2>1. CASE source[1] = "code"
      BY <1>0, <2>1 DEF Fits, Exchanges
    <2>2. CASE source[1] = "refresh"
      BY <1>0, <2>2 DEF Fits, Exchanges, Asks, Owns, IInv, Belongs
    <2>3. QED BY <1>0, <2>1, <2>2 DEF Fits, Exchanges
  <1>3. /\ grants' = Append(grants, entry)
        /\ refresh' = With(Rotated(source), pair,
                          [client |-> ClientOf(request), expires |-> now + RefreshTTL])
        /\ codes' = IF source[1] = "code" THEN [codes EXCEPT ![source[2]].used = TRUE] ELSE codes
        /\ now' = now /\ held' = held
        /\ requests' = [Overtaken(requests) EXCEPT ![s] =
              [stage |-> "granted", grant |-> pair, client |-> request.client]]
    BY DEF Commit, NewPair
  <1>4. ClientOf(request) = request.client /\ LoginOf(source) \in Nat
    <2>1. CASE source[1] = "code"
      BY <1>1, <2>1 DEF ClientOf, LoginOf, Sources
    <2>2. CASE source[1] = "refresh"
      BY <1>2, <2>2, ShapeFacts DEF ClientOf, LoginOf, IInv
    <2>3. QED BY <1>2, <2>1, <2>2
  <1>5. entry \in Grant
    BY <1>1, <1>4 DEF Grant
  <1>6. /\ grants' \in Seq(Grant)
        /\ DOMAIN grants' = DOMAIN grants \cup {pair}
        /\ grants'[pair] = entry
        /\ \A n \in DOMAIN grants : grants'[n] = grants[n]
        /\ pair \notin DOMAIN grants
    <2>1. grants \in Seq(Grant) BY DEF IInv, Shape
    <2> HIDE DEF entry
    <2>2. QED BY <1>3, <1>5, <2>1, AppendFacts
  <1>7. /\ codes' \in Seq(Code)
        /\ DOMAIN codes' = DOMAIN codes
        /\ \A n \in DOMAIN codes : codes[n].used => codes'[n].used
        /\ \A n \in DOMAIN codes : codes'[n].query = codes[n].query
        /\ source[1] = "code" => codes'[source[2]].used
    <2>1. CASE source[1] = "code" /\ source[2] \in DOMAIN codes
      <3> DEFINE row == codes[source[2]]
      <3>1. row \in Code /\ codes \in Seq(Code)
        BY <2>1, ShapeFacts DEF IInv, Shape
      <3>2. /\ [row EXCEPT !.used = TRUE] \in Code
            /\ [row EXCEPT !.used = TRUE].used
            /\ [row EXCEPT !.used = TRUE].query = row.query
        BY <3>1 DEF Code
      <3>3. codes' = [codes EXCEPT ![source[2]] = [row EXCEPT !.used = TRUE]]
        BY <1>3, <2>1
      <3> DEFINE burnt == [row EXCEPT !.used = TRUE]
      <3>4. codes' = [codes EXCEPT ![source[2]] = burnt] /\ burnt \in Code /\ burnt.used
        BY <3>2, <3>3
      <3>7. burnt.query = codes[source[2]].query BY <3>2
      <3> HIDE DEF row, burnt, source
      <3>5. /\ codes' \in Seq(Code)
            /\ DOMAIN codes' = DOMAIN codes
            /\ codes'[source[2]] = burnt
            /\ \A n \in DOMAIN codes : n # source[2] => codes'[n] = codes[n]
        BY <2>1, <3>1, <3>4, ReplaceFacts
      <3>6. QED BY <3>4, <3>5, <3>7
    <2>2. CASE source[1] # "code"
      BY <1>3, <2>2 DEF IInv, Shape
    <2>3. QED BY <1>2, <2>1, <2>2
  <1>8. /\ DOMAIN refresh' = {pair} \cup
              (IF source[1] = "refresh" THEN DOMAIN refresh \ {source[2]} ELSE DOMAIN refresh)
        /\ refresh'[pair].client = ClientOf(request)
        /\ \A t \in DOMAIN refresh' : t # pair => refresh'[t] = refresh[t]
    BY <1>3 DEF With, Rotated, Remove
  <1>9. pair \notin DOMAIN grants /\ pair \notin DOMAIN refresh
    BY <1>6 DEF IInv, Shape
  <1>16. entry.source = source /\ entry.login = LoginOf(source) /\ entry.client = request.client
    BY <1>4
  <1>17. /\ requests'[s] = [stage |-> "granted", grant |-> pair, client |-> request.client]
         /\ requests' = [r \in Slot |-> requests'[r]]
         /\ \A r \in Slot : r # s => requests'[r] = Overtaken(requests)[r]
    BY <1>3 DEF Overtaken
  <1> HIDE DEF request, source, pair, entry
  <1>10. Shape'
    <2>1. DOMAIN refresh' \subseteq DOMAIN grants' BY <1>6, <1>8 DEF IInv, Shape
    <2>2. QED BY <1>3, <1>6, <1>7, <1>17, <2>1 DEF IInv, Shape
  <1>11. Spent'
    <2> SUFFICES ASSUME NEW n \in DOMAIN grants'
                 PROVE  /\ grants'[n].login \in DOMAIN codes'
                        /\ codes'[grants'[n].login].used
                        /\ grants'[n].source[1] = "code" =>
                              grants'[n].source[2] = grants'[n].login
                        /\ grants'[n].source[1] = "refresh" =>
                              grants'[n].source[2] \in DOMAIN grants' \ DOMAIN refresh'
      BY DEF Spent
    <2>1. CASE n \in DOMAIN grants
      BY <1>6, <1>7, <1>8, <1>9, <2>1 DEF IInv, Spent
    <2>2. CASE n = pair
      <3>1. grants'[n].source = source /\ grants'[n].login = LoginOf(source)
        BY <1>6, <1>16, <2>2
      <3>2. CASE source[1] = "code" /\ source[2] \in DOMAIN codes
        BY <1>7, <3>1, <3>2 DEF LoginOf
      <3>3. CASE source[1] = "refresh" /\ source[2] \in DOMAIN refresh
        <4>1. source[2] \in DOMAIN grants BY <3>3 DEF IInv, Shape
        <4>2. /\ grants[source[2]].login \in DOMAIN codes
              /\ codes[grants[source[2]].login].used
          BY <4>1 DEF IInv, Spent
        <4>3. QED BY <1>6, <1>7, <1>8, <1>9, <3>1, <3>3, <4>1, <4>2 DEF LoginOf
      <3>4. QED BY <1>2, <3>2, <3>3
    <2>3. QED BY <1>6, <2>1, <2>2
  <1>12. Holding'
    <2> SUFFICES ASSUME NEW r \in Slot PROVE Fits(r)'
      BY DEF Holding
    <2>1. CASE r = s
      BY <1>6, <1>16, <1>17, <2>1 DEF Fits, Owns
    <2>2. CASE r # s
      <3>1. Fits(r) /\ requests'[r] = Overtaken(requests)[r]
        BY <1>17, <2>2 DEF IInv, Holding
      <3>2. QED BY <1>6, <1>7, <3>1, OvertakenFits
    <2>3. QED BY <2>1, <2>2
  <1>18. Belongs'
    <2>1. \A n \in DOMAIN grants' :
             grants'[n].client = codes'[grants'[n].login].query.client
      <3> SUFFICES ASSUME NEW n \in DOMAIN grants'
                   PROVE  grants'[n].client = codes'[grants'[n].login].query.client
        OBVIOUS
      <3>1. CASE n \in DOMAIN grants
        BY <1>6, <1>7, <3>1 DEF IInv, Spent, Belongs
      <3>2. CASE n = pair
        <4>1. grants'[n].client = request.client /\ grants'[n].login = LoginOf(source)
          BY <1>6, <1>16, <3>2
        <4>2. LoginOf(source) \in DOMAIN codes
              /\ codes[LoginOf(source)].query.client = request.client
          BY <1>2 DEF LoginOf, IInv, Spent, Belongs
        <4>3. QED BY <1>7, <4>1, <4>2
      <3>3. QED BY <1>6, <3>1, <3>2
    <2>2. \A t \in DOMAIN refresh' : refresh'[t].client = grants'[t].client
      BY <1>4, <1>6, <1>8, <1>16 DEF IInv, Shape, Belongs
    <2>3. \A c \in Client : (held[c] = 0 \/ Owns(c, held[c]))'
      BY <1>3, <1>6 DEF IInv, Belongs, Owns
    <2>4. QED BY <2>1, <2>2, <2>3 DEF Belongs
  <1>13. GrantedOnce'
    <2>1. \A n \in DOMAIN grants : grants[n].source # source
      <3>1. SUFFICES ASSUME NEW n \in DOMAIN grants, grants[n].source = source PROVE FALSE
        OBVIOUS
      <3>2. CASE source[1] = "code" /\ ~codes[source[2]].used
        BY <3>1, <3>2 DEF IInv, Spent
      <3>3. CASE source[1] = "refresh" /\ source[2] \in DOMAIN refresh
        BY <3>1, <3>3 DEF IInv, Spent
      <3>4. QED BY <1>2, <3>2, <3>3
    <2>2. grants'[pair].source = source BY <1>6, <1>16
    <2>3. QED BY <1>6, <2>1, <2>2 DEF IInv, GrantedOnce
  <1>14. Lines'
    <2>1. \A t \in DOMAIN refresh' : t # pair => grants[t].login # LoginOf(source)
      <3>1. SUFFICES ASSUME NEW t \in DOMAIN refresh', t # pair,
                            grants[t].login = LoginOf(source)
                     PROVE  FALSE
        OBVIOUS
      <3>2. t \in DOMAIN refresh /\ t \in DOMAIN grants
        BY <1>8, <3>1 DEF IInv, Shape
      <3>3. CASE source[1] = "code" /\ ~codes[source[2]].used
        BY <3>1, <3>2, <3>3 DEF IInv, Spent, LoginOf
      <3>4. CASE source[1] = "refresh" /\ source[2] \in DOMAIN refresh
        BY <1>8, <3>1, <3>2, <3>4 DEF IInv, Lines, LoginOf
      <3>5. QED BY <1>2, <3>3, <3>4
    <2>2. grants'[pair].login = LoginOf(source) BY <1>6, <1>16
    <2>3. \A t \in DOMAIN refresh' : t # pair =>
             t \in DOMAIN refresh /\ t \in DOMAIN grants /\ grants'[t] = grants[t]
      BY <1>6, <1>8 DEF IInv, Shape
    <2>4. QED BY <2>1, <2>2, <2>3 DEF IInv, Lines
  <1>15. QED BY <1>10, <1>11, <1>12, <1>13, <1>14, <1>18 DEF IInv

(* Every step keeps the invariant, one case per action. *)
LEMMA StepInv == IInv /\ [Next]_vars => IInv'
  <1> SUFFICES ASSUME IInv, [Next]_vars PROVE IInv'
    OBVIOUS
  <1>0. Shape BY DEF IInv
  <1>1. ASSUME NEW c \in Client, Register(c) PROVE IInv'
    BY <1>1, OvertakenInv DEF Register
  <1>2. ASSUME NEW query \in Queries, AuthorizeGet(query) PROVE IInv'
    BY <1>0, <1>2, UnchangedInv DEF AuthorizeGet, tables, Shape
  <1>3. ASSUME NEW form \in forms, NEW query \in Queries, AuthorizePost(form, query)
        PROVE  IInv'
    BY <1>3, AuthorizePostInv
  <1>4. ASSUME NEW s \in Slot, NEW n \in 1 .. MaxCodes, NEW query \in Queries,
               SendCode(s, n, query)
        PROVE  IInv'
    BY <1>4, SendCodeInv
  <1>5. ASSUME NEW s \in Slot, NEW c \in Client, NEW named \in Client \cup {NoClient},
               SendRefresh(s, c, named)
        PROVE  IInv'
    BY <1>5, SendRefreshInv
  <1>6. ASSUME NEW s \in Slot, Check(s) PROVE IInv'
    BY <1>6, CheckInv
  <1>7. ASSUME NEW s \in Slot, Commit(s) PROVE IInv'
    BY <1>7, CommitInv
  <1>8. ASSUME NEW s \in Slot, Fail(s) \/ LoseAnswer(s) PROVE IInv'
    <2>1. /\ UNCHANGED <<codes, refresh, grants, now, held>>
          /\ requests' = [requests EXCEPT ![s] = Idle]
      BY <1>8 DEF Fail, LoseAnswer, tables
    <2>2. requests'[s] = Idle => Fits(s)' BY DEF Idle, Fits
    <2>3. QED BY <1>0, <2>1, <2>2, RequestInv DEF Shape
  <1>9. ASSUME NEW s \in Slot, Answer(s) PROVE IInv'
    BY <1>9, AnswerInv
  <1>10. ASSUME NEW t \in DOMAIN access, PruneExpired(t) PROVE IInv'
    BY <1>10, OvertakenInv DEF PruneExpired
  <1>11. ASSUME Restart PROVE IInv'
    <2>1. /\ UNCHANGED <<codes, refresh, grants, now, held>>
          /\ requests' = [s \in Slot |-> Idle]
      BY <1>11 DEF Restart, tables
    <2>2. \A s \in Slot : Fits(s)' BY <2>1 DEF Idle, Fits
    <2>3. requests' = [s \in Slot |-> requests'[s]] BY <2>1
    <2>4. QED BY <1>0, <2>1, <2>2, <2>3, QuietInv DEF Shape
  <1>12. ASSUME NEW t \in 0 .. MaxNow, SetClock(t) PROVE IInv'
    BY <1>12, UnchangedInv DEF SetClock, tables
  <1>13. CASE UNCHANGED vars
    BY <1>0, <1>13, UnchangedInv DEF vars, tables, Shape
  <1>14. QED
    BY <1>1, <1>2, <1>3, <1>4, <1>5, <1>6, <1>7, <1>8, <1>9, <1>10, <1>11, <1>12, <1>13
    DEF Next

-----------------------------------------------------------------------------

(* The inductive invariant holds of the server in every reachable state. *)
THEOREM Invariance == Spec => []IInv
  BY InitInv, StepInv, PTL DEF Spec

(* No authorization code and no refresh token is ever exchanged twice, by  *)
(* any number of requests at once.                                         *)
THEOREM ExchangedOnce == Spec => []GrantedOnce
  <1>1. IInv => GrantedOnce BY DEF IInv
  <1>2. QED BY <1>1, Invariance, PTL

(* Of the refresh tokens that stem from one login at most one is in the    *)
(* table, and none before its code is burnt.                               *)
THEOREM OneLine == Spec => []OneLinePerLogin
  <1>1. IInv => OneLinePerLogin BY DEF IInv, Lines, Spent, OneLinePerLogin
  <1>2. QED BY <1>1, Invariance, PTL

(* A grant stays with the registration that asked for the login, through   *)
(* every rotation, and a client never receives the grant of another.       *)
THEOREM ClientKept == Spec => []GrantKeepsClient
  <1>1. IInv => GrantKeepsClient BY DEF IInv, Belongs, Owns, GrantKeepsClient
  <1>2. QED BY <1>1, Invariance, PTL

-----------------------------------------------------------------------------
(* Sessions: a client's last refresh token is good, or its successor is on *)
(* the way or was lost.  What the argument needs beyond the invariant      *)
(* above is about tokens still on the way: nobody can have presented them. *)

(* The slot is about to deliver pair n. *)
Delivers(s, n) == requests[s].stage = "granted" /\ requests[s].grant = n

(* The request presents refresh token n. *)
Presents(s, n) ==
    /\ requests[s].stage \in {"sent", "checked"}
    /\ requests[s].source[1] = "refresh" /\ requests[s].source[2] = n

(* The token is in the table, and neither held nor presented by anyone. *)
Fresh(n) ==
    /\ n \in DOMAIN refresh
    /\ \A r \in Slot : ~Presents(r, n)
    /\ \A c \in Client : held[c] # n

(* What is on the way is fresh, and on one way only. *)
Undelivered ==
    \A n \in DOMAIN grants : \A s \in Slot :
        Delivers(s, n) => Fresh(n) /\ \A r \in Slot : Delivers(r, n) => r = s

(* A rotation stays with the client. *)
Rotation ==
    \A n \in DOMAIN grants :
        grants[n].source[1] = "refresh" =>
            /\ grants[n].source[2] \in DOMAIN grants
            /\ grants[n].client = grants[grants[n].source[2]].client

(* HeldIsCurrent, for one client. *)
Current(c) ==
    \/ held[c] \in {0} \cup DOMAIN refresh
    \/ \E n \in DOMAIN grants :
          /\ grants[n].source = FromRefresh(held[c])
          /\ n \in lost \/ \E s \in Slot : Delivers(s, n)

Tracking == Undelivered /\ Rotation /\ \A c \in Client : Current(c)

-----------------------------------------------------------------------------

(* The invariant holds before the first authorization. *)
LEMMA TrackingInit == Init => Tracking
  BY DEF Init, Tracking, Undelivered, Rotation, Current

(* A pair on the way was issued, to the client it goes to. *)
LEMMA DeliveredOwned ==
    ASSUME IInv, NEW s \in Slot, requests[s].stage = "granted"
    PROVE  Owns(requests[s].client, requests[s].grant)
  BY DEF IInv, Holding, Fits

(* Nothing is issued or received; pairs on the way may get lost, and a     *)
(* client may present what it holds.                                       *)
LEMMA CalmTracking ==
    ASSUME Tracking, UNCHANGED <<refresh, grants, held>>, lost \subseteq lost',
           \A s \in Slot : \A n \in DOMAIN grants :
              /\ Delivers(s, n)' => Delivers(s, n)
              /\ Delivers(s, n) => Delivers(s, n)' \/ n \in lost'
              /\ Presents(s, n)' => Presents(s, n) \/ \E c \in Client : held[c] = n
    PROVE  Tracking'
  <1>1. Undelivered'
    <2> SUFFICES ASSUME NEW n \in DOMAIN grants, NEW s \in Slot, Delivers(s, n)'
                 PROVE  Fresh(n)' /\ \A r \in Slot : Delivers(r, n)' => r = s
      BY DEF Undelivered
    <2>1. Fresh(n) /\ \A r \in Slot : Delivers(r, n) => r = s
      BY DEF Tracking, Undelivered
    <2>2. \A r \in Slot : ~Presents(r, n)' BY <2>1 DEF Fresh
    <2>3. Fresh(n)' BY <2>1, <2>2 DEF Fresh
    <2>4. QED BY <2>1, <2>3
  <1>2. Rotation' BY DEF Tracking, Rotation
  <1>3. ASSUME NEW c \in Client PROVE Current(c)'
    <2>1. CASE held[c] \in {0} \cup DOMAIN refresh
      BY <2>1 DEF Current
    <2>2. CASE \E n \in DOMAIN grants :
                  /\ grants[n].source = FromRefresh(held[c])
                  /\ n \in lost \/ \E s \in Slot : Delivers(s, n)
      <3>1. PICK n \in DOMAIN grants :
                    /\ grants[n].source = FromRefresh(held[c])
                    /\ n \in lost \/ \E s \in Slot : Delivers(s, n)
        BY <2>2
      <3>2. n \in lost' \/ \E s \in Slot : Delivers(s, n)' BY <3>1
      <3>3. grants'[n].source = FromRefresh(held'[c]) /\ n \in DOMAIN grants'
        BY <3>1 DEF FromRefresh
      <3>4. QED BY <3>2, <3>3 DEF Current
    <2>3. QED BY <2>1, <2>2 DEF Tracking, Current
  <1>4. QED BY <1>1, <1>2, <1>3 DEF Tracking

(* No request changes but by being overtaken. *)
LEMMA SameTracking ==
    ASSUME Tracking, UNCHANGED <<refresh, grants, held, lost>>,
           requests' = requests \/ requests' = Overtaken(requests)
    PROVE  Tracking'
  <1>1. ASSUME NEW s \in Slot, NEW n \in DOMAIN grants
        PROVE  /\ Delivers(s, n)' <=> Delivers(s, n)
               /\ Presents(s, n)' <=> Presents(s, n)
    BY DEF Delivers, Presents, Overtaken
  <1>2. QED BY <1>1, CalmTracking

(* One request moves and delivers nothing, now or then. *)
LEMMA SlotTracking ==
    ASSUME IInv, Tracking, UNCHANGED <<refresh, grants, held>>, lost \subseteq lost',
           NEW s \in Slot, NEW r, requests' = [requests EXCEPT ![s] = r],
           r.stage # "granted",
           requests[s].stage = "granted" => requests[s].grant \in lost',
           \A n \in DOMAIN grants :
              r.stage \in {"sent", "checked"} /\ r.source[1] = "refresh" /\ r.source[2] = n
                 => Presents(s, n) \/ \E c \in Client : held[c] = n
    PROVE  Tracking'
  <1>1. /\ requests'[s] = r
        /\ \A t \in Slot : t # s => requests'[t] = requests[t]
    BY DEF IInv, Shape
  <1>2. ASSUME NEW t \in Slot, NEW n \in DOMAIN grants
        PROVE  /\ Delivers(t, n)' => Delivers(t, n)
               /\ Delivers(t, n) => Delivers(t, n)' \/ n \in lost'
               /\ Presents(t, n)' => Presents(t, n) \/ \E c \in Client : held[c] = n
    <2>1. CASE t = s BY <1>1, <2>1 DEF Delivers, Presents
    <2>2. CASE t # s BY <1>1, <2>2 DEF Delivers, Presents
    <2>3. QED BY <2>1, <2>2
  <1>3. QED BY <1>2, CalmTracking

(* One request ends; what it would deliver is lost. *)
LEMMA IdleTracking ==
    ASSUME IInv, Tracking, UNCHANGED <<refresh, grants, held>>, lost \subseteq lost',
           NEW s \in Slot, requests' = [requests EXCEPT ![s] = Idle],
           requests[s].stage = "granted" => requests[s].grant \in lost'
    PROVE  Tracking'
  <1>1. Idle.stage = "idle" BY DEF Idle
  <1>2. QED BY <1>1, SlotTracking

(* A client receives a fresh pair, in the place of the one it held. *)
LEMMA AnswerTracking ==
    ASSUME IInv, Tracking, NEW s \in Slot, Answer(s)
    PROVE  Tracking'
  <1> DEFINE g == requests[s].grant
             d == requests[s].client
  <1>1. /\ UNCHANGED <<refresh, grants, lost>>
        /\ requests[s].stage = "granted"
        /\ requests' = [requests EXCEPT ![s] = Idle]
        /\ held' = [held EXCEPT ![d] = g]
    BY DEF Answer, tables
  <1>2. Owns(d, g) /\ g \in DOMAIN grants BY <1>1, DeliveredOwned DEF Owns
  <1>3. /\ Delivers(s, g) /\ g \in DOMAIN refresh
        /\ \A r \in Slot : ~Presents(r, g) /\ (Delivers(r, g) => r = s)
    BY <1>1, <1>2 DEF Tracking, Undelivered, Fresh, Delivers
  <1>4. /\ requests'[s] = Idle
        /\ \A t \in Slot : t # s => requests'[t] = requests[t]
        /\ \A c \in Client : \/ c = d /\ held'[c] = g
                             \/ c # d /\ held'[c] = held[c]
    BY <1>1 DEF IInv, Shape
  <1>5. ASSUME NEW t \in Slot, NEW n \in DOMAIN grants
        PROVE  /\ Delivers(t, n)' <=> Delivers(t, n) /\ t # s
               /\ Presents(t, n)' => Presents(t, n)
    <2>1. CASE t = s BY <1>4, <2>1 DEF Delivers, Presents, Idle
    <2>2. CASE t # s BY <1>4, <2>2 DEF Delivers, Presents
    <2>3. QED BY <2>1, <2>2
  <1> HIDE DEF g, d
  <1>6. Undelivered'
    <2> SUFFICES ASSUME NEW n \in DOMAIN grants, NEW t \in Slot, Delivers(t, n)'
                 PROVE  Fresh(n)' /\ \A r \in Slot : Delivers(r, n)' => r = t
      BY <1>1 DEF Undelivered
    <2>1. Delivers(t, n) /\ t # s BY <1>5
    <2>2. Fresh(n) /\ \A r \in Slot : Delivers(r, n) => r = t
      BY <2>1 DEF Tracking, Undelivered
    <2>3. n # g BY <1>3, <2>1
    <2>4. \A r \in Slot : ~Presents(r, n)' BY <1>5, <2>2 DEF Fresh
    <2>5. \A c \in Client : held'[c] # n BY <1>4, <2>2, <2>3 DEF Fresh
    <2>6. Fresh(n)' BY <1>1, <2>2, <2>4, <2>5 DEF Fresh
    <2>7. QED BY <1>5, <2>2, <2>6
  <1>7. Rotation' BY <1>1 DEF Tracking, Rotation
  <1>8. ASSUME NEW c \in Client PROVE Current(c)'
    <2>1. CASE c = d BY <1>1, <1>3, <1>4, <2>1 DEF Current
    <2>2. CASE c # d
      <3>1. held'[c] = held[c] BY <1>4, <2>2
      <3>2. CASE held[c] \in {0} \cup DOMAIN refresh
        BY <1>1, <3>1, <3>2 DEF Current
      <3>3. CASE held[c] # 0 /\ \E n \in DOMAIN grants :
                    /\ grants[n].source = FromRefresh(held[c])
                    /\ n \in lost \/ \E t \in Slot : Delivers(t, n)
        <4>1. PICK n \in DOMAIN grants :
                      /\ grants[n].source = FromRefresh(held[c])
                      /\ n \in lost \/ \E t \in Slot : Delivers(t, n)
          BY <3>3
        <4>2. grants[n].client = c
          <5>1. grants[n].source[1] = "refresh" /\ grants[n].source[2] = held[c]
            BY <4>1 DEF FromRefresh
          <5>2. grants[held[c]].client = c BY <3>3 DEF IInv, Belongs, Owns
          <5>3. QED BY <5>1, <5>2 DEF Tracking, Rotation
        <4>3. n # g BY <1>2, <2>2, <4>2 DEF Owns
        <4>4. \A t \in Slot : Delivers(t, n) => t # s
          BY <1>3, <4>3 DEF Delivers
        <4>5. n \in lost' \/ \E t \in Slot : Delivers(t, n)'
          BY <1>1, <1>5, <4>1, <4>4
        <4>6. grants'[n].source = FromRefresh(held'[c]) /\ n \in DOMAIN grants'
          BY <1>1, <3>1, <4>1 DEF FromRefresh
        <4>7. QED BY <4>5, <4>6 DEF Current
      <3>4. QED BY <3>2, <3>3 DEF Tracking, Current
    <2>3. QED BY <2>1, <2>2
  <1>9. QED BY <1>6, <1>7, <1>8 DEF Tracking

(* A pair is issued and is on the way; the token it replaces, if any, has  *)
(* a successor from now on.                                                *)
LEMMA CommitTracking ==
    ASSUME IInv, Tracking, NEW s \in Slot, Commit(s)
    PROVE  Tracking'
  <1> DEFINE source == requests[s].source
             d == requests[s].client
             pair == Len(grants) + 1
             issued == [stage |-> "granted", grant |-> pair, client |-> d]
  <1>1. /\ requests[s].stage = "checked" /\ ~requests[s].overtaken
        /\ grants' = Append(grants, [source |-> source, login |-> LoginOf(source),
                                     client |-> ClientOf(requests[s])])
        /\ refresh' = With(Rotated(source), pair,
                          [client |-> ClientOf(requests[s]), expires |-> now + RefreshTTL])
        /\ requests' = [Overtaken(requests) EXCEPT ![s] = issued]
        /\ held' = held /\ lost' = lost
    BY DEF Commit, NewPair, Undisturbed
  <1>2. /\ source \in Sources
        /\ source[1] = "refresh" =>
              /\ source[2] \in DOMAIN refresh /\ source[2] \in DOMAIN grants
              /\ grants[source[2]].client = refresh[source[2]].client
              /\ Presents(s, source[2])
    <2>1. Fits(s) BY DEF IInv, Holding
    <2>2. source \in Sources BY <1>1, <2>1 DEF Fits, Asks
    <2>3. ASSUME source[1] = "refresh" PROVE source[2] \in DOMAIN refresh
      BY <1>1, <2>1, <2>3 DEF Fits, Exchanges
    <2>4. ASSUME source[1] = "refresh" PROVE source[2] \in DOMAIN grants
      BY <2>3, <2>4 DEF IInv, Shape
    <2>5. ASSUME source[1] = "refresh"
          PROVE  grants[source[2]].client = refresh[source[2]].client
      BY <2>3, <2>5 DEF IInv, Belongs
    <2>6. ASSUME source[1] = "refresh" PROVE Presents(s, source[2])
      BY <1>1, <2>6 DEF Presents
    <2>7. QED BY <2>2, <2>3, <2>4, <2>5, <2>6
  <1> DEFINE entry == [source |-> source, login |-> LoginOf(source),
                       client |-> ClientOf(requests[s])]
  <1>3. /\ entry.source = source /\ entry.client = ClientOf(requests[s])
        /\ DOMAIN grants' = DOMAIN grants \cup {pair} /\ grants'[pair] = entry
        /\ \A n \in DOMAIN grants : grants'[n] = grants[n]
        /\ pair \notin DOMAIN grants /\ pair # 0
    <2>1. grants \in Seq(Grant) BY DEF IInv, Shape
    <2>2. entry.source = source /\ entry.client = ClientOf(requests[s]) OBVIOUS
    <2>3. Len(grants) \in Nat /\ DOMAIN grants = 1 .. Len(grants) BY <2>1, SeqFacts
    <2>4. grants' = Append(grants, entry) BY <1>1
    <2> HIDE DEF entry
    <2>5. /\ DOMAIN Append(grants, entry) = 1 .. Len(grants) + 1
          /\ Append(grants, entry)[Len(grants) + 1] = entry
          /\ \A n \in DOMAIN grants : Append(grants, entry)[n] = grants[n]
      BY <2>1
    <2>6. /\ 1 .. Len(grants) + 1 = (1 .. Len(grants)) \cup {Len(grants) + 1}
          /\ Len(grants) + 1 \notin 1 .. Len(grants) /\ Len(grants) + 1 # 0
      BY <2>3
    <2>7. QED BY <2>2, <2>3, <2>4, <2>5, <2>6
  <1>4. DOMAIN refresh' = {pair} \cup
           (IF source[1] = "refresh" THEN DOMAIN refresh \ {source[2]} ELSE DOMAIN refresh)
    BY <1>1 DEF With, Rotated, Remove
  <1>5. requests'[s] = issued /\ \A t \in Slot : t # s => requests'[t] = Overtaken(requests)[t]
    BY <1>1 DEF Overtaken
  <1>6. ASSUME NEW t \in Slot, NEW n
        PROVE  /\ t # s => (Delivers(t, n)' <=> Delivers(t, n))
               /\ t # s => (Presents(t, n)' <=> Presents(t, n))
               /\ Delivers(s, n)' <=> n = pair
               /\ ~Presents(s, n)' /\ ~Delivers(s, n)
    BY <1>1, <1>5 DEF Delivers, Presents, Overtaken
  <1>7. \A c \in Client : held[c] = 0 \/ held[c] \in DOMAIN grants
    BY DEF IInv, Belongs, Owns
  <1>8. \A t \in Slot : \A n : Delivers(t, n) \/ Presents(t, n) => n \in DOMAIN grants
    <2> SUFFICES ASSUME NEW t \in Slot, NEW n, Delivers(t, n) \/ Presents(t, n)
                 PROVE  n \in DOMAIN grants
      OBVIOUS
    <2>1. Fits(t) BY DEF IInv, Holding
    <2>2. CASE Delivers(t, n) BY <2>1, <2>2 DEF Fits, Delivers, Owns
    <2>3. CASE Presents(t, n) BY <2>1, <2>3 DEF Fits, Asks, Presents, Owns
    <2>4. QED BY <2>2, <2>3
  <1> HIDE DEF source, d, pair, issued, entry
  <1>9. Undelivered'
    <2> SUFFICES ASSUME NEW n \in DOMAIN grants', NEW t \in Slot, Delivers(t, n)'
                 PROVE  Fresh(n)' /\ \A r \in Slot : Delivers(r, n)' => r = t
      BY DEF Undelivered
    <2>1. CASE t = s
      <3>1. n = pair BY <1>6, <2>1
      <3>2. \A r \in Slot : ~Presents(r, n)' /\ (Delivers(r, n)' => r = s)
        BY <1>3, <1>6, <1>8, <3>1
      <3>3. \A c \in Client : held'[c] # n BY <1>1, <1>3, <1>7, <3>1
      <3>4. n \in DOMAIN refresh' BY <1>4, <3>1
      <3>5. QED BY <2>1, <3>2, <3>3, <3>4 DEF Fresh
    <2>2. CASE t # s
      <3>1. Delivers(t, n) /\ n \in DOMAIN grants /\ n # pair BY <1>3, <1>6, <1>8, <2>2
      <3>2. Fresh(n) /\ \A r \in Slot : Delivers(r, n) => r = t
        BY <3>1 DEF Tracking, Undelivered
      <3>3. \A r \in Slot : ~Presents(r, n)' /\ (Delivers(r, n)' => r = t)
        BY <1>6, <3>1, <3>2 DEF Fresh
      <3>4. \A c \in Client : held'[c] # n BY <1>1, <3>2 DEF Fresh
      <3>5. source[1] = "refresh" => n # source[2] BY <1>2, <3>2 DEF Fresh
      <3>6. n \in DOMAIN refresh' BY <1>4, <3>2, <3>5 DEF Fresh
      <3>7. QED BY <3>3, <3>4, <3>6 DEF Fresh
    <2>3. QED BY <2>1, <2>2
  <1>10. Rotation'
    <2> SUFFICES ASSUME NEW n \in DOMAIN grants', grants'[n].source[1] = "refresh"
                 PROVE  /\ grants'[n].source[2] \in DOMAIN grants'
                        /\ grants'[n].client = grants'[grants'[n].source[2]].client
      BY DEF Rotation
    <2>1. CASE n \in DOMAIN grants
      BY <1>3, <2>1 DEF Tracking, Rotation
    <2>2. CASE n = pair
      <3>1. /\ grants'[n].source = source /\ source[1] = "refresh"
            /\ grants'[n].client = ClientOf(requests[s])
        BY <1>3, <2>2
      <3>2. ClientOf(requests[s]) = refresh[source[2]].client
        BY <3>1 DEF ClientOf, source
      <3>3. QED BY <1>2, <1>3, <3>1, <3>2
    <2>3. QED BY <1>3, <2>1, <2>2
  <1>11. ASSUME NEW c \in Client PROVE Current(c)'
    <2>1. CASE held[c] \in {0} \cup DOMAIN refresh'
      BY <1>1, <2>1 DEF Current
    <2>2. CASE source[1] = "refresh" /\ held[c] = source[2]
      <3>1. source = FromRefresh(held[c]) BY <1>2, <2>2 DEF Sources, FromRefresh
      <3>2. grants'[pair].source = FromRefresh(held'[c]) /\ pair \in DOMAIN grants'
        BY <1>1, <1>3, <3>1 DEF FromRefresh
      <3>3. \A n : n = pair => Delivers(s, n)' BY <1>6
      <3>4. QED BY <3>2, <3>3 DEF Current
    <2>3. CASE \E n \in DOMAIN grants :
                  /\ grants[n].source = FromRefresh(held[c])
                  /\ n \in lost \/ \E t \in Slot : Delivers(t, n)
      <3>1. PICK n \in DOMAIN grants :
                    /\ grants[n].source = FromRefresh(held[c])
                    /\ n \in lost \/ \E t \in Slot : Delivers(t, n)
        BY <2>3
      <3>2. grants'[n].source = FromRefresh(held'[c]) /\ n \in DOMAIN grants'
        BY <1>1, <1>3, <3>1 DEF FromRefresh
      <3>3. n \in lost' \/ \E t \in Slot : Delivers(t, n)'
        BY <1>1, <1>6, <3>1
      <3>4. QED BY <3>2, <3>3 DEF Current
    <2>4. Current(c) BY DEF Tracking
    <2>5. QED BY <1>4, <2>1, <2>2, <2>3, <2>4 DEF Current
  <1>12. QED BY <1>9, <1>10, <1>11 DEF Tracking

(* Every step keeps track of what the clients hold. *)
LEMMA TrackingStep == IInv /\ Tracking /\ [Next]_vars => Tracking'
  <1> SUFFICES ASSUME IInv, Tracking, [Next]_vars PROVE Tracking'
    OBVIOUS
  <1>1. ASSUME NEW c \in Client, Register(c) PROVE Tracking'
    BY <1>1, SameTracking DEF Register
  <1>2. ASSUME NEW query \in Queries, AuthorizeGet(query) PROVE Tracking'
    BY <1>2, SameTracking DEF AuthorizeGet, tables
  <1>3. ASSUME NEW form \in forms, NEW query \in Queries, AuthorizePost(form, query)
        PROVE  Tracking'
    BY <1>3, SameTracking DEF AuthorizePost
  <1>4. ASSUME NEW s \in Slot, NEW n \in 1 .. MaxCodes, NEW query \in Queries,
               SendCode(s, n, query)
        PROVE  Tracking'
    <2> DEFINE r == [stage |-> "sent", source |-> FromCode(n), client |-> query.client,
                     query |-> query]
    <2>1. /\ UNCHANGED <<refresh, grants, held, lost>>
          /\ requests' = [requests EXCEPT ![s] = r] /\ requests[s] = Idle
      BY <1>4 DEF SendCode, tables
    <2>2. r.stage # "granted" /\ r.source[1] # "refresh" BY DEF FromCode
    <2> HIDE DEF r
    <2>3. requests[s].stage # "granted" BY <2>1 DEF Idle
    <2>4. QED BY <2>1, <2>2, <2>3, SlotTracking
  <1>5. ASSUME NEW s \in Slot, NEW c \in Client, NEW named \in Client \cup {NoClient},
               SendRefresh(s, c, named)
        PROVE  Tracking'
    <2> DEFINE r == [stage |-> "sent", source |-> FromRefresh(held[c]), client |-> c,
                     named |-> named]
    <2>1. /\ UNCHANGED <<refresh, grants, held, lost>>
          /\ requests' = [requests EXCEPT ![s] = r] /\ requests[s] = Idle
      BY <1>5 DEF SendRefresh, tables
    <2>2. r.stage # "granted" /\ r.source[2] = held[c] BY DEF FromRefresh
    <2> HIDE DEF r
    <2>3. requests[s].stage # "granted" BY <2>1 DEF Idle
    <2>4. QED BY <2>1, <2>2, <2>3, SlotTracking
  <1>6. ASSUME NEW s \in Slot, Check(s) PROVE Tracking'
    <2> DEFINE r == [stage |-> "checked", source |-> requests[s].source,
                     client |-> requests[s].client, overtaken |-> FALSE]
    <2>1. /\ UNCHANGED <<refresh, grants, held, lost>> /\ requests[s].stage = "sent"
          /\ \/ requests' = [requests EXCEPT ![s] = Idle]
             \/ requests' = [requests EXCEPT ![s] = r]
      BY <1>6 DEF Check, tables
    <2>2. r.stage = "checked" /\ r.source = requests[s].source OBVIOUS
    <2> HIDE DEF r
    <2>3. CASE requests' = [requests EXCEPT ![s] = Idle]
      BY <2>1, <2>3, IdleTracking
    <2>4. CASE requests' = [requests EXCEPT ![s] = r]
      <3>1. \A n \in DOMAIN grants : r.source[1] = "refresh" /\ r.source[2] = n => Presents(s, n)
        BY <2>1, <2>2 DEF Presents
      <3>2. QED BY <2>1, <2>2, <2>4, <3>1, SlotTracking
    <2>5. QED BY <2>1, <2>3, <2>4
  <1>7. ASSUME NEW s \in Slot, Commit(s) PROVE Tracking'
    BY <1>7, CommitTracking
  <1>8. ASSUME NEW s \in Slot, Fail(s) \/ LoseAnswer(s) PROVE Tracking'
    <2>1. /\ UNCHANGED <<refresh, grants, held>> /\ lost \subseteq lost'
          /\ requests' = [requests EXCEPT ![s] = Idle]
          /\ requests[s].stage = "granted" => requests[s].grant \in lost'
      BY <1>8 DEF Fail, LoseAnswer, tables
    <2>2. QED BY <2>1, IdleTracking
  <1>9. ASSUME NEW s \in Slot, Answer(s) PROVE Tracking'
    BY <1>9, AnswerTracking
  <1>10. ASSUME NEW t \in DOMAIN access, PruneExpired(t) PROVE Tracking'
    BY <1>10, SameTracking DEF PruneExpired
  <1>11. ASSUME Restart PROVE Tracking'
    <2>1. /\ UNCHANGED <<refresh, grants, held>> /\ requests' = [s \in Slot |-> Idle]
          /\ lost' = lost \cup {requests[s].grant :
                                  s \in {r \in Slot : requests[r].stage = "granted"}}
      BY <1>11 DEF Restart, tables
    <2>2. ASSUME NEW s \in Slot, NEW n \in DOMAIN grants
          PROVE  ~Delivers(s, n)' /\ ~Presents(s, n)' /\ (Delivers(s, n) => n \in lost')
      BY <2>1 DEF Delivers, Presents, Idle
    <2>3. lost \subseteq lost' BY <2>1
    <2>4. QED BY <2>1, <2>2, <2>3, CalmTracking
  <1>12. ASSUME NEW t \in 0 .. MaxNow, SetClock(t) PROVE Tracking'
    BY <1>12, SameTracking DEF SetClock, tables
  <1>13. CASE UNCHANGED vars
    BY <1>13, SameTracking DEF vars, tables
  <1>14. QED
    BY <1>1, <1>2, <1>3, <1>4, <1>5, <1>6, <1>7, <1>8, <1>9, <1>10, <1>11, <1>12, <1>13
    DEF Next

-----------------------------------------------------------------------------

(* A client never loses its session to a race, a refused request or a      *)
(* restart: its last refresh token is good until it expires, or has a      *)
(* successor, which is on the way to it or was lost there.                 *)
THEOREM SessionKept == Spec => []HeldIsCurrent
  <1>1. Tracking => HeldIsCurrent
    BY DEF Tracking, Current, HeldIsCurrent, Delivers
  <1>2. Spec => []Tracking
    BY TrackingInit, TrackingStep, Invariance, PTL DEF Spec
  <1>3. QED BY <1>1, <1>2, PTL
=============================================================================
