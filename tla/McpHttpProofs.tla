---------------------------- MODULE McpHttpProofs ----------------------------
(***************************************************************************)
(* Theorems about McpHttp, for any number of POSTs, grants, accounts,      *)
(* tokens, assets and messages.                                            *)
(***************************************************************************)
EXTENDS McpHttp, Sums, NaturalsInduction

-----------------------------------------------------------------------------
(* Where a POST is *)

Waiting == {"body", "message", "assets"}

Fields == {"at", "left", "token", "todo", "files"}

PostTypes ==
  /\ DOMAIN posts = Posts
  /\ \A p \in Posts : DOMAIN posts[p] = Fields /\ posts[p].at \in Waiting \cup {"new", "answered"}

\* The two records a POST that handles no asset can be in.
LEMMA Records ==
  ASSUME NEW x, NEW n
  PROVE  /\ DOMAIN Idle = Fields /\ Idle.at = "new"
         /\ [Idle EXCEPT !.at = x].at = x /\ DOMAIN [Idle EXCEPT !.at = x] = Fields
         /\ [Idle EXCEPT !.at = x, !.left = n].at = x /\ DOMAIN [Idle EXCEPT !.at = x, !.left = n] = Fields
BY DEF Idle, Fields

\* What a step may do to one POST.
Step(p, r) ==
  /\ posts' = [posts EXCEPT ![p] = r]
  /\ DOMAIN r = Fields /\ r.at \in Waiting \cup {"new", "answered"}

LEMMA StepIsLocal ==
  ASSUME PostTypes, NEW p \in Posts, NEW r, Step(p, r)
  PROVE  PostTypes' /\ posts'[p] = r /\ \A q \in Posts : q # p => posts'[q] = posts[q]
BY DEF PostTypes, Step

LEMMA Accounted == \A p \in Posts : GrantOf[p] \in Grants /\ Account(p) \in Accounts
BY McpAssumption DEF Account

\* The end of a POST, and of a message.
LEMMA EndOfPost ==
  ASSUME PostTypes, NEW p \in Posts
  PROVE  /\ Answered(p) => \E r : Step(p, r) /\ r.at = "answered"
         /\ NextMessage(p) =>
              \/ Finish(p)
              \/ /\ \E r : Step(p, r) /\ r.at = "message"
                 /\ UNCHANGED <<now, windows, inFlight, granted>>
<1>1. ASSUME Answered(p) PROVE \E r : Step(p, r) /\ r.at = "answered"
  <2> DEFINE r == [Idle EXCEPT !.at = "answered"]
  <2>1. r.at = "answered" /\ DOMAIN r = Fields
    BY Records
  <2>2. posts' = [posts EXCEPT ![p] = r]
    BY <1>1 DEF Answered, Goes
  <2> HIDE DEF r
  <2> QED
    BY <2>1, <2>2 DEF Step
<1>2. ASSUME NextMessage(p), ~Finish(p)
      PROVE  (\E r : Step(p, r) /\ r.at = "message") /\ UNCHANGED <<now, windows, inFlight, granted>>
  <2> DEFINE r == [Idle EXCEPT !.at = "message", !.left = posts[p].left - 1]
  <2>1. r.at = "message" /\ DOMAIN r = Fields
    BY Records
  <2>2. posts' = [posts EXCEPT ![p] = r] /\ UNCHANGED <<now, windows, inFlight, granted>>
    BY <1>2 DEF NextMessage, Goes
  <2> HIDE DEF r
  <2> QED
    BY <2>1, <2>2 DEF Step, Waiting
<1> QED
  BY <1>1, <1>2

-----------------------------------------------------------------------------
(* POSTs in flight *)

OpenPosts(a) == {p \in Posts : Account(p) = a /\ posts[p].at \notin {"new", "answered"}}

InFlightInv == PostTypes /\ inFlight \in [Accounts -> Nat] /\ InFlightIsExact

\* A POST is admitted, goes on, or is answered.
Begins(p) ==
  /\ \E r : Step(p, r) /\ r.at \in Waiting
  /\ posts[p].at = "new" /\ inFlight[Account(p)] < MaxInFlight
  /\ inFlight' = [inFlight EXCEPT ![Account(p)] = @ + 1]

GoesOn(p) ==
  /\ \E r : Step(p, r) /\ (r.at \in Waiting <=> posts[p].at \in Waiting)
  /\ inFlight' = inFlight

Ends(p) ==
  /\ \E r : Step(p, r) /\ r.at = "answered"
  /\ posts[p].at \in Waiting
  /\ inFlight' = [inFlight EXCEPT ![Account(p)] = @ - 1]

LEMMA Ways ==
  ASSUME PostTypes, [Next]_vars
  PROVE  (\E p \in Posts : Begins(p) \/ GoesOn(p) \/ Ends(p)) \/ UNCHANGED <<posts, inFlight>>
<1>1. ASSUME NEW p \in Posts, posts[p].at \in Waiting, NextMessage(p) PROVE GoesOn(p) \/ Ends(p)
  <2>1. CASE Finish(p)
    BY <1>1, <2>1, EndOfPost DEF Finish, Ends
  <2>2. CASE (\E r : Step(p, r) /\ r.at = "message") /\ UNCHANGED <<now, windows, inFlight, granted>>
    BY <1>1, <2>2 DEF GoesOn, Waiting
  <2> QED
    BY <1>1, <2>1, <2>2, EndOfPost
<1>2. ASSUME NEW p \in Posts, Admit(p) PROVE Begins(p) \/ GoesOn(p)
  <2>1. posts[p].at = "new"
    BY <1>2 DEF Admit
  <2>2. CASE MayGoOn(p) /\ inFlight[Account(p)] < MaxInFlight
    <3> DEFINE r == [Idle EXCEPT !.at = "body"]
    <3>1. posts' = [posts EXCEPT ![p] = r] /\ inFlight' = [inFlight EXCEPT ![Account(p)] = @ + 1]
      BY <1>2, <2>2 DEF Admit, Goes
    <3>2. r.at = "body" /\ DOMAIN r = Fields
      BY Records
    <3> HIDE DEF r
    <3> QED
      BY <2>1, <2>2, <3>1, <3>2 DEF Begins, Step, Waiting
  <2>3. CASE ~(MayGoOn(p) /\ inFlight[Account(p)] < MaxInFlight)
    <3>1. Answered(p) /\ inFlight' = inFlight
      BY <1>2, <2>3 DEF Admit
    <3> QED
      BY <2>1, <3>1, EndOfPost DEF GoesOn, Waiting
  <2> QED
    BY <2>2, <2>3
<1>3. ASSUME NEW p \in Posts, BadBody(p) PROVE Ends(p)
  BY <1>3, EndOfPost DEF BadBody, Finish, Ends, Waiting
<1>4. ASSUME NEW p \in Posts, NEW n, Body(p, n) PROVE GoesOn(p)
  <2> DEFINE r == [Idle EXCEPT !.at = "message", !.left = n]
  <2>1. r.at = "message" /\ DOMAIN r = Fields
    BY Records
  <2>2. posts[p].at = "body" /\ posts' = [posts EXCEPT ![p] = r] /\ inFlight' = inFlight
    BY <1>4 DEF Body, Goes
  <2> HIDE DEF r
  <2> QED
    BY <2>1, <2>2 DEF GoesOn, Step, Waiting
<1>5. ASSUME NEW p \in Posts, Call(p) \/ FinishHandoff(p) PROVE GoesOn(p) \/ Ends(p)
  BY <1>1, <1>5 DEF Call, FinishHandoff, Waiting
<1>6. ASSUME NEW p \in Posts, NEW t, NEW n, PrepareHandoff(p, t, n) PROVE GoesOn(p) \/ Ends(p)
  <2>1. CASE MayOpen(Account(p))
    <3> DEFINE r == [posts[p] EXCEPT !.at = "assets", !.token = t, !.todo = n]
    <3>1. posts[p].at = "message" /\ posts' = [posts EXCEPT ![p] = r] /\ inFlight' = inFlight
      BY <1>6, <2>1 DEF PrepareHandoff, Goes
    <3>2. r.at = "assets" /\ DOMAIN r = Fields
      BY DEF PostTypes, Fields
    <3> HIDE DEF r
    <3> QED
      BY <3>1, <3>2 DEF GoesOn, Step, Waiting
  <2>2. CASE ~MayOpen(Account(p))
    BY <1>1, <1>6, <2>2 DEF PrepareHandoff, Waiting
  <2> QED
    BY <2>1, <2>2
<1>7. ASSUME NEW p \in Posts, NEW name, SaveAsset(p, name) \/ SkipAsset(p) PROVE GoesOn(p)
  <2>1. posts[p].at = "assets" /\ inFlight' = inFlight
    BY <1>7 DEF SaveAsset, SkipAsset
  <2>2. \E r : posts' = [posts EXCEPT ![p] = r] /\ r.at = posts[p].at /\ DOMAIN r = Fields
    <3> DEFINE r1 == [posts[p] EXCEPT !.todo = posts[p].todo - 1,
                                      !.files = Put(@, posts[p].todo, FileName(posts[p].token, name))]
               r2 == [posts[p] EXCEPT !.todo = posts[p].todo - 1]
    <3>1. posts' = [posts EXCEPT ![p] = r1] \/ posts' = [posts EXCEPT ![p] = r2]
      BY <1>7 DEF SaveAsset, SkipAsset, Goes
    <3>2. r1.at = posts[p].at /\ DOMAIN r1 = Fields
      BY DEF PostTypes, Fields
    <3>3. r2.at = posts[p].at /\ DOMAIN r2 = Fields
      BY DEF PostTypes, Fields
    <3> HIDE DEF r1, r2
    <3> QED
      BY <3>1, <3>2, <3>3
  <2> QED
    BY <2>1, <2>2 DEF GoesOn, Step, Waiting
<1>8. CASE Tick \/ PruneAssets \/ UNCHANGED vars
  BY <1>8 DEF Tick, PruneAssets, vars
<1> QED
  BY <1>2, <1>3, <1>4, <1>5, <1>6, <1>7, <1>8 DEF Next

LEMMA InitInFlight == Init => InFlightInv
<1> SUFFICES ASSUME Init PROVE InFlightInv
  OBVIOUS
<1>1. PostTypes
  BY Records DEF Init, PostTypes
<1>2. inFlight \in [Accounts -> Nat] /\ \A a \in Accounts : inFlight[a] = 0
  BY DEF Init
<1>3. \A a \in Accounts : OpenPosts(a) = {}
  BY Records DEF Init, OpenPosts
<1>4. MaxInFlight \in Nat
  BY McpAssumption
<1> QED
  BY <1>1, <1>2, <1>3, <1>4, FS_EmptySet DEF InFlightInv, InFlightIsExact, OpenPosts

LEMMA StepInFlight == InFlightInv /\ [Next]_vars => InFlightInv'
<1> SUFFICES ASSUME InFlightInv, [Next]_vars PROVE InFlightInv'
  OBVIOUS
<1>0. /\ PostTypes /\ inFlight \in [Accounts -> Nat] /\ MaxInFlight \in Nat
      /\ \A a \in Accounts : /\ inFlight[a] = Cardinality(OpenPosts(a)) /\ inFlight[a] <= MaxInFlight
                             /\ IsFiniteSet(OpenPosts(a))
  <2>1. \A a \in Accounts : OpenPosts(a) \in SUBSET Posts
    BY DEF OpenPosts
  <2> QED
    BY <2>1, McpAssumption, FS_Subset DEF InFlightInv, InFlightIsExact, OpenPosts
<1>1. ASSUME PostTypes', inFlight' \in [Accounts -> Nat],
             \A a \in Accounts : inFlight'[a] = Cardinality(OpenPosts(a)') /\ inFlight'[a] <= MaxInFlight
      PROVE  InFlightInv'
  BY <1>1 DEF InFlightInv, InFlightIsExact, OpenPosts
<1>2. CASE UNCHANGED <<posts, inFlight>>
  BY <1>0, <1>1, <1>2 DEF PostTypes, OpenPosts
<1>3. ASSUME NEW p \in Posts, NEW r, Step(p, r)
      PROVE  /\ PostTypes'
             /\ \A a \in Accounts :
                  OpenPosts(a)' = IF a # Account(p) THEN OpenPosts(a)
                                  ELSE IF r.at \in Waiting THEN OpenPosts(a) \cup {p} ELSE OpenPosts(a) \ {p}
             /\ p \in OpenPosts(Account(p)) <=> posts[p].at \in Waiting
  <2>1. PostTypes' /\ posts'[p] = r /\ \A q \in Posts : q # p => posts'[q] = posts[q]
    BY <1>0, <1>3, StepIsLocal
  <2>2. r.at \in Waiting <=> r.at \notin {"new", "answered"}
    BY <1>3 DEF Step, Waiting
  <2>3. posts[p].at \in Waiting <=> posts[p].at \notin {"new", "answered"}
    BY <1>0 DEF PostTypes, Waiting
  <2> QED
    BY <2>1, <2>2, <2>3 DEF OpenPosts, Account
<1>4. ASSUME NEW p \in Posts, Begins(p) PROVE InFlightInv'
  <2>1. PICK r : Step(p, r) /\ r.at \in Waiting
    BY <1>4 DEF Begins
  <2>2. /\ p \notin OpenPosts(Account(p)) /\ inFlight[Account(p)] < MaxInFlight
        /\ inFlight' = [inFlight EXCEPT ![Account(p)] = @ + 1]
    BY <1>3, <1>4, <2>1 DEF Begins, Waiting
  <2>3. \A a \in Accounts : OpenPosts(a)' = IF a = Account(p) THEN OpenPosts(a) \cup {p} ELSE OpenPosts(a)
    BY <1>3, <2>1
  <2>4. Cardinality(OpenPosts(Account(p))') = Cardinality(OpenPosts(Account(p))) + 1
    BY <1>0, <2>2, <2>3, Accounted, FS_AddElement
  <2> QED
    BY <1>0, <1>1, <1>3, <2>1, <2>2, <2>3, <2>4, Accounted
<1>5. ASSUME NEW p \in Posts, GoesOn(p) PROVE InFlightInv'
  <2>1. PICK r : Step(p, r) /\ (r.at \in Waiting <=> posts[p].at \in Waiting)
    BY <1>5 DEF GoesOn
  <2>2. \A a \in Accounts : OpenPosts(a)' = OpenPosts(a)
    BY <1>3, <2>1 DEF OpenPosts
  <2> QED
    BY <1>0, <1>1, <1>3, <1>5, <2>1, <2>2 DEF GoesOn
<1>6. ASSUME NEW p \in Posts, Ends(p) PROVE InFlightInv'
  <2>1. PICK r : Step(p, r) /\ r.at = "answered"
    BY <1>6 DEF Ends
  <2>2. p \in OpenPosts(Account(p)) /\ inFlight' = [inFlight EXCEPT ![Account(p)] = @ - 1]
    BY <1>3, <1>6, <2>1 DEF Ends
  <2>3. \A a \in Accounts : OpenPosts(a)' = IF a = Account(p) THEN OpenPosts(a) \ {p} ELSE OpenPosts(a)
    BY <1>3, <2>1 DEF Waiting
  <2>4. Cardinality(OpenPosts(Account(p))') = Cardinality(OpenPosts(Account(p))) - 1
    BY <1>0, <2>2, <2>3, Accounted, FS_RemoveElement
  <2>5. Cardinality(OpenPosts(Account(p))) # 0 /\ Cardinality(OpenPosts(Account(p))) \in Nat
    BY <1>0, <2>2, Accounted, FS_EmptySet, FS_CardinalityType
  <2> QED
    BY <1>0, <1>1, <1>3, <2>1, <2>2, <2>3, <2>4, <2>5, Accounted
<1> QED
  BY <1>0, <1>2, <1>4, <1>5, <1>6, Ways

\* The in-flight counter of an account counts exactly the POSTs that were admitted
\* and not answered, however the others ended, and stays within its limit: the
\* finally of handle() is the only way out.
THEOREM InFlight == Spec => []InFlightIsExact
<1>1. InFlightInv => InFlightIsExact
  BY DEF InFlightInv
<1> QED
  BY <1>1, InitInFlight, StepInFlight, PTL DEF Spec

-----------------------------------------------------------------------------
(* The files of a session *)

LEMMA Least ==
  ASSUME NEW T \in SUBSET Nat, T # {}
  PROVE  \E m \in T : \A k \in T : m <= k
<1>1. PICK m \in T : \A k \in T : ~(<<k, m>> \in OpToRel(<, Nat))
  BY WFMin, NatLessThanWellFounded, Zenon
<1>2. \A k \in T : ~(k < m)
  BY <1>1 DEF OpToRel
<1> QED
  BY <1>2

LEMMA Pigeons ==
  ASSUME NEW T, IsFiniteSet(T), NEW f \in [1 .. Cardinality(T) + 1 -> T]
  PROVE  \E i, j \in 1 .. Cardinality(T) + 1 : i # j /\ f[i] = f[j]
<1> DEFINE S == 1 .. Cardinality(T) + 1
<1>1. Cardinality(T) \in Nat
  BY FS_CardinalityType
<1>2. IsFiniteSet(S) /\ Cardinality(S) = Cardinality(T) + 1
  BY <1>1, FS_Interval
<1>3. Cardinality(T) < Cardinality(S) /\ f \in [S -> T]
  BY <1>1, <1>2
<1> HIDE DEF S
<1>4. \E i, j \in S : i # j /\ f[i] = f[j]
  BY <1>2, <1>3, FS_PigeonHole
<1> QED
  BY <1>4 DEF S

\* FileName() finds a name that no file of the session has.
LEMMA NameIsFree ==
  ASSUME NEW t, NEW name, IsFiniteSet(DOMAIN sessions[t].files)
  PROVE  FileName(t, name) \notin DOMAIN sessions[t].files
<1> DEFINE taken == DOMAIN sessions[t].files
           n == Cardinality(taken)
           free == {i \in 1 .. n + 1 : <<name, i>> \notin taken}
<1>1. n \in Nat
  BY FS_CardinalityType
<1>2. free # {}
  <2> SUFFICES ASSUME \A i \in 1 .. n + 1 : <<name, i>> \in taken PROVE FALSE
    OBVIOUS
  <2> DEFINE f == [i \in 1 .. n + 1 |-> <<name, i>>]
  <2>1. f \in [1 .. n + 1 -> taken] /\ \A i \in 1 .. n + 1 : f[i] = <<name, i>>
    OBVIOUS
  <2> HIDE DEF f
  <2>2. \E i, j \in 1 .. n + 1 : i # j /\ f[i] = f[j]
    BY <1>1, <2>1, Pigeons
  <2> QED
    BY <2>1, <2>2
<1>3. PICK m \in free : \A k \in free : m <= k
  <2>1. free \in SUBSET Nat
    BY <1>1
  <2> HIDE DEF free
  <2> QED
    BY <1>2, <2>1, Least
<1>4. \A j \in 1 .. m - 1 : <<name, j>> \in taken
  BY <1>1, <1>3
<1>5. \E i \in 1 .. n + 1 : <<name, i>> \notin taken /\ \A j \in 1 .. i - 1 : <<name, j>> \in taken
  BY <1>3, <1>4
<1> QED
  BY <1>5, Zenon DEF FileName

SessionTypes ==
  /\ now \in Nat
  /\ \A t \in DOMAIN sessions :
       /\ DOMAIN sessions[t] = {"account", "expires", "bytes", "files"}
       /\ sessions[t].expires \in Nat
       /\ IsFiniteSet(DOMAIN sessions[t].files)

\* A download serves something, and always the same.
Holds(t, file, content) ==
  /\ t \in DOMAIN sessions /\ file \in DOMAIN sessions[t].files
  /\ sessions[t].files[file] = content

\* Nothing that a session has is lost or replaced.
Grows ==
  \A t \in DOMAIN sessions :
    /\ t \in DOMAIN sessions' /\ sessions'[t].expires = sessions[t].expires
    /\ \A file \in DOMAIN sessions[t].files :
         file \in DOMAIN sessions'[t].files /\ sessions'[t].files[file] = sessions[t].files[file]

LEMMA Stores ==
  ASSUME SessionTypes, now' = now, NEW t \in DOMAIN sessions, NEW file, file \notin DOMAIN sessions[t].files,
         NEW content, NEW size, Store(t, file, content, size)
  PROVE  SessionTypes' /\ Grows /\ Holds(t, file, content)' /\ DOMAIN sessions' = DOMAIN sessions
<1> DEFINE r == [[sessions[t] EXCEPT !.files = Put(sessions[t].files, file, content)] EXCEPT !.bytes = sessions[t].bytes + size]
<1>1. sessions' = [sessions EXCEPT ![t].files = Put(@, file, content), ![t].bytes = @ + size]
  BY DEF Store
<1>2. DOMAIN sessions' = DOMAIN sessions /\ \A u \in DOMAIN sessions : u # t => sessions'[u] = sessions[u]
  BY <1>1
<1>3. /\ DOMAIN sessions'[t] = {"account", "expires", "bytes", "files"}
      /\ sessions'[t].expires = sessions[t].expires
      /\ sessions'[t].files = Put(sessions[t].files, file, content)
  BY <1>1 DEF SessionTypes
<1>4. /\ DOMAIN Put(sessions[t].files, file, content) = DOMAIN sessions[t].files \cup {file}
      /\ Put(sessions[t].files, file, content)[file] = content
      /\ \A g \in DOMAIN sessions[t].files : Put(sessions[t].files, file, content)[g] = sessions[t].files[g]
  BY DEF Put
<1>5. IsFiniteSet(DOMAIN sessions[t].files \cup {file})
  BY FS_AddElement DEF SessionTypes
<1>6. SessionTypes'
  BY <1>2, <1>3, <1>4, <1>5 DEF SessionTypes
<1>7. Grows
  BY <1>2, <1>3, <1>4 DEF Grows
<1> QED
  BY <1>2, <1>3, <1>4, <1>6, <1>7 DEF Holds

-----------------------------------------------------------------------------
(* Links *)

\* A session that has not expired is listed.
Listing == \A t \in DOMAIN sessions : sessions[t].expires > now => t \in listed

\* A handoff under way has a session, and each asset it saved is there.
HandoffIsKept(p) ==
  /\ posts[p].at = "assets" => posts[p].token \in DOMAIN sessions
  /\ posts[p].at = "assets" =>
       \A asset \in DOMAIN posts[p].files : Holds(posts[p].token, posts[p].files[asset], Content(p, asset))
  /\ posts[p].at = "message" => posts[p].files = <<>>

Handoffs == \A p \in Posts : HandoffIsKept(p)

Promises == \A l \in links : Holds(l.token, l.file, l.serves)

LinksInv == PostTypes /\ SessionTypes /\ Listing /\ Handoffs /\ Promises

LEMMA InitLinks == Init => LinksInv
BY Records DEF Init, LinksInv, PostTypes, SessionTypes, Listing, Handoffs, HandoffIsKept, Promises

\* What was there, is there.
LEMMA HoldsOn ==
  ASSUME Grows
  PROVE  /\ \A t, file, content : Holds(t, file, content) => Holds(t, file, content)'
         /\ Promises /\ links' = links => Promises'
         /\ \A p \in Posts : HandoffIsKept(p) /\ posts'[p] = posts[p] => HandoffIsKept(p)'
<1>1. \A t, file, content : Holds(t, file, content) => Holds(t, file, content)'
  BY DEF Grows, Holds
<1>2. Promises /\ links' = links => Promises'
  BY <1>1 DEF Promises
<1> QED
  BY <1>1, <1>2 DEF HandoffIsKept, Content, Grows

\* The POST is not, or no longer, busy with a handoff.
Rests(p) == \E r : Step(p, r) /\ r.at # "assets" /\ r.files = <<>>

LEMMA Resting ==
  ASSUME NEW p
  PROVE  /\ Answered(p) => Rests(p)
         /\ NextMessage(p) => Rests(p) /\ now' = now
         /\ \A n : Goes(p, [Idle EXCEPT !.at = "message", !.left = n]) => Rests(p)
         /\ Goes(p, [Idle EXCEPT !.at = "body"]) => Rests(p)
<1>1. \A x \in {"answered", "body"} :
        /\ [Idle EXCEPT !.at = x].at = x /\ DOMAIN [Idle EXCEPT !.at = x] = Fields
        /\ [Idle EXCEPT !.at = x].files = <<>>
  BY DEF Idle, Fields
<1>2. \A n : /\ [Idle EXCEPT !.at = "message", !.left = n].at = "message"
             /\ DOMAIN [Idle EXCEPT !.at = "message", !.left = n] = Fields
             /\ [Idle EXCEPT !.at = "message", !.left = n].files = <<>>
  BY DEF Idle, Fields
<1>3. \A x \in {"answered", "body"} : Goes(p, [Idle EXCEPT !.at = x]) => Rests(p)
  <2> SUFFICES ASSUME NEW x \in {"answered", "body"}, Goes(p, [Idle EXCEPT !.at = x]) PROVE Rests(p)
    OBVIOUS
  <2> DEFINE r == [Idle EXCEPT !.at = x]
  <2>1. r.at = x /\ DOMAIN r = Fields /\ r.files = <<>>
    BY <1>1
  <2>2. posts' = [posts EXCEPT ![p] = r]
    BY DEF Goes
  <2> HIDE DEF r
  <2> QED
    BY <2>1, <2>2 DEF Rests, Step, Waiting
<1>4. \A n : Goes(p, [Idle EXCEPT !.at = "message", !.left = n]) => Rests(p)
  <2> SUFFICES ASSUME NEW n, Goes(p, [Idle EXCEPT !.at = "message", !.left = n]) PROVE Rests(p)
    OBVIOUS
  <2> DEFINE r == [Idle EXCEPT !.at = "message", !.left = n]
  <2>1. r.at = "message" /\ DOMAIN r = Fields /\ r.files = <<>>
    BY <1>2
  <2>2. posts' = [posts EXCEPT ![p] = r]
    BY DEF Goes
  <2> HIDE DEF r
  <2> QED
    BY <2>1, <2>2 DEF Rests, Step, Waiting
<1>5. Answered(p) => Rests(p)
  BY <1>3 DEF Answered
<1>6. NextMessage(p) => Rests(p) /\ now' = now
  BY <1>4, <1>5 DEF NextMessage, Finish
<1> QED
  BY <1>3, <1>4, <1>5, <1>6

\* What a step has to show.
LEMMA LinksKept ==
  ASSUME LinksInv, NEW p \in Posts, NEW r, Step(p, r), SessionTypes', Grows, Listing',
         HandoffIsKept(p)', links' = links \/ Promises'
  PROVE  LinksInv'
<1>1. PostTypes' /\ \A q \in Posts : q # p => posts'[q] = posts[q]
  BY StepIsLocal DEF LinksInv
<1>2. \A q \in Posts : HandoffIsKept(q)'
  BY <1>1, HoldsOn DEF LinksInv, Handoffs
<1>3. Promises'
  BY HoldsOn DEF LinksInv
<1> QED
  BY <1>1, <1>2, <1>3 DEF LinksInv, Handoffs

LEMMA RestsKept ==
  ASSUME LinksInv, NEW p \in Posts, Rests(p), SessionTypes', Grows, Listing', links' = links \/ Promises'
  PROVE  LinksInv'
<1>1. PICK r : Step(p, r) /\ r.at # "assets" /\ r.files = <<>>
  BY DEF Rests
<1>2. posts'[p] = r
  BY <1>1, StepIsLocal DEF LinksInv
<1>3. HandoffIsKept(p)'
  BY <1>1, <1>2 DEF HandoffIsKept
<1> QED
  BY <1>1, <1>3, LinksKept

\* An asset is left out.
LEMMA LinksSkip ==
  ASSUME LinksInv, NEW p \in Posts, posts[p].at = "assets",
         posts' = [posts EXCEPT ![p] = [posts[p] EXCEPT !.todo = posts[p].todo - 1]],
         SessionTypes', Grows, Listing', UNCHANGED <<store, links>>
  PROVE  LinksInv'
<1> DEFINE r == [posts[p] EXCEPT !.todo = posts[p].todo - 1]
<1>1. /\ r.at = "assets" /\ DOMAIN r = Fields /\ r.token = posts[p].token /\ r.left = posts[p].left
      /\ r.files = posts[p].files
  BY DEF LinksInv, PostTypes, Fields
<1>2. posts' = [posts EXCEPT ![p] = r]
  OBVIOUS
<1> HIDE DEF r
<1>3. Step(p, r) /\ posts'[p] = r
  BY <1>1, <1>2 DEF LinksInv, PostTypes, Step, Waiting
<1>4. HandoffIsKept(p)'
  BY <1>1, <1>3 DEF LinksInv, Handoffs, HandoffIsKept, Holds, Content, store
<1> QED
  BY <1>3, <1>4, LinksKept

\* The handoff of a POST puts one more file into its session.
LEMMA Saving ==
  ASSUME LinksInv, UNCHANGED <<now, listed>>, NEW p \in Posts, posts[p].at = "assets",
         NEW t, t = posts[p].token, NEW name, NEW file, file = FileName(t, name),
         NEW content, Store(t, file, content, 1)
  PROVE  SessionTypes' /\ Grows /\ Listing' /\ Holds(t, file, content)' /\ t \in DOMAIN sessions'
<1>1. t \in DOMAIN sessions /\ IsFiniteSet(DOMAIN sessions[t].files)
  BY DEF LinksInv, Handoffs, HandoffIsKept, SessionTypes
<1>2. file \notin DOMAIN sessions[t].files
  BY <1>1, NameIsFree
<1>3. SessionTypes' /\ Grows /\ Holds(t, file, content)' /\ DOMAIN sessions' = DOMAIN sessions
  BY <1>1, <1>2, Stores DEF LinksInv
<1>4. Listing'
  BY <1>3 DEF LinksInv, Listing, Grows
<1> QED
  BY <1>1, <1>3, <1>4

LEMMA StepLinks == LinksInv /\ [Next]_vars => LinksInv'
<1> SUFFICES ASSUME LinksInv, [Next]_vars PROVE LinksInv'
  OBVIOUS
<1>1. ASSUME UNCHANGED <<now, store>> PROVE SessionTypes' /\ Grows /\ Listing'
  BY <1>1 DEF store, LinksInv, SessionTypes, Grows, Listing
<1>2. ASSUME UNCHANGED <<now, sessions>>, listed' = Unexpired PROVE SessionTypes' /\ Grows /\ Listing'
  BY <1>2 DEF LinksInv, SessionTypes, Grows, Listing, Unexpired
<1>3. ASSUME NEW p \in Posts, Admit(p) \/ BadBody(p) \/ Call(p) \/ \E n : Body(p, n) PROVE LinksInv'
  <2>1. Rests(p) /\ UNCHANGED <<now, store, links>>
    BY <1>3, Resting DEF Admit, BadBody, Call, Body, Finish
  <2> QED
    BY <1>1, <2>1, RestsKept
<1>4. ASSUME NEW p \in Posts, NEW t, NEW n, PrepareHandoff(p, t, n), t \notin DOMAIN sessions PROVE LinksInv'
  <2>1. CASE ~MayOpen(Account(p))
    <3>1. listed' = Unexpired /\ sessions' = sessions /\ links' = links /\ NextMessage(p)
      BY <1>4, <2>1 DEF PrepareHandoff
    <3> QED
      BY <1>2, <3>1, Resting, RestsKept
  <2>2. CASE MayOpen(Account(p))
    <3> DEFINE r == [posts[p] EXCEPT !.at = "assets", !.token = t, !.todo = n]
    <3>1. /\ posts[p].at = "message" /\ posts' = [posts EXCEPT ![p] = r] /\ UNCHANGED <<now, links>>
          /\ sessions' = Put(sessions, t, Session(Account(p))) /\ listed' = Unexpired \cup {t}
      BY <1>4, <2>2 DEF PrepareHandoff, Goes, Open
    <3>2. r.at = "assets" /\ DOMAIN r = Fields /\ r.token = t /\ r.files = posts[p].files
      BY DEF LinksInv, PostTypes, Fields
    <3> HIDE DEF r
    <3>3. Step(p, r) /\ posts'[p] = r
      BY <3>1, <3>2 DEF LinksInv, PostTypes, Step, Waiting
    <3>4. /\ DOMAIN sessions' = DOMAIN sessions \cup {t} /\ sessions'[t] = Session(Account(p))
          /\ \A u \in DOMAIN sessions : u # t /\ sessions'[u] = sessions[u]
      BY <1>4, <3>1 DEF Put
    <3>5. /\ DOMAIN Session(Account(p)) = {"account", "expires", "bytes", "files"}
          /\ Session(Account(p)).expires = now + TTL /\ DOMAIN Session(Account(p)).files = {}
      BY DEF Session
    <3>6. now + TTL \in Nat /\ IsFiniteSet({})
      BY McpAssumption, FS_EmptySet DEF LinksInv, SessionTypes
    <3>7. SessionTypes'
      BY <3>1, <3>4, <3>5, <3>6 DEF LinksInv, SessionTypes
    <3>8. Grows
      BY <3>4 DEF Grows
    <3>9. Listing'
      BY <3>1, <3>4 DEF LinksInv, Listing, Unexpired
    <3>10. HandoffIsKept(p)'
      <4>1. posts[p].files = <<>>
        BY <3>1 DEF LinksInv, Handoffs, HandoffIsKept
      <4> QED
        BY <3>2, <3>3, <3>4, <4>1 DEF HandoffIsKept
    <3> QED
      BY <3>1, <3>3, <3>7, <3>8, <3>9, <3>10, LinksKept
  <2> QED
    BY <2>1, <2>2
<1>5. ASSUME NEW p \in Posts, NEW name, SaveAsset(p, name) PROVE LinksInv'
  <2>0. posts[p].at = "assets" /\ UNCHANGED <<now, links>> /\ HandoffIsKept(p) /\ DOMAIN posts[p] = Fields
    BY <1>5 DEF SaveAsset, LinksInv, Handoffs, PostTypes
  <2>1. CASE Saved(p) < MaxHandoff /\ Fits(Account(p), 1)
    <3>1. PICK asset, t, file, content, left :
            /\ asset = posts[p].todo /\ t = posts[p].token /\ file = FileName(t, name)
            /\ content = Content(p, asset) /\ left = posts[p].left
      OBVIOUS
    <3> DEFINE r == [posts[p] EXCEPT !.todo = asset - 1, !.files = Put(@, asset, file)]
    <3>2. Store(t, file, content, 1) /\ listed' = listed /\ posts' = [posts EXCEPT ![p] = r]
      BY <1>5, <2>1, <3>1 DEF SaveAsset, Save, Goes
    <3>3. /\ r.at = "assets" /\ DOMAIN r = Fields /\ r.token = t /\ r.left = left
          /\ r.files = Put(posts[p].files, asset, file)
      BY <2>0, <3>1 DEF Fields
    <3> HIDE DEF r
    <3>4. Step(p, r) /\ posts'[p] = r
      BY <3>2, <3>3 DEF LinksInv, PostTypes, Step, Waiting
    <3>5. SessionTypes' /\ Grows /\ Listing' /\ Holds(t, file, content)' /\ t \in DOMAIN sessions'
      BY <2>0, <3>1, <3>2, Saving
    <3>6. \A a : Content(p, a)' = Content(p, a) /\ (a = asset => Content(p, a) = content)
      BY <3>1, <3>3, <3>4 DEF Content
    <3>7. /\ DOMAIN r.files = DOMAIN posts[p].files \cup {asset} /\ r.files[asset] = file
          /\ \A a \in DOMAIN posts[p].files : a # asset => r.files[a] = posts[p].files[a]
      BY <3>3 DEF Put
    <3>8. \A a \in DOMAIN posts[p].files :
            \A f, c : f = posts[p].files[a] /\ c = Content(p, a) => Holds(t, f, c)'
      BY <2>0, <3>1, <3>5, HoldsOn DEF HandoffIsKept
    <3>9. \A a \in DOMAIN r.files : \A f, c : f = r.files[a] /\ c = Content(p, a) => Holds(t, f, c)'
      BY <3>5, <3>6, <3>7, <3>8
    <3>10. HandoffIsKept(p)'
      BY <3>3, <3>4, <3>5, <3>6, <3>9 DEF HandoffIsKept
    <3> QED
      BY <2>0, <3>4, <3>5, <3>10, LinksKept
  <2>2. CASE ~(Saved(p) < MaxHandoff /\ Fits(Account(p), 1))
    <3>1. posts' = [posts EXCEPT ![p] = [posts[p] EXCEPT !.todo = posts[p].todo - 1]] /\ UNCHANGED store
      BY <1>5, <2>2 DEF SaveAsset, Goes
    <3> QED
      BY <1>1, <2>0, <3>1, LinksSkip
  <2> QED
    BY <2>1, <2>2
<1>6. ASSUME NEW p \in Posts, SkipAsset(p) PROVE LinksInv'
  <2>1. /\ posts' = [posts EXCEPT ![p] = [posts[p] EXCEPT !.todo = posts[p].todo - 1]]
        /\ posts[p].at = "assets" /\ UNCHANGED <<now, store, links>>
    BY <1>6 DEF SkipAsset, Goes
  <2> QED
    BY <1>1, <2>1, LinksSkip
<1>7. ASSUME NEW p \in Posts, FinishHandoff(p) PROVE LinksInv'
  <2>0. posts[p].at = "assets" /\ Rests(p) /\ now' = now /\ HandoffIsKept(p)
    BY <1>7, Resting DEF FinishHandoff, LinksInv, Handoffs
  <2>1. CASE ~Fits(Account(p), 0)
    BY <1>1, <1>7, <2>0, <2>1, RestsKept DEF FinishHandoff
  <2>2. CASE Fits(Account(p), 0)
    <3>1. PICK t, file, content :
            t = posts[p].token /\ file = FileName(t, "handoff.json") /\ content = Content(p, 0)
      OBVIOUS
    <3>2. Store(t, file, content, 1) /\ listed' = listed /\ links' = links \cup LinksOf(p)
      BY <1>7, <2>2, <3>1 DEF FinishHandoff, SaveManifest
    <3>3. SessionTypes' /\ Grows /\ Listing' /\ Holds(t, file, content)' /\ t \in DOMAIN sessions'
      BY <2>0, <3>1, <3>2, Saving
    <3>4. \A l \in LinksOf(p) :
            \/ l.token = t /\ l.file = file /\ l.serves = content
            \/ \E a \in DOMAIN posts[p].files :
                 l.token = t /\ l.file = posts[p].files[a] /\ l.serves = Content(p, a)
      BY <3>1 DEF LinksOf
    <3>5. \A l \in links \cup LinksOf(p) : Holds(l.token, l.file, l.serves) \/ Holds(l.token, l.file, l.serves)'
      BY <2>0, <3>1, <3>3, <3>4 DEF HandoffIsKept, LinksInv, Promises
    <3>6. Promises'
      BY <3>2, <3>3, <3>5, HoldsOn DEF Promises
    <3> QED
      BY <2>0, <3>3, <3>6, RestsKept
  <2> QED
    BY <2>1, <2>2
<1>8. CASE UNCHANGED <<posts, links>> /\ SessionTypes' /\ Grows /\ Listing'
  BY <1>8, HoldsOn DEF LinksInv, PostTypes, Handoffs
<1>9. CASE Tick
  <2>1. now' = now + 1 /\ UNCHANGED <<sessions, listed, posts, links>>
    BY <1>9 DEF Tick, store
  <2>2. SessionTypes' /\ Grows /\ Listing'
    BY <2>1 DEF LinksInv, SessionTypes, Grows, Listing
  <2> QED
    BY <1>8, <2>1, <2>2
<1>10. CASE PruneAssets
  BY <1>2, <1>8, <1>10 DEF PruneAssets, Prune
<1>11. CASE UNCHANGED vars
  BY <1>1, <1>8, <1>11 DEF vars, store
<1> QED
  BY <1>3, <1>4, <1>5, <1>6, <1>7, <1>9, <1>10, <1>11 DEF Next

\* A link that a handoff returned serves the very asset it was returned for until
\* the session expires, though assets share names, with each other or with the
\* manifest, and other handoffs and prunings run meanwhile (save(),
\* saveManifest()).
THEOREM Links == Spec => []LinksServeTheirAsset
<1>1. LinksInv => LinksServeTheirAsset
  BY DEF LinksInv, Listing, Promises, Holds, LinksServeTheirAsset, Served
<1> QED
  BY <1>1, InitLinks, StepLinks, PTL DEF Spec

-----------------------------------------------------------------------------
(* Storage *)

\* Of a table s of sessions: which have a manifest, what they hold, and the bound.
HasManifest(s, t) == \E file \in DOMAIN s[t].files : s[t].files[file][3] = 0

WithManifest(s, L) == {t \in L : HasManifest(s, t)}

BytesIn(s, L) == SumFunction([t \in L |-> s[t].bytes])

Bounded(s, L, max) == BytesIn(s, L) <= max + Cardinality(WithManifest(s, L))

TableOK(s) ==
  /\ IsFiniteSet(DOMAIN s)
  /\ \A t \in DOMAIN s : s[t].bytes \in Nat /\ (HasManifest(s, t) => s[t].bytes # 0)

LEMMA TableFacts ==
  ASSUME NEW s, TableOK(s), NEW L \in SUBSET DOMAIN s
  PROVE  /\ IsSummable([t \in L |-> s[t].bytes]) /\ BytesIn(s, L) \in Nat
         /\ IsFiniteSet(WithManifest(s, L)) /\ Cardinality(WithManifest(s, L)) \in Nat
<1>1. IsFiniteSet(L)
  BY FS_Subset DEF TableOK
<1>2. IsSummable([t \in L |-> s[t].bytes])
  BY <1>1 DEF TableOK, IsSummable
<1>3. IsFiniteSet(WithManifest(s, L))
  BY <1>1, FS_Subset DEF WithManifest
<1> QED
  BY <1>2, <1>3, SumIsNat, FS_CardinalityType DEF BytesIn

LEMMA BoundedSame ==
  ASSUME NEW s, NEW s2, NEW L, \A t \in L : s2[t] = s[t], NEW max, Bounded(s, L, max)
  PROVE  Bounded(s2, L, max)
<1>1. [t \in L |-> s2[t].bytes] = [t \in L |-> s[t].bytes]
  OBVIOUS
<1>2. WithManifest(s2, L) = WithManifest(s, L)
  BY DEF WithManifest, HasManifest
<1> QED
  BY <1>1, <1>2 DEF Bounded, BytesIn

\* What is taken off the list counts at least the manifests that go with it.
LEMMA BoundedPart ==
  ASSUME NEW s, TableOK(s), NEW L \in SUBSET DOMAIN s, NEW M \in SUBSET L, NEW max \in Nat, Bounded(s, L, max)
  PROVE  Bounded(s, M, max)
<1> DEFINE f == [t \in L |-> s[t].bytes]
           g == [t \in M |-> s[t].bytes]
           h == [t \in L \ M |-> s[t].bytes]
           gone == WithManifest(s, L \ M)
<1>1. /\ IsSummable(f) /\ BytesIn(s, L) \in Nat /\ BytesIn(s, M) \in Nat
      /\ IsFiniteSet(WithManifest(s, M)) /\ Cardinality(WithManifest(s, M)) \in Nat
      /\ IsFiniteSet(gone) /\ Cardinality(gone) \in Nat
  BY TableFacts
<1>2. IsSummable(h) /\ SumFunction(f) = SumFunction(g) + SumFunction(h)
  <2>1. /\ DOMAIN g \cup DOMAIN h = DOMAIN f /\ DOMAIN g \cap DOMAIN h = {}
        /\ \A y \in DOMAIN g : g[y] = f[y] /\ \A z \in DOMAIN h : h[z] = f[z]
    OBVIOUS
  <2>2. \A z \in DOMAIN h : h[z] = f[z]
    OBVIOUS
  <2> HIDE DEF f, g, h
  <2> QED
    BY <1>1, <2>1, <2>2, SumOfParts
<1>3. Cardinality(gone) <= SumFunction(h)
  <2>1. gone \in SUBSET DOMAIN h /\ \A t \in gone : h[t] # 0
    BY DEF TableOK, WithManifest
  <2> HIDE DEF h, gone
  <2> QED
    BY <1>2, <2>1, SumIsAtLeast
<1>4. Cardinality(WithManifest(s, L)) = Cardinality(WithManifest(s, M)) + Cardinality(gone)
  <2>1. WithManifest(s, L) = WithManifest(s, M) \cup gone /\ WithManifest(s, M) \cap gone = {}
    BY DEF WithManifest
  <2>2. Cardinality(WithManifest(s, L)) = Cardinality(WithManifest(s, M)) + Cardinality(gone) - Cardinality({})
    BY <1>1, <2>1, FS_Union
  <2> QED
    BY <1>1, <2>2, FS_EmptySet
<1>5. SumFunction(h) \in Nat
  BY <1>2, SumIsNat
<1> QED
  BY <1>1, <1>2, <1>3, <1>4, <1>5 DEF Bounded, BytesIn

\* The session t gets a file of one unit: within the limit, or its manifest.
LEMMA BoundedSave ==
  ASSUME NEW s, TableOK(s), NEW s2, TableOK(s2), DOMAIN s2 = DOMAIN s, NEW L \in SUBSET DOMAIN s, NEW t \in L,
         \A u \in L \ {t} : s2[u] = s[u], s2[t].bytes = s[t].bytes + 1,
         NEW max \in Nat,
         \/ BytesIn(s, L) + 1 <= max
         \/ Bounded(s, L, max) /\ ~HasManifest(s, t) /\ HasManifest(s2, t)
  PROVE  Bounded(s2, L, max)
<1> DEFINE f == [u \in L |-> s[u].bytes]
           f2 == [u \in L |-> s2[u].bytes]
<1>1. /\ IsSummable(f) /\ BytesIn(s, L) \in Nat
      /\ IsFiniteSet(WithManifest(s, L)) /\ Cardinality(WithManifest(s, L)) \in Nat
      /\ BytesIn(s2, L) \in Nat /\ Cardinality(WithManifest(s2, L)) \in Nat
  BY TableFacts
<1>2. /\ DOMAIN f2 = DOMAIN f /\ t \in DOMAIN f /\ f[t] \in Nat /\ f2[t] = f[t] + 1
      /\ \A u \in DOMAIN f \ {t} : f2[u] = f[u]
  BY DEF TableOK
<1> HIDE DEF f, f2
<1>3. SumFunction(f2) = SumFunction(f) - f[t] + f2[t]
  BY <1>1, <1>2, SumOfChange
<1>4. BytesIn(s2, L) = BytesIn(s, L) + 1
  <2>1. BytesIn(s2, L) = SumFunction(f2) /\ BytesIn(s, L) = SumFunction(f)
    BY DEF BytesIn, f, f2
  <2> QED
    BY <1>1, <1>2, <1>3, <2>1
<1>5. CASE BytesIn(s, L) + 1 <= max
  BY <1>1, <1>4, <1>5 DEF Bounded
<1>6. CASE Bounded(s, L, max) /\ ~HasManifest(s, t) /\ HasManifest(s2, t)
  <2>1. WithManifest(s2, L) = WithManifest(s, L) \cup {t} /\ t \notin WithManifest(s, L)
    BY <1>6 DEF WithManifest, HasManifest
  <2>2. Cardinality(WithManifest(s2, L)) = Cardinality(WithManifest(s, L)) + 1
    BY <1>1, <2>1, FS_AddElement
  <2> QED
    BY <1>1, <1>4, <1>6, <2>2 DEF Bounded
<1> QED
  BY <1>5, <1>6

\* A session that holds nothing yet is listed too.
LEMMA BoundedOpen ==
  ASSUME NEW s, TableOK(s), NEW L \in SUBSET DOMAIN s, NEW t \in L, s[t].bytes = 0,
         NEW max \in Nat, Bounded(s, L \ {t}, max)
  PROVE  Bounded(s, L, max)
<1> DEFINE f == [u \in L |-> s[u].bytes]
           g == [u \in L \ {t} |-> s[u].bytes]
<1>1. IsSummable(f) /\ BytesIn(s, L \ {t}) \in Nat
  BY TableFacts
<1>2. t \in DOMAIN f /\ f[t] = 0 /\ DOMAIN g = DOMAIN f \ {t} /\ \A u \in DOMAIN g : g[u] = f[u]
  OBVIOUS
<1> HIDE DEF f, g
<1>3. SumFunction(f) = f[t] + SumFunction(g)
  BY <1>1, <1>2, SumWithout
<1>4. BytesIn(s, L) = BytesIn(s, L \ {t})
  <2>1. BytesIn(s, L) = SumFunction(f) /\ BytesIn(s, L \ {t}) = SumFunction(g)
    BY DEF BytesIn, f, g
  <2> QED
    BY <1>1, <1>2, <1>3, <2>1
<1>5. WithManifest(s, L) = WithManifest(s, L \ {t})
  BY DEF WithManifest, TableOK
<1> QED
  BY <1>4, <1>5 DEF Bounded

\* The lists that are bounded.
Within ==
  /\ Bounded(sessions, listed, MaxBytes)
  /\ \A a \in Accounts : Bounded(sessions, ListedOf(a), MaxBytesPerAccount)

\* A handoff under way has a session of its own, which has no manifest yet.
Unsigned ==
  \A p \in Posts : posts[p].at = "assets" =>
    /\ posts[p].token \in DOMAIN sessions /\ ~HasManifest(sessions, posts[p].token)
    /\ posts[p].todo \in Nat
    /\ \A q \in Posts : posts[q].at = "assets" /\ posts[q].token = posts[p].token => q = p

StorageInv == TableOK(sessions) /\ listed \subseteq DOMAIN sessions /\ Within /\ Unsigned

LEMMA Limits == MaxBytes \in Nat /\ MaxBytesPerAccount \in Nat
BY McpAssumption

LEMMA InitStorage == Init => StorageInv
<1> SUFFICES ASSUME Init PROVE StorageInv
  OBVIOUS
<1>1. DOMAIN sessions = {} /\ listed = {} /\ \A p \in Posts : posts[p].at = "new"
  BY Records DEF Init
<1>2. TableOK(sessions)
  BY <1>1, FS_EmptySet DEF TableOK
<1>3. \A max \in Nat : Bounded(sessions, {}, max)
  <2>1. WithManifest(sessions, {}) = {}
    BY DEF WithManifest
  <2>2. DOMAIN [t \in {} |-> sessions[t].bytes] = {} /\ IsSummable([t \in {} |-> sessions[t].bytes])
    BY FS_EmptySet DEF IsSummable
  <2>3. BytesIn(sessions, {}) = 0
    BY <2>2, SumOfZeros DEF BytesIn
  <2> QED
    BY <2>1, <2>3, FS_EmptySet DEF Bounded
<1>4. \A a : ListedOf(a) = {}
  BY <1>1 DEF ListedOf
<1> QED
  BY <1>1, <1>2, <1>3, <1>4, Limits DEF StorageInv, Within, Unsigned

\* Sessions are taken off the list.
LEMMA StoragePruned ==
  ASSUME StorageInv, sessions' = sessions, listed' \subseteq listed
  PROVE  TableOK(sessions)' /\ listed' \subseteq DOMAIN sessions' /\ Within'
<1>1. Bounded(sessions, listed', MaxBytes)
  BY BoundedPart, Limits DEF StorageInv, Within
<1>2. ASSUME NEW a \in Accounts PROVE Bounded(sessions, ListedOf(a)', MaxBytesPerAccount)
  <2>1. ListedOf(a)' \subseteq ListedOf(a) /\ ListedOf(a) \subseteq DOMAIN sessions
    BY DEF ListedOf, StorageInv
  <2> QED
    BY <2>1, BoundedPart, Limits DEF StorageInv, Within
<1> QED
  BY <1>1, <1>2 DEF StorageInv, Within

LEMMA StorageOpened ==
  ASSUME StorageInv, NEW t, t \notin DOMAIN sessions, NEW b, sessions' = Put(sessions, t, Session(b)),
         listed' = Unexpired \cup {t}
  PROVE  /\ TableOK(sessions)' /\ listed' \subseteq DOMAIN sessions' /\ Within'
         /\ DOMAIN sessions' = DOMAIN sessions \cup {t} /\ ~HasManifest(sessions', t)
         /\ \A u \in DOMAIN sessions : sessions'[u] = sessions[u]
<1>1. /\ DOMAIN sessions' = DOMAIN sessions \cup {t} /\ sessions'[t] = Session(b)
      /\ \A u \in DOMAIN sessions : sessions'[u] = sessions[u]
  BY DEF Put
<1>2. sessions'[t].bytes = 0 /\ DOMAIN sessions'[t].files = {} /\ Unexpired \subseteq listed
  BY <1>1 DEF Session, Unexpired
<1>3. ~HasManifest(sessions', t)
  BY <1>2 DEF HasManifest
<1>4. \A u \in DOMAIN sessions : HasManifest(sessions', u) <=> HasManifest(sessions, u)
  BY <1>1 DEF HasManifest
<1>5. TableOK(sessions')
  BY <1>1, <1>2, <1>3, <1>4, FS_AddElement DEF StorageInv, TableOK
<1>6. ASSUME NEW L \in SUBSET DOMAIN sessions, NEW M \in SUBSET DOMAIN sessions', M \ {t} \subseteq L,
             NEW max \in Nat, Bounded(sessions, L, max)
      PROVE  Bounded(sessions', M, max)
  <2>1. Bounded(sessions, M \ {t}, max)
    BY <1>6, BoundedPart DEF StorageInv
  <2>2. Bounded(sessions', M \ {t}, max)
    BY <1>1, <1>6, <2>1, BoundedSame
  <2>3. CASE t \in M
    BY <1>2, <1>5, <2>2, <2>3, BoundedOpen
  <2>4. CASE t \notin M
    <3>1. M \ {t} = M
      BY <2>4
    <3> QED
      BY <2>2, <3>1
  <2> QED
    BY <2>3, <2>4
<1>7. listed' \subseteq DOMAIN sessions' /\ listed' \ {t} \subseteq listed /\ listed \subseteq DOMAIN sessions
  BY <1>1, <1>2 DEF StorageInv
<1>8. Bounded(sessions', listed', MaxBytes)
  BY <1>6, <1>7, Limits DEF StorageInv, Within
<1>9. ASSUME NEW a \in Accounts PROVE Bounded(sessions', ListedOf(a)', MaxBytesPerAccount)
  <2>1. /\ ListedOf(a)' \subseteq DOMAIN sessions' /\ ListedOf(a) \subseteq DOMAIN sessions
        /\ ListedOf(a)' \ {t} \subseteq ListedOf(a)
    BY <1>1, <1>7 DEF ListedOf
  <2> QED
    BY <1>6, <2>1, Limits DEF StorageInv, Within
<1> QED
  BY <1>1, <1>3, <1>5, <1>7, <1>8, <1>9 DEF Within

\* A session gets a file: an asset that fits, or its manifest.
LEMMA StorageSaved ==
  ASSUME StorageInv, SessionTypes, NEW t \in DOMAIN sessions, NEW file, file \notin DOMAIN sessions[t].files,
         NEW content, Store(t, file, content, 1), listed' = listed,
         \/ content[3] # 0 /\ Bytes(listed) + 1 <= MaxBytes /\ Bytes(ListedOf(sessions[t].account)) + 1 <= MaxBytesPerAccount
         \/ content[3] = 0 /\ ~HasManifest(sessions, t)
  PROVE  /\ TableOK(sessions)' /\ listed' \subseteq DOMAIN sessions' /\ Within'
         /\ DOMAIN sessions' = DOMAIN sessions
         /\ \A u \in DOMAIN sessions : u # t => sessions'[u] = sessions[u]
         /\ HasManifest(sessions', t) <=> HasManifest(sessions, t) \/ content[3] = 0
<1>1. sessions' = [sessions EXCEPT ![t].files = Put(@, file, content), ![t].bytes = @ + 1]
  BY DEF Store
<1>2. /\ DOMAIN sessions' = DOMAIN sessions
      /\ \A u \in DOMAIN sessions : u # t => sessions'[u] = sessions[u]
  BY <1>1
<1>3. /\ sessions'[t].files = Put(sessions[t].files, file, content)
      /\ sessions'[t].bytes = sessions[t].bytes + 1 /\ sessions'[t].account = sessions[t].account
  BY <1>1 DEF SessionTypes
<1>4. HasManifest(sessions', t) <=> HasManifest(sessions, t) \/ content[3] = 0
  BY <1>3 DEF HasManifest, Put
<1>5. \A u \in DOMAIN sessions : u # t => (HasManifest(sessions', u) <=> HasManifest(sessions, u))
  BY <1>2 DEF HasManifest
<1>6. sessions[t].bytes \in Nat
  BY DEF StorageInv, TableOK
<1>7. TableOK(sessions')
  BY <1>2, <1>3, <1>5, <1>6 DEF StorageInv, TableOK
<1>8. ASSUME NEW L \in SUBSET DOMAIN sessions, NEW max \in Nat, Bounded(sessions, L, max),
             t \in L => BytesIn(sessions, L) + 1 <= max \/ (~HasManifest(sessions, t) /\ HasManifest(sessions', t))
      PROVE  Bounded(sessions', L, max)
  <2>1. CASE t \in L
    BY <1>2, <1>3, <1>7, <1>8, <2>1, BoundedSave DEF StorageInv
  <2>2. CASE t \notin L
    BY <1>2, <1>8, <2>2, BoundedSame
  <2> QED
    BY <2>1, <2>2
<1>9. Bounded(sessions', listed, MaxBytes)
  <2>1. BytesIn(sessions, listed) = Bytes(listed)
    BY DEF Bytes, BytesIn
  <2> QED
    BY <1>4, <1>8, <2>1, Limits DEF StorageInv, Within
<1>10. ASSUME NEW a \in Accounts PROVE Bounded(sessions', ListedOf(a)', MaxBytesPerAccount)
  <2>1. ListedOf(a)' = ListedOf(a) /\ ListedOf(a) \subseteq DOMAIN sessions
    BY <1>2, <1>3 DEF ListedOf, StorageInv
  <2>2. t \in ListedOf(a) => a = sessions[t].account
    BY DEF ListedOf
  <2>3. BytesIn(sessions, ListedOf(a)) = Bytes(ListedOf(a))
    BY DEF Bytes, BytesIn
  <2>4. Bounded(sessions, ListedOf(a), MaxBytesPerAccount)
    BY DEF StorageInv, Within
  <2>5. t \in ListedOf(a) => \/ BytesIn(sessions, ListedOf(a)) + 1 <= MaxBytesPerAccount
                             \/ ~HasManifest(sessions, t) /\ HasManifest(sessions', t)
    BY <1>4, <2>2, <2>3
  <2> QED
    BY <1>8, <2>1, <2>4, <2>5, Limits
<1> QED
  BY <1>2, <1>4, <1>7, <1>9, <1>10 DEF Within, StorageInv

\* What a step of the POST p has to show.
LEMMA UnsignedKept ==
  ASSUME PostTypes, Unsigned, NEW p \in Posts, NEW r, Step(p, r), DOMAIN sessions \subseteq DOMAIN sessions',
         \A q \in Posts : q # p /\ posts[q].at = "assets" => ~HasManifest(sessions', posts[q].token),
         r.at = "assets" =>
           /\ r.token \in DOMAIN sessions' /\ ~HasManifest(sessions', r.token) /\ r.todo \in Nat
           /\ \A q \in Posts : q # p /\ posts[q].at = "assets" => posts[q].token # r.token
  PROVE  Unsigned'
<1>1. posts'[p] = r /\ \A q \in Posts : q # p => posts'[q] = posts[q]
  BY StepIsLocal
<1> QED
  BY <1>1 DEF Unsigned

\* A step that leaves the sessions alone, and perhaps some unlisted.
LEMMA StorageKept ==
  ASSUME StorageInv, PostTypes, NEW p \in Posts, NEW r, Step(p, r), sessions' = sessions, listed' \subseteq listed,
         r.at = "assets" => posts[p].at = "assets" /\ r.token = posts[p].token /\ r.todo \in Nat
  PROVE  StorageInv'
<1>1. TableOK(sessions)' /\ listed' \subseteq DOMAIN sessions' /\ Within'
  BY StoragePruned
<1>2. Unsigned /\ \A q \in Posts : posts[q].at = "assets" => ~HasManifest(sessions', posts[q].token)
  BY DEF StorageInv, Unsigned
<1>3. r.at = "assets" =>
        /\ r.token \in DOMAIN sessions' /\ ~HasManifest(sessions', r.token)
        /\ \A q \in Posts : q # p /\ posts[q].at = "assets" => posts[q].token # r.token
  BY <1>2 DEF Unsigned
<1>4. Unsigned'
  BY <1>2, <1>3, UnsignedKept
<1> QED
  BY <1>1, <1>4 DEF StorageInv

LEMMA RestStorage ==
  ASSUME StorageInv, PostTypes, NEW p \in Posts, Rests(p), sessions' = sessions, listed' \subseteq listed
  PROVE  StorageInv'
<1>1. PICK r : Step(p, r) /\ r.at # "assets"
  BY DEF Rests
<1> QED
  BY <1>1, StorageKept

LEMMA SaveStorage ==
  ASSUME StorageInv, LinksInv, NEW p \in Posts, posts[p].at = "assets", NEW t, t = posts[p].token, NEW file,
         NEW content, NEW name, file = FileName(t, name), Store(t, file, content, 1), listed' = listed,
         \/ content[3] # 0 /\ Bytes(listed) + 1 <= MaxBytes /\ Bytes(ListedOf(sessions[t].account)) + 1 <= MaxBytesPerAccount
         \/ content[3] = 0,
         NEW r, Step(p, r), r.at = "assets" => content[3] # 0 /\ r.token = t /\ r.todo \in Nat
  PROVE  StorageInv'
<1>1. t \in DOMAIN sessions /\ SessionTypes /\ PostTypes /\ Unsigned /\ ~HasManifest(sessions, t)
  BY DEF LinksInv, StorageInv, Unsigned
<1>2. file \notin DOMAIN sessions[t].files
  BY <1>1, NameIsFree DEF SessionTypes
<1>3. /\ TableOK(sessions)' /\ listed' \subseteq DOMAIN sessions' /\ Within'
      /\ DOMAIN sessions' = DOMAIN sessions
      /\ \A u \in DOMAIN sessions : u # t => sessions'[u] = sessions[u]
      /\ HasManifest(sessions', t) <=> HasManifest(sessions, t) \/ content[3] = 0
  BY <1>1, <1>2, StorageSaved
<1>4. \A q \in Posts : q # p /\ posts[q].at = "assets" =>
        posts[q].token # t /\ ~HasManifest(sessions', posts[q].token)
  BY <1>1, <1>3 DEF Unsigned, HasManifest
<1>5. Unsigned'
  BY <1>1, <1>3, <1>4, UnsignedKept
<1> QED
  BY <1>3, <1>5 DEF StorageInv

LEMMA StepStorage == StorageInv /\ LinksInv /\ [Next]_vars => StorageInv'
<1> SUFFICES ASSUME StorageInv, LinksInv, [Next]_vars PROVE StorageInv'
  OBVIOUS
<1>0. PostTypes /\ Unexpired \subseteq listed
  BY DEF LinksInv, Unexpired
<1>1. ASSUME NEW p \in Posts, Admit(p) \/ BadBody(p) \/ Call(p) \/ \E n : Body(p, n) PROVE StorageInv'
  <2>1. Rests(p) /\ UNCHANGED store
    BY <1>1, Resting DEF Admit, BadBody, Call, Body, Finish
  <2> QED
    BY <1>0, <2>1, RestStorage DEF store
<1>2. ASSUME NEW p \in Posts, NEW t, NEW n \in Nat, PrepareHandoff(p, t, n), t \notin DOMAIN sessions PROVE StorageInv'
  <2>1. CASE ~MayOpen(Account(p))
    <3>1. listed' = Unexpired /\ sessions' = sessions /\ NextMessage(p)
      BY <1>2, <2>1 DEF PrepareHandoff
    <3> QED
      BY <1>0, <3>1, Resting, RestStorage
  <2>2. CASE MayOpen(Account(p))
    <3> DEFINE r == [posts[p] EXCEPT !.at = "assets", !.token = t, !.todo = n]
    <3>1. /\ posts' = [posts EXCEPT ![p] = r]
          /\ sessions' = Put(sessions, t, Session(Account(p))) /\ listed' = Unexpired \cup {t}
      BY <1>2, <2>2 DEF PrepareHandoff, Goes, Open
    <3>2. r.at = "assets" /\ DOMAIN r = Fields /\ r.token = t /\ r.todo = n
      BY <1>0 DEF PostTypes, Fields
    <3> HIDE DEF r
    <3>3. Step(p, r)
      BY <3>1, <3>2 DEF Step, Waiting
    <3>4. /\ TableOK(sessions)' /\ listed' \subseteq DOMAIN sessions' /\ Within'
          /\ DOMAIN sessions' = DOMAIN sessions \cup {t} /\ ~HasManifest(sessions', t)
          /\ \A u \in DOMAIN sessions : sessions'[u] = sessions[u]
      BY <1>2, <3>1, StorageOpened
    <3>5. \A q \in Posts : posts[q].at = "assets" => posts[q].token # t /\ ~HasManifest(sessions', posts[q].token)
      BY <1>2, <3>4 DEF StorageInv, Unsigned, HasManifest
    <3>6. Unsigned'
      BY <1>0, <3>2, <3>3, <3>4, <3>5, UnsignedKept DEF StorageInv
    <3> QED
      BY <3>4, <3>6 DEF StorageInv
  <2> QED
    BY <2>1, <2>2
<1>3. ASSUME NEW p \in Posts, posts[p].at = "assets", posts[p].todo > 0, UNCHANGED store,
             posts' = [posts EXCEPT ![p] = [posts[p] EXCEPT !.todo = posts[p].todo - 1]]
      PROVE  StorageInv'
  <2> DEFINE r == [posts[p] EXCEPT !.todo = posts[p].todo - 1]
  <2>1. /\ r.at = "assets" /\ DOMAIN r = Fields /\ r.token = posts[p].token /\ r.todo = posts[p].todo - 1
        /\ posts' = [posts EXCEPT ![p] = r]
    BY <1>0, <1>3 DEF PostTypes, Fields
  <2> HIDE DEF r
  <2>2. posts[p].todo \in Nat
    BY <1>3 DEF StorageInv, Unsigned
  <2>3. Step(p, r) /\ r.todo \in Nat
    <3>1. r.todo \in Nat
      BY <1>3, <2>1, <2>2
    <3> QED
      BY <2>1, <3>1 DEF Step, Waiting
  <2> QED
    BY <1>0, <1>3, <2>1, <2>3, StorageKept DEF store
<1>4. ASSUME NEW p \in Posts, NEW name, SaveAsset(p, name) PROVE StorageInv'
  <2>0. posts[p].at = "assets" /\ posts[p].todo > 0 /\ posts[p].todo \in Nat
    BY <1>4 DEF SaveAsset, StorageInv, Unsigned
  <2>1. CASE Saved(p) < MaxHandoff /\ Fits(Account(p), 1)
    <3>1. PICK asset, t, file, content :
            /\ asset = posts[p].todo /\ t = posts[p].token /\ file = FileName(t, name) /\ content = Content(p, asset)
      OBVIOUS
    <3> DEFINE r == [posts[p] EXCEPT !.todo = asset - 1, !.files = Put(@, asset, file)]
    <3>2. /\ Store(t, file, content, 1) /\ listed' = listed /\ posts' = [posts EXCEPT ![p] = r]
          /\ Fits(sessions[t].account, 1)
      BY <1>4, <2>1, <3>1 DEF SaveAsset, Save, Goes
    <3>3. r.at = "assets" /\ DOMAIN r = Fields /\ r.token = t /\ r.todo = asset - 1
      BY <1>0, <2>0, <3>1 DEF PostTypes, Fields
    <3> HIDE DEF r
    <3>4. Step(p, r) /\ r.todo \in Nat
      BY <2>0, <3>1, <3>2, <3>3 DEF Step, Waiting
    <3>5. content[3] # 0
      BY <2>0, <3>1 DEF Content
    <3>6. Bytes(listed) + 1 <= MaxBytes /\ Bytes(ListedOf(sessions[t].account)) + 1 <= MaxBytesPerAccount
      BY <3>2 DEF Fits
    <3> QED
      BY <2>0, <3>1, <3>2, <3>3, <3>4, <3>5, <3>6, SaveStorage
  <2>2. CASE ~(Saved(p) < MaxHandoff /\ Fits(Account(p), 1))
    <3>1. posts' = [posts EXCEPT ![p] = [posts[p] EXCEPT !.todo = posts[p].todo - 1]] /\ UNCHANGED store
      BY <1>4, <2>2 DEF SaveAsset, Goes
    <3> QED
      BY <1>3, <2>0, <3>1
  <2> QED
    BY <2>1, <2>2
<1>5. ASSUME NEW p \in Posts, SkipAsset(p) PROVE StorageInv'
  BY <1>3, <1>5 DEF SkipAsset, Goes
<1>6. ASSUME NEW p \in Posts, FinishHandoff(p) PROVE StorageInv'
  <2>0. posts[p].at = "assets" /\ Rests(p)
    BY <1>6, Resting DEF FinishHandoff
  <2>1. CASE ~Fits(Account(p), 0)
    BY <1>0, <1>6, <2>0, <2>1, RestStorage DEF FinishHandoff, store
  <2>2. CASE Fits(Account(p), 0)
    <3>1. PICK t, file, content :
            t = posts[p].token /\ file = FileName(t, "handoff.json") /\ content = Content(p, 0)
      OBVIOUS
    <3>2. Store(t, file, content, 1) /\ listed' = listed
      BY <1>6, <2>2, <3>1 DEF FinishHandoff, SaveManifest
    <3>3. content[3] = 0
      BY <3>1 DEF Content
    <3>4. PICK r : Step(p, r) /\ r.at # "assets"
      BY <2>0 DEF Rests
    <3> QED
      BY <2>0, <3>1, <3>2, <3>3, <3>4, SaveStorage
  <2> QED
    BY <2>1, <2>2
<1>7. CASE UNCHANGED <<posts, sessions>> /\ listed' \subseteq listed
  <2>1. TableOK(sessions)' /\ listed' \subseteq DOMAIN sessions' /\ Within'
    BY <1>7, StoragePruned
  <2> QED
    BY <1>7, <2>1 DEF StorageInv, Unsigned
<1>8. CASE Tick \/ PruneAssets \/ UNCHANGED vars
  BY <1>0, <1>7, <1>8 DEF Tick, PruneAssets, Prune, vars, store
<1>9. \A n \in 0 .. MaxAssets : n \in Nat
  BY McpAssumption
<1> QED
  BY <1>1, <1>2, <1>4, <1>5, <1>6, <1>8, <1>9 DEF Next

\* What a handoff that is not finished has saved: its session holds one unit per
\* asset, no more than a handoff may have, and assets are saved downwards.
Sized(s, post) ==
  /\ IsFiniteSet(DOMAIN post.files) /\ Cardinality(DOMAIN post.files) <= MaxHandoff
  /\ s[post.token].bytes = Cardinality(DOMAIN post.files)
  /\ \A asset \in DOMAIN post.files : asset \in Nat /\ asset > post.todo

SizesInv == \A p \in Posts : posts[p].at = "assets" => Sized(sessions, posts[p])

LEMMA SizesKept ==
  ASSUME PostTypes, SizesInv, NEW p \in Posts, NEW r, Step(p, r),
         \A q \in Posts : q # p /\ posts[q].at = "assets" =>
           sessions'[posts[q].token].bytes = sessions[posts[q].token].bytes,
         r.at = "assets" => Sized(sessions', r)
  PROVE  SizesInv'
<1>1. posts'[p] = r /\ \A q \in Posts : q # p => posts'[q] = posts[q]
  BY StepIsLocal
<1> QED
  BY <1>1 DEF SizesInv, Sized

LEMMA StepSizes == SizesInv /\ StorageInv /\ LinksInv /\ [Next]_vars => SizesInv'
<1> SUFFICES ASSUME SizesInv, StorageInv, LinksInv, [Next]_vars PROVE SizesInv'
  OBVIOUS
<1>0. PostTypes /\ Unsigned /\ MaxHandoff \in Nat
  BY McpAssumption DEF LinksInv, StorageInv
<1>1. ASSUME NEW p \in Posts, Rests(p), sessions' = sessions PROVE SizesInv'
  <2>1. PICK r : Step(p, r) /\ r.at # "assets"
    BY <1>1 DEF Rests
  <2> QED
    BY <1>0, <1>1, <2>1, SizesKept
<1>2. ASSUME NEW p \in Posts, Admit(p) \/ BadBody(p) \/ Call(p) \/ \E n : Body(p, n) PROVE SizesInv'
  <2>1. Rests(p) /\ UNCHANGED store
    BY <1>2, Resting DEF Admit, BadBody, Call, Body, Finish
  <2> QED
    BY <1>1, <2>1 DEF store
<1>3. ASSUME NEW p \in Posts, NEW t, NEW n \in Nat, PrepareHandoff(p, t, n), t \notin DOMAIN sessions PROVE SizesInv'
  <2>1. CASE ~MayOpen(Account(p))
    <3>1. sessions' = sessions /\ NextMessage(p)
      BY <1>3, <2>1 DEF PrepareHandoff
    <3> QED
      BY <1>1, <3>1, Resting
  <2>2. CASE MayOpen(Account(p))
    <3> DEFINE r == [posts[p] EXCEPT !.at = "assets", !.token = t, !.todo = n]
    <3>1. /\ posts' = [posts EXCEPT ![p] = r] /\ posts[p].at = "message"
          /\ sessions' = Put(sessions, t, Session(Account(p)))
      BY <1>3, <2>2 DEF PrepareHandoff, Goes, Open
    <3>2. r.at = "assets" /\ DOMAIN r = Fields /\ r.token = t /\ r.files = posts[p].files
      BY <1>0 DEF PostTypes, Fields
    <3> HIDE DEF r
    <3>3. Step(p, r)
      BY <3>1, <3>2 DEF Step, Waiting
    <3>4. sessions'[t].bytes = 0 /\ \A u \in DOMAIN sessions : sessions'[u] = sessions[u]
      BY <1>3, <3>1 DEF Put, Session
    <3>5. DOMAIN r.files = {}
      BY <3>1, <3>2 DEF LinksInv, Handoffs, HandoffIsKept
    <3>6. Sized(sessions', r)
      BY <1>0, <3>2, <3>4, <3>5, FS_EmptySet DEF Sized
    <3>7. \A q \in Posts : posts[q].at = "assets" => sessions'[posts[q].token] = sessions[posts[q].token]
      BY <1>0, <3>4 DEF Unsigned
    <3> QED
      BY <1>0, <3>3, <3>6, <3>7, SizesKept
  <2> QED
    BY <2>1, <2>2
<1>4. ASSUME NEW p \in Posts, posts[p].at = "assets", posts[p].todo > 0, UNCHANGED store,
             posts' = [posts EXCEPT ![p] = [posts[p] EXCEPT !.todo = posts[p].todo - 1]]
      PROVE  SizesInv'
  <2> DEFINE r == [posts[p] EXCEPT !.todo = posts[p].todo - 1]
  <2>1. /\ r.at = "assets" /\ DOMAIN r = Fields /\ r.token = posts[p].token /\ r.todo = posts[p].todo - 1
        /\ r.files = posts[p].files /\ posts' = [posts EXCEPT ![p] = r]
    BY <1>0, <1>4 DEF PostTypes, Fields
  <2> HIDE DEF r
  <2>2. Step(p, r) /\ posts[p].todo \in Nat /\ Sized(sessions, posts[p])
    BY <1>0, <1>4, <2>1 DEF Step, Waiting, Unsigned, SizesInv
  <2>3. Sized(sessions', r)
    BY <1>4, <2>1, <2>2 DEF Sized, store
  <2> QED
    BY <1>0, <1>4, <2>2, <2>3, SizesKept DEF store
<1>5. ASSUME NEW p \in Posts, NEW name, SaveAsset(p, name) PROVE SizesInv'
  <2>0. /\ posts[p].at = "assets" /\ posts[p].todo > 0 /\ posts[p].todo \in Nat /\ posts[p].token \in DOMAIN sessions
        /\ Sized(sessions, posts[p])
    BY <1>0, <1>5 DEF SaveAsset, Unsigned, SizesInv
  <2>1. CASE Saved(p) < MaxHandoff /\ Fits(Account(p), 1)
    <3>1. PICK asset, t, file, content :
            /\ asset = posts[p].todo /\ t = posts[p].token /\ file = FileName(t, name) /\ content = Content(p, asset)
      OBVIOUS
    <3> DEFINE r == [posts[p] EXCEPT !.todo = asset - 1, !.files = Put(@, asset, file)]
    <3>2. Store(t, file, content, 1) /\ posts' = [posts EXCEPT ![p] = r]
      BY <1>5, <2>1, <3>1 DEF SaveAsset, Save, Goes
    <3>3. /\ r.at = "assets" /\ DOMAIN r = Fields /\ r.token = t /\ r.todo = asset - 1
          /\ r.files = Put(posts[p].files, asset, file)
      BY <1>0, <2>0, <3>1 DEF PostTypes, Fields
    <3> HIDE DEF r
    <3>4. Step(p, r)
      BY <3>2, <3>3 DEF Step, Waiting
    <3>5. /\ sessions'[t].bytes = sessions[t].bytes + 1
          /\ \A u \in DOMAIN sessions : u # t => sessions'[u] = sessions[u]
      BY <2>0, <3>1, <3>2 DEF Store, LinksInv, SessionTypes
    <3>6. DOMAIN r.files = DOMAIN posts[p].files \cup {asset}
      BY <3>3 DEF Put
    <3>7. asset \notin DOMAIN posts[p].files /\ asset \in Nat
      BY <2>0, <3>1 DEF Sized
    <3>8. /\ IsFiniteSet(DOMAIN r.files) /\ Cardinality(DOMAIN r.files) = Cardinality(DOMAIN posts[p].files) + 1
          /\ Cardinality(DOMAIN posts[p].files) \in Nat
      BY <2>0, <3>6, <3>7, FS_AddElement, FS_CardinalityType DEF Sized
    <3>9. Cardinality(DOMAIN r.files) <= MaxHandoff
      BY <1>0, <2>1, <3>8 DEF Saved
    <3>10. \A x \in DOMAIN r.files : x \in Nat /\ x > r.todo
      BY <2>0, <3>1, <3>3, <3>6, <3>7 DEF Sized
    <3>11. Sized(sessions', r)
      BY <2>0, <3>1, <3>3, <3>5, <3>8, <3>9, <3>10 DEF Sized
    <3>12. \A q \in Posts : q # p /\ posts[q].at = "assets" =>
             sessions'[posts[q].token].bytes = sessions[posts[q].token].bytes
      BY <1>0, <2>0, <3>1, <3>5 DEF Unsigned
    <3> QED
      BY <1>0, <3>4, <3>11, <3>12, SizesKept
  <2>2. CASE ~(Saved(p) < MaxHandoff /\ Fits(Account(p), 1))
    <3>1. posts' = [posts EXCEPT ![p] = [posts[p] EXCEPT !.todo = posts[p].todo - 1]] /\ UNCHANGED store
      BY <1>5, <2>2 DEF SaveAsset, Goes
    <3> QED
      BY <1>4, <2>0, <3>1
  <2> QED
    BY <2>1, <2>2
<1>6. ASSUME NEW p \in Posts, SkipAsset(p) PROVE SizesInv'
  BY <1>4, <1>6 DEF SkipAsset, Goes
<1>7. ASSUME NEW p \in Posts, FinishHandoff(p) PROVE SizesInv'
  <2>1. posts[p].at = "assets" /\ Rests(p) /\ posts[p].token \in DOMAIN sessions
    BY <1>0, <1>7, Resting DEF FinishHandoff, Unsigned
  <2>2. PICK r : Step(p, r) /\ r.at # "assets"
    BY <2>1 DEF Rests
  <2>3. \/ sessions' = sessions
        \/ \E file, content : Store(posts[p].token, file, content, 1)
    BY <1>7 DEF FinishHandoff, SaveManifest, store
  <2>4. \A u \in DOMAIN sessions : u # posts[p].token => sessions'[u] = sessions[u]
    BY <2>3 DEF Store
  <2>5. \A q \in Posts : q # p /\ posts[q].at = "assets" => sessions'[posts[q].token] = sessions[posts[q].token]
    BY <1>0, <2>1, <2>4 DEF Unsigned
  <2> QED
    BY <1>0, <2>2, <2>5, SizesKept
<1>8. CASE UNCHANGED <<posts, sessions>>
  BY <1>8 DEF SizesInv
<1>9. CASE Tick \/ PruneAssets \/ UNCHANGED vars
  BY <1>8, <1>9 DEF Tick, PruneAssets, Prune, vars, store
<1>10. \A n \in 0 .. MaxAssets : n \in Nat
  BY McpAssumption
<1> QED
  BY <1>2, <1>3, <1>5, <1>6, <1>7, <1>9, <1>10 DEF Next

\* What is listed is within a limit, what is not is a handoff's at most.
LEMMA BoundedMore ==
  ASSUME NEW s, TableOK(s), NEW L \in SUBSET DOMAIN s, NEW M \in SUBSET DOMAIN s, L \cap M = {},
         \A t \in M : s[t].bytes <= MaxHandoff,
         NEW max \in Nat, Bounded(s, L, max)
  PROVE  BytesIn(s, L \cup M) <= max + Cardinality(WithManifest(s, L)) + MaxHandoff * Cardinality(M)
<1> DEFINE f == [t \in L \cup M |-> s[t].bytes]
           g == [t \in L |-> s[t].bytes]
           h == [t \in M |-> s[t].bytes]
<1>1. /\ IsSummable(f) /\ IsSummable(h) /\ BytesIn(s, L) \in Nat /\ BytesIn(s, M) \in Nat
      /\ Cardinality(WithManifest(s, L)) \in Nat
  <2>1. L \cup M \in SUBSET DOMAIN s
    OBVIOUS
  <2> QED
    BY <2>1, TableFacts
<1>2. MaxHandoff \in Nat
  BY McpAssumption
<1>3. /\ DOMAIN g \cup DOMAIN h = DOMAIN f /\ DOMAIN g \cap DOMAIN h = {}
      /\ \A y \in DOMAIN g : g[y] = f[y]
  OBVIOUS
<1>4. (\A y \in DOMAIN h : h[y] = f[y] /\ h[y] <= MaxHandoff) /\ DOMAIN h = M
  OBVIOUS
<1>5. /\ BytesIn(s, L \cup M) = SumFunction(f) /\ BytesIn(s, L) = SumFunction(g)
      /\ BytesIn(s, M) = SumFunction(h)
  BY DEF BytesIn
<1> HIDE DEF f, g, h
<1>6. SumFunction(f) = SumFunction(g) + SumFunction(h)
  BY <1>1, <1>3, <1>4, SumOfParts
<1>7. SumFunction(h) <= MaxHandoff * Cardinality(M) /\ Cardinality(M) \in Nat
  BY <1>1, <1>2, <1>4, SumIsAtMost
<1>8. MaxHandoff * Cardinality(M) \in Nat
  BY <1>2, <1>7
<1> QED
  BY <1>1, <1>5, <1>6, <1>7, <1>8 DEF Bounded

LEMMA BoundsMemory == StorageInv /\ SizesInv => StorageIsBounded
<1> SUFFICES ASSUME StorageInv, SizesInv PROVE StorageIsBounded
  OBVIOUS
<1>1. Pruned \subseteq DOMAIN sessions /\ Pruned \cap listed = {}
  BY DEF Pruned, StorageInv, Unsigned
<1>2. \A t \in Pruned : sessions[t].bytes <= MaxHandoff
  BY DEF Pruned, SizesInv, Sized
<1>3. Bytes(listed \cup Pruned) <= MaxBytes + Manifests(listed) + MaxHandoff * Cardinality(Pruned)
  <2>1. BytesIn(sessions, listed \cup Pruned)
          <= MaxBytes + Cardinality(WithManifest(sessions, listed)) + MaxHandoff * Cardinality(Pruned)
    BY <1>1, <1>2, BoundedMore, Limits DEF StorageInv, Within
  <2> QED
    BY <2>1 DEF Bytes, BytesIn, Manifests, WithManifest, HasManifest
<1>4. ASSUME NEW a \in Accounts
      PROVE  Bytes(ListedOf(a) \cup PrunedOf(a)) <=
               MaxBytesPerAccount + Manifests(ListedOf(a)) + MaxHandoff * Cardinality(PrunedOf(a))
  <2>1. /\ ListedOf(a) \subseteq listed /\ PrunedOf(a) \subseteq Pruned
        /\ listed \subseteq DOMAIN sessions
    BY DEF ListedOf, PrunedOf, StorageInv
  <2>2. BytesIn(sessions, ListedOf(a) \cup PrunedOf(a)) <=
          MaxBytesPerAccount + Cardinality(WithManifest(sessions, ListedOf(a))) + MaxHandoff * Cardinality(PrunedOf(a))
    BY <1>1, <1>2, <2>1, BoundedMore, Limits DEF StorageInv, Within
  <2> QED
    BY <2>2 DEF Bytes, BytesIn, Manifests, WithManifest, HasManifest
<1> QED
  BY <1>3, <1>4 DEF StorageIsBounded

LEMMA InitSizes == Init => SizesInv
BY Records DEF Init, SizesInv

\* The downloads, of all accounts and of each, take no more memory than the limits
\* say, one manifest per listed session, and one handoff's assets for each session
\* that was pruned while its handoff still writes to it: prunings, other handoffs
\* and sessions that are no longer counted add nothing more (save(),
\* saveManifest()).
THEOREM Storage == Spec => []StorageIsBounded
<1> QED
  BY InitLinks, StepLinks, InitStorage, StepStorage, InitSizes, StepSizes, BoundsMemory, PTL DEF Spec

-----------------------------------------------------------------------------
(* The windows of a key *)

AllBy(g, t) == g \in Seq(Nat) /\ \A i \in 1 .. Len(g) : g[i] <= t

\* The first n of the moments were a window's length before t.
Past(g, n, t) == \A i \in 1 .. Len(g) : i <= n => g[i] + Window <= t

\* count events of a window that began at start, of which limit may go on, are the
\* last of the moments; the window before had at most limit, and those that are
\* older are a window's length away.
Kept(g, limit, count, start) ==
  LET own == IF count <= limit THEN count ELSE limit
  IN /\ own <= Len(g)
     /\ \A i \in 1 .. Len(g) : i <= Len(g) - own => g[i] <= start
     /\ Past(g, Len(g) - own - limit, start)

Spread(g, limit) ==
  \A i \in 1 .. Len(g) : i + 2 * limit <= Len(g) => g[i + 2 * limit] >= g[i] + Window

LEMMA AppendFacts ==
  ASSUME NEW g \in Seq(Nat), NEW t \in Nat
  PROVE  /\ Append(g, t) \in Seq(Nat) /\ Len(Append(g, t)) = Len(g) + 1 /\ Len(g) \in Nat
         /\ \A i \in 1 .. Len(g) : Append(g, t)[i] = g[i] /\ g[i] \in Nat
         /\ Append(g, t)[Len(g) + 1] = t
OBVIOUS

LEMMA Windows == Window \in Nat \ {0}
BY McpAssumption

LEMMA CountMore ==
  ASSUME NEW g \in Seq(Nat), NEW t \in Nat, NEW limit \in Nat, NEW count \in Nat, NEW start \in Nat,
         Kept(g, limit, count, start), AllBy(g, t), start <= t
  PROVE  /\ count + 1 <= limit => Kept(Append(g, t), limit, count + 1, start) /\ AllBy(Append(g, t), t)
         /\ count + 1 > limit => Kept(g, limit, count + 1, start)
<1> USE AppendFacts, Windows
<1>1. ASSUME count + 1 <= limit PROVE Kept(Append(g, t), limit, count + 1, start)
  <2> DEFINE h == Append(g, t)
  <2>1. Len(h) = Len(g) + 1 /\ Len(g) \in Nat /\ count <= Len(g)
    BY <1>1 DEF Kept
  <2>2. \A i \in 1 .. Len(h) : i <= Len(h) - (count + 1) => i \in 1 .. Len(g) /\ i <= Len(g) - count
    BY <2>1
  <2>3. \A i \in 1 .. Len(g) : i <= Len(g) - count => g[i] <= start
    BY <1>1 DEF Kept
  <2>4. Past(g, Len(g) - count - limit, start)
    BY <1>1 DEF Kept
  <2>5. \A i \in 1 .. Len(h) : i <= Len(h) - (count + 1) - limit => i \in 1 .. Len(g) /\ i <= Len(g) - count - limit
    BY <2>1
  <2>6. \A i \in 1 .. Len(g) : h[i] = g[i]
    OBVIOUS
  <2> HIDE DEF h
  <2>7. Past(h, Len(h) - (count + 1) - limit, start)
    BY <2>4, <2>5, <2>6 DEF Past
  <2> QED
    BY <1>1, <2>1, <2>2, <2>3, <2>6, <2>7 DEF Kept, h
<1>2. AllBy(Append(g, t), t)
  BY DEF AllBy
<1>3. ASSUME count + 1 > limit PROVE Kept(g, limit, count + 1, start)
  <2>1. (IF count <= limit THEN count ELSE limit) = (IF count + 1 <= limit THEN count + 1 ELSE limit)
    BY <1>3
  <2> QED
    BY <2>1 DEF Kept
<1> QED
  BY <1>1, <1>2, <1>3

\* A window that is over leaves its events in the past.
LEMMA Expired ==
  ASSUME NEW g \in Seq(Nat), NEW t \in Nat, NEW limit \in Nat, NEW count \in Nat, NEW start \in Nat,
         Kept(g, limit, count, start), start + Window <= t
  PROVE  Past(g, Len(g) - limit, t)
<1> USE Windows
<1>1. (IF count <= limit THEN count ELSE limit) <= limit
  OBVIOUS
<1>2. \A i \in 1 .. Len(g) : i <= Len(g) - limit => g[i] <= start /\ g[i] \in Nat
  BY <1>1 DEF Kept
<1> QED
  BY <1>2 DEF Past

LEMMA CountFirst ==
  ASSUME NEW g \in Seq(Nat), NEW t \in Nat, NEW limit \in Nat, AllBy(g, t), Past(g, Len(g) - limit, t)
  PROVE  /\ 1 <= limit => Kept(Append(g, t), limit, 1, t) /\ AllBy(Append(g, t), t)
         /\ 1 > limit => Kept(g, limit, 1, t)
<1> USE AppendFacts, Windows
<1>1. ASSUME 1 <= limit PROVE Kept(Append(g, t), limit, 1, t)
  <2> DEFINE h == Append(g, t)
  <2>1. Len(h) = Len(g) + 1 /\ Len(g) \in Nat
    OBVIOUS
  <2>2. \A i \in 1 .. Len(g) : h[i] = g[i] /\ g[i] <= t
    BY DEF AllBy
  <2>3. \A i \in 1 .. Len(h) : i <= Len(h) - 1 => i \in 1 .. Len(g)
    BY <2>1
  <2>4. \A i \in 1 .. Len(h) : i <= Len(h) - 1 - limit => i \in 1 .. Len(g) /\ i <= Len(g) - limit
    BY <2>1
  <2> HIDE DEF h
  <2>5. Past(h, Len(h) - 1 - limit, t)
    BY <2>2, <2>4 DEF Past
  <2>6. \A i \in 1 .. Len(h) : i <= Len(h) - 1 => h[i] <= t
    BY <2>2, <2>3
  <2> QED
    BY <1>1, <2>1, <2>5, <2>6 DEF Kept, h
<1>2. AllBy(Append(g, t), t)
  BY DEF AllBy
<1>3. ASSUME 1 > limit PROVE Kept(g, limit, 1, t)
  BY <1>3 DEF Kept, AllBy, Past
<1> QED
  BY <1>1, <1>2, <1>3

\* The next moment is far from the one that is two limits before it.
LEMMA SpreadOn ==
  ASSUME NEW g \in Seq(Nat), NEW t \in Nat, NEW limit \in Nat, NEW count \in Nat \ {0}, NEW start \in Nat,
         Spread(g, limit), count <= limit, start <= t, Kept(Append(g, t), limit, count, start)
  PROVE  Spread(Append(g, t), limit)
<1> DEFINE h == Append(g, t)
<1>1. /\ Len(h) = Len(g) + 1 /\ Len(g) \in Nat /\ h[Len(g) + 1] = t
      /\ \A i \in 1 .. Len(g) : h[i] = g[i] /\ g[i] \in Nat
  BY AppendFacts
<1>2. Past(h, Len(h) - count - limit, start)
  BY DEF Kept
<1> HIDE DEF h
<1> SUFFICES ASSUME NEW i \in 1 .. Len(h), i + 2 * limit <= Len(h) PROVE h[i + 2 * limit] >= h[i] + Window
  BY DEF Spread, h
<1>3. PICK n \in Nat, twice \in Nat, j \in Nat : n = Len(g) /\ twice = 2 * limit /\ j = i + twice
  <2>1. i \in Nat /\ 2 * limit \in Nat /\ i + 2 * limit \in Nat
    BY <1>1
  <2> QED
    BY <1>1, <2>1
<1>4. j = i + 2 * limit /\ n = Len(g) /\ j <= n + 1 /\ i \in 1 .. n + 1 /\ twice > 0
  BY <1>1, <1>3
<1>5. i \in 1 .. n /\ (j \in 1 .. n \/ j = n + 1)
  BY <1>3, <1>4
<1>6. CASE j \in 1 .. n
  BY <1>1, <1>4, <1>5, <1>6 DEF Spread
<1>7. CASE j = n + 1
  <2>1. i <= Len(h) - count - limit
    BY <1>1, <1>4, <1>7
  <2>2. h[i] + Window <= start
    BY <1>2, <2>1 DEF Past
  <2>3. h[j] = t /\ h[i] \in Nat
    BY <1>1, <1>4, <1>5, <1>7
  <2> QED
    BY <1>4, <2>2, <2>3, Windows
<1> QED
  BY <1>5, <1>6, <1>7

Keys == Grants \cup Accounts

\* The window of a key counts what the key did, or there is none and no need of one.
KeyOK(w, g, t, k) ==
  /\ AllBy(g, t) /\ Spread(g, LimitOf[k])
  /\ k \in DOMAIN w =>
       /\ DOMAIN w[k] = {"count", "resetAt"}
       /\ w[k].count \in Nat \ {0} /\ w[k].resetAt \in Nat
       /\ \E start \in Nat : start + Window = w[k].resetAt /\ start <= t /\ Kept(g, LimitOf[k], w[k].count, start)
  /\ k \notin DOMAIN w => Past(g, Len(g) - LimitOf[k], t)

LEMMA RoomFacts ==
  ASSUME NEW w, NEW t, NEW k
  PROVE  /\ DOMAIN Limiter!Room(w, t, k) \subseteq DOMAIN w
         /\ k \in DOMAIN w => k \in DOMAIN Limiter!Room(w, t, k)
         /\ \A x \in DOMAIN w : x \notin DOMAIN Limiter!Room(w, t, k) => ~(w[x].resetAt > t)
         /\ \A x \in DOMAIN Limiter!Room(w, t, k) : Limiter!Room(w, t, k)[x] = w[x]
<1>1. CASE k \notin DOMAIN w /\ Limiter!Full(w)
  <2>1. Limiter!Room(w, t, k) = [x \in Limiter!Live(w, t) |-> w[x]]
    BY <1>1 DEF Limiter!Room, Limiter!Restrict
  <2> QED
    BY <1>1, <2>1 DEF Limiter!Live
<1>2. CASE ~(k \notin DOMAIN w /\ Limiter!Full(w))
  BY <1>2 DEF Limiter!Room
<1> QED
  BY <1>1, <1>2

\* The window of the key that is counted.
LEMMA CountKey ==
  ASSUME NEW w, NEW g, NEW t \in Nat, NEW k \in Keys, KeyOK(w, g, t, k)
  PROVE  KeyOK(Limiter!Counted(w, t, k), IF Limiter!Allowed(w, t, k) THEN Append(g, t) ELSE g, t, k)
<1> DEFINE limit == LimitOf[k]
           c == Limiter!Counted(w, t, k)
           h == IF Limiter!Allowed(w, t, k) THEN Append(g, t) ELSE g
<1>0. /\ limit \in Nat /\ Window \in Nat \ {0} /\ g \in Seq(Nat) /\ AllBy(g, t) /\ Spread(g, limit)
  BY McpAssumption DEF KeyOK, AllBy, Keys
<1>1. CASE Limiter!TurnedAway(w, t, k)
  <2>1. k \notin DOMAIN Limiter!Room(w, t, k) /\ c = Limiter!Room(w, t, k) /\ h = g
    BY <1>1 DEF Limiter!TurnedAway, Limiter!Counted, Limiter!Allowed
  <2>2. k \notin DOMAIN w
    BY <2>1, RoomFacts
  <2> QED
    BY <2>1, <2>2 DEF KeyOK
<1>2. CASE ~Limiter!TurnedAway(w, t, k) /\ k \in Limiter!Live(w, t)
  <2>1. k \in DOMAIN w /\ DOMAIN w[k] = {"count", "resetAt"} /\ w[k].count \in Nat \ {0} /\ w[k].resetAt \in Nat
    BY <1>2 DEF Limiter!Live, KeyOK
  <2>2. PICK start \in Nat : start + Window = w[k].resetAt /\ start <= t /\ Kept(g, limit, w[k].count, start)
    BY <2>1 DEF KeyOK
  <2>3. c = [w EXCEPT ![k].count = @ + 1]
    BY <1>2 DEF Limiter!Counted
  <2>4. /\ k \in DOMAIN c /\ DOMAIN c[k] = {"count", "resetAt"}
        /\ c[k].count = w[k].count + 1 /\ c[k].resetAt = w[k].resetAt
    BY <2>1, <2>3
  <2>5. Limiter!Allowed(w, t, k) <=> w[k].count + 1 <= limit
    BY <1>2, <2>4 DEF Limiter!Allowed
  <2>6. Kept(h, limit, w[k].count + 1, start) /\ AllBy(h, t)
    BY <1>0, <2>1, <2>2, <2>5, CountMore
  <2>7. Spread(h, limit)
    <3>1. CASE w[k].count + 1 <= limit
      <4>1. h = Append(g, t) /\ w[k].count + 1 \in Nat \ {0}
        BY <2>1, <2>5, <3>1
      <4> QED
        BY <1>0, <2>2, <2>6, <3>1, <4>1, SpreadOn
    <3>2. CASE ~(w[k].count + 1 <= limit)
      BY <1>0, <2>5, <3>2
    <3> QED
      BY <3>1, <3>2
  <2>8. w[k].count + 1 \in Nat \ {0}
    BY <2>1
  <2> HIDE DEF c, h, limit
  <2>9. KeyOK(c, h, t, k)
    BY <2>1, <2>2, <2>4, <2>6, <2>7, <2>8 DEF KeyOK, limit
  <2> QED
    BY <2>9 DEF c, h
<1>3. CASE ~Limiter!TurnedAway(w, t, k) /\ k \notin Limiter!Live(w, t)
  <2>1. Past(g, Len(g) - limit, t)
    <3>1. CASE k \notin DOMAIN w
      BY <3>1 DEF KeyOK
    <3>2. CASE k \in DOMAIN w
      <4>1. PICK start \in Nat : start + Window = w[k].resetAt /\ start <= t /\ Kept(g, limit, w[k].count, start)
        BY <3>2 DEF KeyOK
      <4>2. w[k].count \in Nat /\ w[k].resetAt \in Nat /\ ~(w[k].resetAt > t)
        BY <1>3, <3>2 DEF KeyOK, Limiter!Live
      <4> QED
        BY <1>0, <4>1, <4>2, Expired
    <3> QED
      BY <3>1, <3>2
  <2>2. k \in DOMAIN c /\ c[k] = [count |-> 1, resetAt |-> t + Window]
    BY <1>3 DEF Limiter!Counted
  <2>3. Limiter!Allowed(w, t, k) <=> 1 <= limit
    BY <1>3, <2>2 DEF Limiter!Allowed
  <2>4. Kept(h, limit, 1, t) /\ AllBy(h, t)
    BY <1>0, <2>1, <2>3, CountFirst
  <2>5. Spread(h, limit)
    <3>1. CASE 1 <= limit
      <4>1. h = Append(g, t) /\ 1 \in Nat \ {0}
        BY <2>3, <3>1
      <4> QED
        BY <1>0, <2>4, <3>1, <4>1, SpreadOn
    <3>2. CASE ~(1 <= limit)
      BY <1>0, <2>3, <3>2
    <3> QED
      BY <3>1, <3>2
  <2>6. /\ DOMAIN c[k] = {"count", "resetAt"} /\ c[k].count = 1 /\ c[k].resetAt = t + Window
        /\ t + Window \in Nat /\ 1 \in Nat \ {0}
    BY <1>0, <2>2
  <2> HIDE DEF c, h, limit
  <2>7. KeyOK(c, h, t, k)
    BY <2>2, <2>4, <2>5, <2>6 DEF KeyOK, limit
  <2> QED
    BY <2>7 DEF c, h
<1> QED
  BY <1>1, <1>2, <1>3

\* Nothing that happens to another key resets a window that counts.
LEMMA CountOther ==
  ASSUME NEW w, NEW g, NEW t \in Nat, NEW k, NEW x \in Keys, x # k, KeyOK(w, g, t, x)
  PROVE  KeyOK(Limiter!Counted(w, t, k), g, t, x)
<1> DEFINE c == Limiter!Counted(w, t, k)
<1>0. /\ LimitOf[x] \in Nat /\ Window \in Nat \ {0} /\ g \in Seq(Nat)
  BY McpAssumption DEF KeyOK, AllBy, Keys
<1>1. /\ x \in DOMAIN c => x \in DOMAIN w /\ c[x] = w[x]
      /\ x \in DOMAIN w /\ x \notin DOMAIN c => ~(w[x].resetAt > t)
  <2>1. CASE Limiter!TurnedAway(w, t, k)
    BY <2>1, RoomFacts DEF Limiter!Counted
  <2>2. CASE ~Limiter!TurnedAway(w, t, k) /\ k \in Limiter!Live(w, t)
    BY <2>2 DEF Limiter!Counted
  <2>3. CASE ~Limiter!TurnedAway(w, t, k) /\ k \notin Limiter!Live(w, t)
    <3>1. DOMAIN c = DOMAIN Limiter!Room(w, t, k) \cup {k} /\ (x \in DOMAIN c => c[x] = w[x])
      BY <2>3 DEF Limiter!Counted
    <3> QED
      BY <3>1, RoomFacts
  <2> QED
    BY <2>1, <2>2, <2>3
<1> HIDE DEF c
<1>2. CASE x \in DOMAIN c
  BY <1>1, <1>2 DEF KeyOK, c
<1>3. CASE x \notin DOMAIN c
  <2>1. Past(g, Len(g) - LimitOf[x], t)
    <3>1. CASE x \notin DOMAIN w
      BY <3>1 DEF KeyOK
    <3>2. CASE x \in DOMAIN w
      <4>1. PICK start \in Nat :
              start + Window = w[x].resetAt /\ start <= t /\ Kept(g, LimitOf[x], w[x].count, start)
        BY <3>2 DEF KeyOK
      <4>2. w[x].count \in Nat /\ w[x].resetAt \in Nat /\ ~(w[x].resetAt > t)
        BY <1>1, <1>3, <3>2 DEF KeyOK
      <4> QED
        BY <1>0, <4>1, <4>2, Expired
    <3> QED
      BY <3>1, <3>2
  <2> QED
    BY <1>3, <2>1 DEF KeyOK, c
<1> QED
  BY <1>2, <1>3

LEMMA TimeGoesOn ==
  ASSUME NEW w, NEW g, NEW t \in Nat, NEW k, KeyOK(w, g, t, k)
  PROVE  KeyOK(w, g, t + 1, k)
<1>1. AllBy(g, t + 1)
  BY DEF KeyOK, AllBy
<1>2. Past(g, Len(g) - LimitOf[k], t) => Past(g, Len(g) - LimitOf[k], t + 1)
  <2>1. g \in Seq(Nat) /\ Window \in Nat
    BY Windows DEF KeyOK, AllBy
  <2>2. \A i \in 1 .. Len(g) : g[i] + Window <= t => g[i] + Window <= t + 1
    BY <2>1
  <2> QED
    BY <2>2 DEF Past
<1> QED
  BY <1>1, <1>2 DEF KeyOK

LimiterInv == now \in Nat /\ DOMAIN granted = Keys /\ \A k \in Keys : KeyOK(windows, granted[k], now, k)

LEMMA InitLimiter == Init => LimiterInv
<1> SUFFICES ASSUME Init PROVE LimiterInv
  OBVIOUS
<1>1. now \in Nat /\ DOMAIN granted = Keys /\ DOMAIN windows = {}
  BY DEF Init, Keys
<1>2. \A k \in Keys : granted[k] = <<>>
  BY DEF Init, Keys
<1>3. AllBy(<<>>, now) /\ \A n : Past(<<>>, n, now) /\ Spread(<<>>, n)
  BY DEF AllBy, Past, Spread
<1> QED
  BY <1>1, <1>2, <1>3 DEF LimiterInv, KeyOK

LEMMA StepCount ==
  ASSUME LimiterInv, NEW p \in Posts, CountEvent(p), now' = now
  PROVE  LimiterInv'
<1> DEFINE k == GrantOf[p]
           a == Account(p)
           w == AfterGrant(p)
<1>0. k \in Keys /\ a \in Keys /\ a # k /\ now \in Nat
  BY Accounted, McpAssumption DEF Keys, LimiterInv
<1>1. /\ DOMAIN granted' = Keys
      /\ \A x \in Keys : granted'[x] = IF \/ x = k /\ Limiter!Allowed(windows, now, x)
                                          \/ x = a /\ MayGoOn(p)
                                       THEN Append(granted[x], now) ELSE granted[x]
  BY DEF CountEvent, LimiterInv
<1>2. w = Limiter!Counted(windows, now, k)
  BY DEF AfterGrant
<1>3. windows' = IF Limiter!Allowed(windows, now, k) THEN Limiter!Counted(w, now, a) ELSE w
  BY DEF CountEvent
<1>4. MayGoOn(p) <=> Limiter!Allowed(windows, now, k) /\ Limiter!Allowed(w, now, a)
  BY DEF MayGoOn
<1> HIDE DEF k, a, w
<1>5. KeyOK(w, IF Limiter!Allowed(windows, now, k) THEN Append(granted[k], now) ELSE granted[k], now, k)
  BY <1>0, <1>2, CountKey DEF LimiterInv
<1>6. \A x \in Keys : x # k => KeyOK(w, granted[x], now, x)
  BY <1>0, <1>2, CountOther DEF LimiterInv
<1>7. CASE ~Limiter!Allowed(windows, now, k)
  <2>1. windows' = w /\ \A x \in Keys : granted'[x] = granted[x]
    BY <1>1, <1>3, <1>4, <1>7
  <2> QED
    BY <1>0, <1>1, <1>5, <1>6, <1>7, <2>1 DEF LimiterInv
<1>8. CASE Limiter!Allowed(windows, now, k)
  <2>1. windows' = Limiter!Counted(w, now, a)
    BY <1>3, <1>8
  <2>2. /\ granted'[k] = Append(granted[k], now)
        /\ granted'[a] = IF Limiter!Allowed(w, now, a) THEN Append(granted[a], now) ELSE granted[a]
        /\ \A x \in Keys : x # k /\ x # a => granted'[x] = granted[x]
    BY <1>0, <1>1, <1>4, <1>8
  <2>3. KeyOK(windows', granted'[a], now, a)
    BY <1>0, <1>6, <2>1, <2>2, CountKey
  <2>4. KeyOK(windows', granted'[k], now, k)
    BY <1>0, <1>5, <1>8, <2>1, <2>2, CountOther
  <2>5. \A x \in Keys : x # k /\ x # a => KeyOK(windows', granted'[x], now, x)
    BY <1>0, <1>6, <2>1, <2>2, CountOther
  <2> QED
    BY <1>0, <1>1, <2>3, <2>4, <2>5 DEF LimiterInv
<1> QED
  BY <1>7, <1>8

LEMMA StepLimiter == LimiterInv /\ [Next]_vars => LimiterInv'
<1> SUFFICES ASSUME LimiterInv, [Next]_vars PROVE LimiterInv'
  OBVIOUS
<1>1. CASE UNCHANGED <<now, windows, granted>>
  BY <1>1 DEF LimiterInv
<1>2. ASSUME NEW p \in Posts, Admit(p) PROVE LimiterInv'
  BY <1>2, StepCount DEF Admit
<1>3. CASE Tick
  <2>1. now' = now + 1 /\ UNCHANGED <<windows, granted>>
    BY <1>3 DEF Tick
  <2>2. now \in Nat /\ now + 1 \in Nat
    BY DEF LimiterInv
  <2> QED
    BY <2>1, <2>2, TimeGoesOn DEF LimiterInv
<1> QED
  BY <1>1, <1>2, <1>3
  DEF Next, vars, BadBody, Body, Call, PrepareHandoff, SaveAsset, SkipAsset, FinishHandoff, PruneAssets, Prune,
      NextMessage, Finish

\* However many other keys fill the table of windows, a key goes on at most twice
\* its limit in any stretch of a window's length (allow(): only expired windows
\* are pruned, and a new key is turned away rather than let in by a reset).
THEOREM Floods == Spec => []FloodsResetNoCounter
<1>1. LimiterInv => FloodsResetNoCounter
  <2> SUFFICES ASSUME LimiterInv, NEW k \in Keys, NEW i \in DOMAIN granted[k], i + 2 * LimitOf[k] \in DOMAIN granted[k]
               PROVE  granted[k][i + 2 * LimitOf[k]] >= granted[k][i] + Window
    BY DEF FloodsResetNoCounter, LimiterInv
  <2>1. granted[k] \in Seq(Nat) /\ Spread(granted[k], LimitOf[k])
    BY DEF LimiterInv, KeyOK, AllBy
  <2>2. DOMAIN granted[k] = 1 .. Len(granted[k])
    BY <2>1
  <2> QED
    BY <2>2, <2>1 DEF Spread
<1> QED
  BY <1>1, InitLimiter, StepLimiter, PTL DEF Spec
=============================================================================
