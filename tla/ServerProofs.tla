---------------------------- MODULE ServerProofs ----------------------------
(***************************************************************************)
(* Proofs about the documents the server keeps: for each component the     *)
(* invariants its run checks, for any number of requests and documents.    *)
(* No fairness is used, and of the constants only what the components      *)
(* assume of them and, for the backend's multisig, that its threshold is   *)
(* three at most (the code asks for two).  Each component's specification  *)
(* is its Init and its Next.                                               *)
(***************************************************************************)
EXTENDS Sessions, ApiKeys, TokenRegistry, Scanner, Backups, Billing,
        MultiSigService, Nfts, Dao, EventIndexer, SumTheorems

\* At most one member: at most one counted.
LEMMA AtMostOne ==
    ASSUME NEW S, \A x, y \in S : x = y
    PROVE  IsFiniteSet(S) /\ Cardinality(S) \in Nat /\ Cardinality(S) <= 1
<1>1. CASE S = {}
  BY <1>1, FS_EmptySet
<1>2. CASE S # {}
  <2>1. PICK x \in S : S = {x}
    BY <1>2
  <2> QED
    BY <2>1, FS_Singleton
<1> QED
  BY <1>1, <1>2

-----------------------------------------------------------------------------
(* Accounts and sessions.                                                    *)

SessionsSpec == SessionsInit /\ [][SessionsNext]_sessionsVars

SignInStates == [wallet : SUBSET Wallets,
                 pc : {"idle", "creating", "registered", "rejected",
                       "challenged", "signed", "in", "failed"}]
PostStates == [user : SUBSET Users, pc : {"idle", "verified", "found", "done"}]
ClaimStates == [id : SUBSET (Wallets \cup Profiles), user : SUBSET Users,
                pc : {"idle", "saving", "linking", "done"}]

SessionTypes ==
    /\ account \in [Users -> Account]
    /\ signIn \in [SignIns -> SignInStates]
    /\ challenge \in [SignIns -> {"none", "fresh", "used"}]
    /\ post \in [PostIds -> PostStates]
    /\ live \in SUBSET PostIds
    /\ claim \in [Claims -> ClaimStates]
    /\ \A c \in Claims : claim[c].pc = "linking" =>
          claim[c].id \in SUBSET Wallets /\ claim[c].user # {}

\* The post holds a session, or may still get one.
OpenPost(x) == x \in live \/ post[x].pc \in {"verified", "found"}

\* A challenge that may still be used has opened nothing, and nothing is posted
\* of a challenge that was not issued.
OneOpenPost ==
    /\ \A x \in PostIds : OpenPost(x) =>
          /\ challenge[x[1]] # "fresh"
          /\ signIn[x[1]].pc \notin {"idle", "creating", "registered"}
    /\ \A x, y \in PostIds : x[1] = y[1] /\ OpenPost(x) /\ OpenPost(y) => x = y

SessionsInv == SessionTypes /\ OneAccountPerIdentity /\ OneOpenPost

\* A post belongs to a sign-in.
LEMMA PostsAre == ASSUME NEW x \in PostIds PROVE x[1] \in SignIns
  BY DEF PostIds

\* Steps about the accounts and the claims.
LEMMA AccountsKept ==
    ASSUME SessionsInv, UNCHANGED account
    PROVE  OneAccountPerIdentity' /\ account' \in [Users -> Account]
  BY DEF SessionsInv, SessionTypes, OneAccountPerIdentity, Identities

\* A save the unique indexes let through keeps identities apart.
LEMMA AccountSaved ==
    ASSUME SessionsInv, NEW u, NEW a \in Account, Save(u, a)
    PROVE  OneAccountPerIdentity' /\ account' \in [Users -> Account]
<1>1. account \in [Users -> Account] /\ account' = [account EXCEPT ![u] = a]
  BY DEF SessionsInv, SessionTypes, Save
<1>2. OneAccountPerIdentity'
  <2> SUFFICES ASSUME NEW v \in Users, NEW w \in Users, v # w
               PROVE  Identities(account'[v]) \cap Identities(account'[w]) = {}
    BY DEF OneAccountPerIdentity, Identities
  <2>1. Identities(account[v]) \cap Identities(account[w]) = {}
    BY DEF SessionsInv, OneAccountPerIdentity
  <2>2. \A z \in Users \ {u} : Identities(account[z]) \cap Identities(a) = {}
    BY DEF Save, Unique
  <2>3. CASE v = u
    <3>1. account'[v] = a /\ account'[w] = account[w]
      BY <1>1, <2>3
    <3> QED
      BY <2>2, <2>3, <3>1
  <2>4. CASE w = u
    <3>1. account'[w] = a /\ account'[v] = account[v]
      BY <1>1, <2>4
    <3> QED
      BY <2>2, <2>4, <3>1
  <2>5. CASE v # u /\ w # u
    <3>1. account'[w] = account[w] /\ account'[v] = account[v]
      BY <1>1, <2>5
    <3> QED
      BY <2>1, <3>1
  <2> QED
    BY <2>3, <2>4, <2>5
<1> QED
  BY <1>1, <1>2

\* Steps that open no post, issue no challenge and move no sign-in back.
LEMMA PostsKept ==
    ASSUME SessionsInv, \A x \in PostIds : OpenPost(x)' => OpenPost(x),
           \A s \in SignIns : challenge'[s] = "fresh" => challenge[s] = "fresh",
           \A s \in SignIns : signIn'[s].pc \in {"idle", "creating", "registered"} =>
                              signIn[s].pc \in {"idle", "creating", "registered"}
    PROVE  OneOpenPost'
<1>1. \A x \in PostIds : x[1] \in SignIns
  BY PostsAre
<1>2. PostIds' = PostIds
  BY DEF PostIds
<1>3. OneOpenPost
  BY DEF SessionsInv
<1> QED
  BY <1>1, <1>2, <1>3 DEF OneOpenPost

\* What a sign-in, a post or a claim becomes.
LEMMA SignInMoves ==
    ASSUME SessionsInv, NEW s \in SignIns, NEW n \in SignInStates,
           signIn' = [signIn EXCEPT ![s] = n],
           UNCHANGED <<challenge, post, live, claim>>,
           OneAccountPerIdentity' /\ account' \in [Users -> Account],
           n.pc \in {"idle", "creating", "registered"} =>
               signIn[s].pc \in {"idle", "creating", "registered"}
    PROVE  SessionsInv'
<1>1. signIn' \in [SignIns -> SignInStates] /\ \A z \in SignIns : signIn'[z] = IF z = s THEN n ELSE signIn[z]
  BY DEF SessionsInv, SessionTypes
<1>2. SessionTypes'
  BY <1>1 DEF SessionsInv, SessionTypes, SignInStates, PostStates, ClaimStates, Account, PostIds, Emails
<1>3. \A x \in PostIds : OpenPost(x)' => OpenPost(x)
  BY DEF OpenPost
<1>4. OneOpenPost'
  BY <1>1, <1>3, PostsKept
<1> QED
  BY <1>2, <1>4 DEF SessionsInv

\* Connecting and registering take an identity once.
LEMMA ConnectStep ==
    ASSUME SessionsInv, NEW s \in SignIns, NEW w \in Wallets, Connect(s, w) \/ Register(s, w)
    PROVE  SessionsInv'
<1>0. SessionTypes /\ signIn[s] \in SignInStates
  BY DEF SessionsInv, SessionTypes
<1>1. CASE Connect(s, w)
  <2> DEFINE n == [wallet |-> {w}, pc |-> IF With(w) = {} THEN "creating" ELSE "registered"]
  <2>1. n \in SignInStates /\ signIn' = [signIn EXCEPT ![s] = n] /\ signIn[s].pc = "idle"
    BY <1>1 DEF Connect, SignInStates
  <2> HIDE DEF n
  <2>2. UNCHANGED <<account, challenge, post, live, claim>>
    BY <1>1 DEF Connect
  <2> QED
    BY <2>1, <2>2, AccountsKept, SignInMoves
<1>2. CASE Register(s, w)
  <2> DEFINE new == [NoAccount EXCEPT !.key = {w}]
  <2>1. /\ signIn[s].pc = "creating" /\ UNCHANGED <<challenge, post, live, claim>>
        /\ UNCHANGED account \/ \E u \in Unused : Save(u, new)
        /\ \E l \in {"registered", "rejected", "failed"} : At(s, l)
    BY <1>2 DEF Register
  <2>2. PICK l \in {"registered", "rejected", "failed"} :
           signIn' = [signIn EXCEPT ![s] = [signIn[s] EXCEPT !.pc = l]]
    BY <2>1 DEF At
  <2>3. [signIn[s] EXCEPT !.pc = l] \in SignInStates
    BY <1>0 DEF SignInStates
  <2>4. new \in Account
    BY DEF Account, NoAccount
  <2> HIDE DEF new
  <2>5. OneAccountPerIdentity' /\ account' \in [Users -> Account]
    BY <2>1, <2>4, AccountsKept, AccountSaved
  <2> QED
    BY <2>1, <2>2, <2>3, <2>5, SignInMoves
<1> QED
  BY <1>1, <1>2

\* A new challenge is open for its own sign-in.
LEMMA GetChallengeStep ==
    ASSUME SessionsInv, NEW s \in SignIns, GetChallenge(s)
    PROVE  SessionsInv'
<1>1. /\ signIn[s].pc = "registered"
      /\ challenge' = [challenge EXCEPT ![s] = "fresh"]
      /\ signIn' = [signIn EXCEPT ![s] = [signIn[s] EXCEPT !.pc = "challenged"]]
      /\ UNCHANGED <<account, post, live, claim>>
  BY DEF GetChallenge, At
<1>2. signIn[s] \in SignInStates /\ signIn \in [SignIns -> SignInStates]
      /\ challenge \in [SignIns -> {"none", "fresh", "used"}]
  BY DEF SessionsInv, SessionTypes
<1>3. [signIn[s] EXCEPT !.pc = "challenged"] \in SignInStates
  BY <1>2 DEF SignInStates
<1>4. SessionTypes'
  BY <1>1, <1>2, <1>3 DEF SessionsInv, SessionTypes, SignInStates, PostStates, ClaimStates,
     Account, PostIds, Emails
<1>5. \A x \in PostIds : /\ OpenPost(x)' <=> OpenPost(x)
                         /\ x[1] = s => ~OpenPost(x)
                         /\ x[1] \in SignIns
  BY <1>1, PostsAre DEF OpenPost, SessionsInv, OneOpenPost
<1>6. \A z \in SignIns : z # s => challenge'[z] = challenge[z] /\ signIn'[z] = signIn[z]
  BY <1>1, <1>2
<1>7. OneOpenPost'
  <2>1. PostIds' = PostIds /\ OneOpenPost
    BY DEF PostIds, SessionsInv
  <2> QED
    BY <1>5, <1>6, <2>1 DEF OneOpenPost
<1> QED
  BY <1>1, <1>4, <1>7, AccountsKept DEF SessionsInv

\* Signing and answering change no account.
LEMMA SignStep ==
    ASSUME SessionsInv, NEW s \in SignIns,
           SignChallenge(s) \/ \E x \in PostIds : Answer(s, x)
    PROVE  SessionsInv'
<1>1. PICK l \in {"signed", "failed", "in"} :
         signIn' = [signIn EXCEPT ![s] = [signIn[s] EXCEPT !.pc = l]]
  BY DEF SignChallenge, Answer, At
<1>2. UNCHANGED <<account, challenge, post, live, claim>>
  BY DEF SignChallenge, Answer
<1>3. signIn[s] \in SignInStates
  BY DEF SessionsInv, SessionTypes
<1>4. [signIn[s] EXCEPT !.pc = l] \in SignInStates
      /\ [signIn[s] EXCEPT !.pc = l].pc \in {"signed", "failed", "in"}
  BY <1>3 DEF SignInStates
<1> QED
  BY <1>1, <1>2, <1>4, AccountsKept, SignInMoves

\* Steps that change the accounts, the claims or the tokens, and open no post.
LEMMA OtherStep ==
    ASSUME SessionsInv, UNCHANGED <<signIn, challenge, post>>,
           OneAccountPerIdentity' /\ account' \in [Users -> Account],
           live' \in SUBSET live,
           claim' \in [Claims -> ClaimStates],
           \A c \in Claims : claim'[c].pc = "linking" =>
               claim'[c].id \in SUBSET Wallets /\ claim'[c].user # {}
    PROVE  SessionsInv'
<1>1. SessionTypes'
  BY DEF SessionsInv, SessionTypes, SignInStates, PostStates, ClaimStates, Account, PostIds, Emails
<1>2. \A x \in PostIds : OpenPost(x)' => OpenPost(x)
  BY DEF OpenPost
<1>3. OneOpenPost'
  BY <1>2, PostsKept
<1> QED
  BY <1>1, <1>3 DEF SessionsInv

\* An expired challenge gives no session.
LEMMA ExpireChallengeStep ==
    ASSUME SessionsInv, NEW s \in SignIns, ExpireChallenge(s)
    PROVE  SessionsInv'
<1>1. /\ challenge' \in [SignIns -> {"none", "fresh", "used"}]
      /\ \A z \in SignIns : challenge'[z] = "fresh" => challenge[z] = "fresh"
      /\ UNCHANGED <<account, signIn, post, live, claim>>
  BY DEF ExpireChallenge, Forget, SessionsInv, SessionTypes
<1>2. SessionTypes'
  BY <1>1 DEF SessionsInv, SessionTypes, SignInStates, PostStates, ClaimStates, Account, PostIds, Emails
<1>3. OneOpenPost'
  BY <1>1, PostsKept DEF OpenPost
<1> QED
  BY <1>1, <1>2, <1>3, AccountsKept DEF SessionsInv

\* One post moves on.
LEMMA PostMoves ==
    ASSUME SessionsInv, NEW x \in PostIds, NEW n \in PostStates,
           post' = [post EXCEPT ![x] = n], UNCHANGED <<account, signIn, claim>>,
           live' \in SUBSET PostIds, \A y \in live' : y = x \/ y \in live,
           challenge' \in [SignIns -> {"none", "fresh", "used"}],
           \A s \in SignIns : challenge'[s] = "fresh" => challenge[s] = "fresh",
           \/ OpenPost(x)
           \/ n.pc \notin {"verified", "found"} /\ x \notin live'
           \/ /\ challenge[x[1]] = "fresh" /\ challenge'[x[1]] = "used"
              /\ signIn[x[1]].pc = "signed"
    PROVE  SessionsInv'
<1>1. /\ post' \in [PostIds -> PostStates] /\ post'[x] = n
      /\ \A y \in PostIds : y # x => post'[y] = post[y]
  BY DEF SessionsInv, SessionTypes
<1>2. SessionTypes'
  BY <1>1 DEF SessionsInv, SessionTypes, SignInStates, PostStates, ClaimStates, Account, PostIds, Emails
<1>3. \A y \in PostIds : y # x /\ OpenPost(y)' => OpenPost(y)
  BY <1>1 DEF OpenPost
<1>4. OneOpenPost'
  <2>1. CASE OpenPost(x) \/ ~OpenPost(x)'
    <3>1. \A y \in PostIds : OpenPost(y)' => OpenPost(y)
      BY <1>3, <2>1
    <3> QED
      BY <3>1, PostsKept
  <2>2. CASE ~OpenPost(x) /\ OpenPost(x)'
    <3>1. /\ challenge[x[1]] = "fresh" /\ challenge'[x[1]] = "used"
          /\ signIn[x[1]].pc = "signed" /\ x[1] \in SignIns
      BY <1>1, <2>2, PostsAre DEF OpenPost
    <3>2. \A y \in PostIds : y[1] = x[1] => ~OpenPost(y)
      BY <3>1 DEF SessionsInv, OneOpenPost
    <3>3. PostIds' = PostIds /\ OneOpenPost /\ \A y \in PostIds : y[1] \in SignIns
      BY PostsAre DEF PostIds, SessionsInv
    <3> QED
      BY <1>3, <3>1, <3>2, <3>3 DEF OneOpenPost
  <2> QED
    BY <2>1, <2>2
<1> QED
  BY <1>2, <1>4, AccountsKept DEF SessionsInv

\* A challenge is deleted before the first await of the post that uses it.
LEMMA PostStep ==
    ASSUME SessionsInv, NEW x \in PostIds,
           PostLogin(x) \/ FindUser(x) \/ CreateRefreshToken(x)
    PROVE  SessionsInv'
<1>1. /\ post[x] \in PostStates /\ post \in [PostIds -> PostStates] /\ x[1] \in SignIns
      /\ challenge \in [SignIns -> {"none", "fresh", "used"}] /\ live \in SUBSET PostIds
  BY PostsAre DEF SessionsInv, SessionTypes
<1>2. CASE PostLogin(x)
  <2>1. /\ signIn[x[1]].pc = "signed" /\ post[x].pc = "idle"
        /\ UNCHANGED <<account, signIn, live, claim>>
    BY <1>2 DEF PostLogin
  <2>2. CASE challenge[x[1]] = "fresh"
    <3> DEFINE n == [post[x] EXCEPT !.pc = "verified"]
    <3>1. n \in PostStates /\ post' = [post EXCEPT ![x] = n]
          /\ challenge' = [challenge EXCEPT ![x[1]] = "used"]
      BY <1>1, <1>2, <2>2 DEF PostLogin, VerifyChallenge, PostStates
    <3> HIDE DEF n
    <3>2. /\ challenge' \in [SignIns -> {"none", "fresh", "used"}]
          /\ challenge'[x[1]] = "used"
          /\ \A s \in SignIns : challenge'[s] = "fresh" => challenge[s] = "fresh"
      BY <1>1, <3>1
    <3> QED
      BY <1>1, <2>1, <2>2, <3>1, <3>2, PostMoves
  <2>3. CASE challenge[x[1]] # "fresh"
    <3> DEFINE n == [post[x] EXCEPT !.pc = "done"]
    <3>1. n \in PostStates /\ post' = [post EXCEPT ![x] = n] /\ challenge' = challenge
          /\ n.pc = "done"
      BY <1>1, <1>2, <2>3 DEF PostLogin, VerifyChallenge, PostStates
    <3> HIDE DEF n
    <3>2. OpenPost(x) \/ x \notin live'
      BY <2>1 DEF OpenPost
    <3> QED
      BY <1>1, <2>1, <3>1, <3>2, PostMoves
  <2> QED
    BY <2>2, <2>3
<1>3. CASE FindUser(x)
  <2> DEFINE found == {u \in With(CHOOSE w \in signIn[x[1]].wallet : TRUE) : account[u].active}
             n == [user |-> found, pc |-> IF found = {} THEN "done" ELSE "found"]
  <2>1. /\ post[x].pc = "verified" /\ post' = [post EXCEPT ![x] = n]
        /\ UNCHANGED <<account, signIn, challenge, live, claim>>
    BY <1>3 DEF FindUser
  <2>2. found \in SUBSET Users
    BY DEF With
  <2> HIDE DEF found
  <2>3. n \in PostStates
    BY <2>2 DEF PostStates
  <2> HIDE DEF n
  <2>4. OpenPost(x)
    BY <2>1 DEF OpenPost
  <2> QED
    BY <1>1, <2>1, <2>3, <2>4, PostMoves
<1>4. CASE CreateRefreshToken(x)
  <2> DEFINE n == [post[x] EXCEPT !.pc = "done"]
  <2>1. /\ post[x].pc = "found" /\ post' = [post EXCEPT ![x] = n]
        /\ UNCHANGED <<account, signIn, challenge, claim>>
        /\ live' = live \cup {x} \/ live' = live
    BY <1>4 DEF CreateRefreshToken
  <2>2. n \in PostStates
    BY <1>1 DEF PostStates
  <2> HIDE DEF n
  <2>3. OpenPost(x)
    BY <2>1 DEF OpenPost
  <2> QED
    BY <1>1, <2>1, <2>2, <2>3, PostMoves
<1> QED
  BY <1>2, <1>3, <1>4

\* The tokens that are revoked, and the accounts that are suspended.
LEMMA TokensStep ==
    ASSUME SessionsInv,
           \/ \E x \in PostIds : RevokeToken(x)
           \/ \E u \in Users : Suspend(u) \/ RevokeAllUserTokens(u) \/ ExpireAccess(u)
           \/ UNCHANGED sessionsVars
    PROVE  SessionsInv'
<1>1. /\ UNCHANGED <<signIn, challenge, post, claim>> /\ live' \in SUBSET live
      /\ UNCHANGED account \/ \E u \in Users : Suspend(u)
  BY DEF RevokeToken, Suspend, RevokeAllUserTokens, ExpireAccess, sessionsVars
<1>2. /\ claim \in [Claims -> ClaimStates] /\ account \in [Users -> Account]
      /\ \A c \in Claims : claim[c].pc = "linking" =>
            claim[c].id \in SUBSET Wallets /\ claim[c].user # {}
  BY DEF SessionsInv, SessionTypes
<1>3. ASSUME NEW u \in Users, Suspend(u)
      PROVE  OneAccountPerIdentity' /\ account' \in [Users -> Account]
  <2> DEFINE a == [account[u] EXCEPT !.active = FALSE]
  <2>1. account' = [account EXCEPT ![u] = a] /\ account[u] \in Account
    BY <1>2, <1>3 DEF Suspend
  <2>2. a \in Account /\ Identities(a) = Identities(account[u])
    BY <2>1 DEF Account, Identities
  <2> HIDE DEF a
  <2>3. Save(u, a)
    BY <2>1, <2>2 DEF Save, Unique, SessionsInv, OneAccountPerIdentity
  <2> QED
    BY <2>2, <2>3, AccountSaved
<1>4. OneAccountPerIdentity' /\ account' \in [Users -> Account]
  BY <1>1, <1>3, AccountsKept
<1> QED
  BY <1>1, <1>2, <1>4, OtherStep

\* One callback or link request moves on.
LEMMA ClaimMoves ==
    ASSUME SessionsInv, NEW c \in Claims, NEW n \in ClaimStates,
           claim' = [claim EXCEPT ![c] = n], UNCHANGED <<signIn, challenge, post, live>>,
           OneAccountPerIdentity' /\ account' \in [Users -> Account],
           n.pc = "linking" => n.id \in SUBSET Wallets /\ n.user # {}
    PROVE  SessionsInv'
<1>1. /\ claim \in [Claims -> ClaimStates]
      /\ \A k \in Claims : claim[k].pc = "linking" =>
            claim[k].id \in SUBSET Wallets /\ claim[k].user # {}
  BY DEF SessionsInv, SessionTypes
<1>2. /\ claim' \in [Claims -> ClaimStates]
      /\ \A k \in Claims : claim'[k].pc = "linking" =>
            claim'[k].id \in SUBSET Wallets /\ claim'[k].user # {}
  BY <1>1
<1> QED
  BY <1>2, OtherStep

\* OAuth and linking save an identity only where the index lets them.
LEMMA ClaimStep ==
    ASSUME SessionsInv, NEW c \in Claims,
           \/ \E p \in Profiles : Callback(c, p) \/ SaveProfile(c, p)
           \/ \E u \in Users, w \in Wallets : FindLinked(c, u, w)
           \/ LinkStellar(c)
    PROVE  SessionsInv'
<1>0. /\ claim[c] \in ClaimStates /\ account \in [Users -> Account]
      /\ claim[c].pc = "linking" => claim[c].id \in SUBSET Wallets /\ claim[c].user # {}
      /\ \A k : With(k) \in SUBSET Users
  BY DEF SessionsInv, SessionTypes, With
<1>1. ASSUME NEW p \in Profiles, Callback(c, p) PROVE SessionsInv'
  <2> DEFINE n == [id |-> {p}, user |-> IF With(p) # {} THEN {} ELSE With(EmailOf[p]),
                   pc |-> IF With(p) # {} THEN "done" ELSE "saving"]
  <2>1. /\ claim' = [claim EXCEPT ![c] = n]
        /\ UNCHANGED <<account, signIn, challenge, post, live>>
    BY <1>1 DEF Callback
  <2>2. n \in ClaimStates /\ n.pc # "linking"
    BY <1>0 DEF ClaimStates
  <2> HIDE DEF n
  <2> QED
    BY <2>1, <2>2, AccountsKept, ClaimMoves
<1>2. ASSUME NEW p \in Profiles, SaveProfile(c, p) PROVE SessionsInv'
  <2> DEFINE n == [claim[c] EXCEPT !.pc = "done"]
             k == CHOOSE k \in claim[c].user : TRUE
             old == [account[k] EXCEPT !.social = account[k].social \cup {p}]
             new == [NoAccount EXCEPT !.social = {p}, !.email = {EmailOf[p]}]
  <2>1. /\ claim' = [claim EXCEPT ![c] = n]
        /\ UNCHANGED <<signIn, challenge, post, live>>
        /\ \/ claim[c].user # {} /\ Save(k, old)
           \/ \E v \in Unused : Save(v, new)
           \/ UNCHANGED account
    BY <1>2 DEF SaveProfile
  <2>2. n \in ClaimStates /\ n.pc # "linking"
    BY <1>0 DEF ClaimStates
  <2>3. new \in Account
    BY DEF Account, NoAccount, Emails
  <2>4. claim[c].user # {} => old \in Account
    <3> SUFFICES ASSUME claim[c].user # {} PROVE old \in Account
      OBVIOUS
    <3>1. k \in Users
      BY <1>0 DEF ClaimStates
    <3>2. account[k] \in Account
      BY <1>0, <3>1
    <3> HIDE DEF k
    <3> QED
      BY <3>2 DEF Account
  <2> HIDE DEF n, old, new
  <2>5. OneAccountPerIdentity' /\ account' \in [Users -> Account]
    BY <2>1, <2>3, <2>4, AccountsKept, AccountSaved
  <2> QED
    BY <2>1, <2>2, <2>5, ClaimMoves
<1>3. ASSUME NEW u \in Users, NEW w \in Wallets, FindLinked(c, u, w) PROVE SessionsInv'
  <2> DEFINE n == [id |-> {w}, user |-> {u},
                   pc |-> IF With(w) \subseteq {u} THEN "linking" ELSE "done"]
  <2>1. /\ claim' = [claim EXCEPT ![c] = n]
        /\ UNCHANGED <<account, signIn, challenge, post, live>>
    BY <1>3 DEF FindLinked
  <2>2. n \in ClaimStates /\ n.id \in SUBSET Wallets /\ n.user # {}
    BY DEF ClaimStates
  <2> HIDE DEF n
  <2> QED
    BY <2>1, <2>2, AccountsKept, ClaimMoves
<1>4. CASE LinkStellar(c)
  <2> DEFINE n == [claim[c] EXCEPT !.pc = "done"]
             k == CHOOSE k \in claim[c].user : TRUE
             new == [account[k] EXCEPT !.key = claim[c].id]
  <2>1. /\ claim' = [claim EXCEPT ![c] = n] /\ claim[c].pc = "linking"
        /\ UNCHANGED <<signIn, challenge, post, live>>
        /\ Save(k, new) \/ UNCHANGED account
    BY <1>4 DEF LinkStellar
  <2>2. n \in ClaimStates /\ n.pc # "linking"
    BY <1>0 DEF ClaimStates
  <2>3. new \in Account
    <3>1. k \in Users
      BY <1>0, <2>1 DEF ClaimStates
    <3>2. account[k] \in Account /\ claim[c].id \in SUBSET Wallets
      BY <1>0, <2>1, <3>1
    <3> HIDE DEF k
    <3> QED
      BY <3>2 DEF Account
  <2> HIDE DEF n, new
  <2>4. OneAccountPerIdentity' /\ account' \in [Users -> Account]
    BY <2>1, <2>3, AccountsKept, AccountSaved
  <2> QED
    BY <2>1, <2>2, <2>4, ClaimMoves
<1> QED
  BY <1>1, <1>2, <1>3, <1>4

\* The end of the process forgets the challenges and ends what was under way.
LEMMA RestartStep ==
    ASSUME SessionsInv, Restart
    PROVE  SessionsInv'
<1>0. SessionTypes
  BY DEF SessionsInv
<1>1. /\ challenge' = [s \in SignIns |-> IF s \in SignIns THEN "none" ELSE challenge[s]]
      /\ UNCHANGED <<account, live>>
  BY DEF Restart, Forget
<1>2. post' \in [PostIds -> PostStates]
      /\ \A x \in PostIds : post'[x].pc \in {"verified", "found"} => FALSE
  <2>1. ASSUME NEW x \in PostIds
        PROVE  LET n == IF post[x].pc = "idle" THEN post[x] ELSE [post[x] EXCEPT !.pc = "done"]
               IN  n \in PostStates /\ n.pc \notin {"verified", "found"}
    <3>1. post[x] \in PostStates
      BY <1>0 DEF SessionTypes
    <3> QED
      BY <3>1 DEF PostStates
  <2>2. post' = [x \in PostIds |-> IF post[x].pc = "idle" THEN post[x]
                                   ELSE [post[x] EXCEPT !.pc = "done"]]
    BY DEF Restart
  <2> QED
    BY <2>1, <2>2
<1>3. /\ signIn' \in [SignIns -> SignInStates]
      /\ \A s \in SignIns : signIn'[s].pc \in {"idle", "creating", "registered"} =>
                            signIn[s].pc \in {"idle", "creating", "registered"}
  <2>1. ASSUME NEW s \in SignIns
        PROVE  LET n == IF signIn[s].pc = "creating" THEN [signIn[s] EXCEPT !.pc = "failed"]
                        ELSE signIn[s]
               IN  /\ n \in SignInStates
                   /\ n.pc \in {"idle", "creating", "registered"} =>
                        signIn[s].pc \in {"idle", "creating", "registered"}
    <3>1. signIn[s] \in SignInStates
      BY <1>0 DEF SessionTypes
    <3> QED
      BY <3>1 DEF SignInStates
  <2>2. signIn' = [s \in SignIns |-> IF signIn[s].pc = "creating"
                    THEN [signIn[s] EXCEPT !.pc = "failed"] ELSE signIn[s]]
    BY DEF Restart
  <2> QED
    BY <2>1, <2>2
<1>4. /\ claim' \in [Claims -> ClaimStates]
      /\ \A c \in Claims : claim'[c].pc # "linking"
  <2>1. ASSUME NEW c \in Claims
        PROVE  LET n == IF claim[c].pc = "idle" THEN claim[c] ELSE [claim[c] EXCEPT !.pc = "done"]
               IN  n \in ClaimStates /\ n.pc # "linking"
    <3>1. claim[c] \in ClaimStates
      BY <1>0 DEF SessionTypes
    <3> QED
      BY <3>1 DEF ClaimStates
  <2>2. claim' = [c \in Claims |-> IF claim[c].pc = "idle" THEN claim[c]
                                   ELSE [claim[c] EXCEPT !.pc = "done"]]
    BY DEF Restart
  <2> QED
    BY <2>1, <2>2
<1>5. challenge' \in [SignIns -> {"none", "fresh", "used"}]
      /\ \A s \in SignIns : challenge'[s] # "fresh"
  BY <1>1
<1>6. live' \in SUBSET PostIds /\ PostIds' = PostIds
  BY <1>0, <1>1 DEF SessionTypes, PostIds
<1>7. SessionTypes'
  BY <1>0, <1>1, <1>2, <1>3, <1>4, <1>5, <1>6 DEF SessionTypes, SignInStates, PostStates,
     ClaimStates, Account, Emails
<1>8. \A x \in PostIds : OpenPost(x)' => OpenPost(x)
  BY <1>1, <1>2 DEF OpenPost
<1>9. OneOpenPost'
  BY <1>3, <1>5, <1>8, PostsKept
<1> QED
  BY <1>1, <1>7, <1>9, AccountsKept DEF SessionsInv

\* Every step of the accounts keeps the invariant.
LEMMA SessionsStep ==
    ASSUME SessionsInv, [SessionsNext]_sessionsVars
    PROVE  SessionsInv'
<1>1. ASSUME NEW s \in SignIns, NEW w \in Wallets, Connect(s, w) \/ Register(s, w)
      PROVE  SessionsInv'
  BY <1>1, ConnectStep
<1>2. ASSUME NEW s \in SignIns,
             \/ GetChallenge(s) \/ SignChallenge(s) \/ ExpireChallenge(s)
             \/ \E x \in PostIds : Answer(s, x)
      PROVE  SessionsInv'
  BY <1>2, GetChallengeStep, SignStep, ExpireChallengeStep
<1>3. ASSUME NEW x \in PostIds, PostLogin(x) \/ FindUser(x) \/ CreateRefreshToken(x)
      PROVE  SessionsInv'
  BY <1>3, PostStep
<1>4. ASSUME NEW c \in Claims,
             \/ \E p \in Profiles : Callback(c, p) \/ SaveProfile(c, p)
             \/ \E u \in Users, w \in Wallets : FindLinked(c, u, w)
             \/ LinkStellar(c)
      PROVE  SessionsInv'
  BY <1>4, ClaimStep
<1> QED
  BY <1>1, <1>2, <1>3, <1>4, TokensStep, RestartStep DEF SessionsNext

\* For any number of wallets, profiles, sign-ins and callbacks: no identity has
\* two accounts and no challenge opens two sessions, in any order of requests,
\* across restarts (auth-routes.js:61-217, 463-469, passport-config.js:48-76).
THEOREM IdentitiesAlwaysHold == SessionsSpec => []IdentitiesHold
<1>1. SessionsInit => SessionsInv
  <2> SUFFICES ASSUME SessionsInit PROVE SessionsInv
    OBVIOUS
  <2>1. account = [u \in Users |-> NoAccount] /\ NoAccount \in Account
        /\ Identities(NoAccount) = {}
    BY DEF SessionsInit, NoAccount, Account, Identities
  <2>2. OneAccountPerIdentity /\ account \in [Users -> Account]
    BY <2>1 DEF OneAccountPerIdentity
  <2>3. SessionTypes
    BY <2>2 DEF SessionsInit, SessionTypes, SignInStates, PostStates, ClaimStates
  <2>4. OneOpenPost
    BY DEF SessionsInit, OneOpenPost, OpenPost
  <2> QED
    BY <2>2, <2>3, <2>4 DEF SessionsInv
<1>2. SessionsInv /\ [SessionsNext]_sessionsVars => SessionsInv'
  BY SessionsStep
<1>3. SessionsInv => IdentitiesHold
  <2> SUFFICES ASSUME SessionsInv, NEW s \in SignIns
               PROVE  Cardinality({x \in PostIds : x[1] = s
                          /\ (x \in live \/ post[x].pc \in {"verified", "found"})}) <= 1
    BY DEF SessionsInv, IdentitiesHold, OneSessionPerChallenge
  <2> DEFINE S == {x \in PostIds : x[1] = s
                      /\ (x \in live \/ post[x].pc \in {"verified", "found"})}
  <2>1. \A x, y \in S : x = y
    BY DEF SessionsInv, OneOpenPost, OpenPost
  <2> HIDE DEF S
  <2>2. Cardinality(S) <= 1
    BY <2>1, AtMostOne
  <2> QED
    BY <2>2 DEF S
<1> QED
  BY <1>1, <1>2, <1>3, PTL DEF SessionsSpec

-----------------------------------------------------------------------------
(* NFT collections.                                                          *)

NftsSpec == NftsInit /\ [][NftsNext]_nftVars

Collections == [owner : NftOwners, total : Nat]
MintStates == [pc : {"idle", "creating", "unpacking", "submitting", "inserting", "counting",
                     "auditing", "answered", "failed"},
               owner : SUBSET NftOwners, ids : SUBSET NftIds, doc : SUBSET Collections]

MintTypes ==
    /\ collection \in SUBSET Collections /\ \A c, d \in collection : c = d
    /\ mint \in [NftRequests -> MintStates]
    /\ items \in SUBSET [id : NftIds, owner : NftOwners]
    /\ taken \in SUBSET NftRequests /\ overlapped \in BOOLEAN

\* A request between its read and its save mints for the collection's owner;
\* without an overlap it has read what is stored.
MintsForOwner ==
    /\ \A r \in NftRequests : mint[r].pc = "creating" =>
          \E o \in NftOwners : mint[r].owner = {o}
    /\ \A r \in Pending : collection # {} /\ \A c \in collection : mint[r].owner = {c.owner}
    /\ collection = {} => items = {}
    /\ ~overlapped => \A r \in Pending : mint[r].doc = collection

ItemsOfOwner == \A c \in collection, i \in items : i.owner = c.owner

NftsInv == MintTypes /\ MintsForOwner /\ ItemsOfOwner

\* Of a finite set of items.
LEMMA MintedIsNat ==
    ASSUME NEW r \in NftRequests, mint[r].ids \in SUBSET NftIds
    PROVE  MintedBy(r) \in Nat
<1>1. IsFiniteSet(mint[r].ids)
  BY NftsAssumption, FS_Subset
<1> QED
  BY <1>1, FS_CardinalityType DEF MintedBy

\* One request moves on, and the collection stays as it is.
LEMMA MintMoves ==
    ASSUME NftsInv, NEW r \in NftRequests, NEW n \in MintStates,
           mint' = [mint EXCEPT ![r] = n], taken' \in SUBSET NftRequests,
           UNCHANGED <<collection, overlapped>>, n.pc = "creating" => \E o \in NftOwners : n.owner = {o},
           n.pc \in {"unpacking", "submitting", "inserting", "counting"} =>
              \/ r \in Pending /\ n.owner = mint[r].owner /\ n.doc = mint[r].doc
              \/ n.doc = collection /\ \E c \in collection : n.owner = {c.owner},
           items' \in SUBSET [id : NftIds, owner : NftOwners],
           \A i \in items' : i \in items \/ \E c \in collection : i.owner = c.owner
    PROVE  NftsInv'
<1>0. MintTypes /\ MintsForOwner /\ ItemsOfOwner
  BY DEF NftsInv
<1>1. /\ mint' \in [NftRequests -> MintStates] /\ mint'[r] = n
      /\ \A x \in NftRequests : x # r => mint'[x] = mint[x]
  BY <1>0 DEF MintTypes
<1>2. MintTypes'
  BY <1>0, <1>1 DEF MintTypes, MintStates, Collections
<1>3. \A x \in Pending' : \/ x \in Pending /\ mint'[x].owner = mint[x].owner
                                           /\ mint'[x].doc = mint[x].doc
                          \/ mint'[x].doc = collection
                             /\ \E c \in collection : mint'[x].owner = {c.owner}
  <2> SUFFICES ASSUME NEW x \in Pending'
               PROVE  \/ x \in Pending /\ mint'[x].owner = mint[x].owner
                                       /\ mint'[x].doc = mint[x].doc
                      \/ mint'[x].doc = collection
                         /\ \E c \in collection : mint'[x].owner = {c.owner}
    OBVIOUS
  <2>1. x \in NftRequests
        /\ mint'[x].pc \in {"unpacking", "submitting", "inserting", "counting"}
    BY DEF Pending
  <2>2. CASE x = r
    BY <1>1, <2>1, <2>2
  <2>3. CASE x # r
    BY <1>1, <2>1, <2>3 DEF Pending
  <2> QED
    BY <2>2, <2>3
<1>4. \A c, d \in collection : c = d
  BY <1>0 DEF MintTypes
<1>5. MintsForOwner'
  <2>1. \A x \in NftRequests : mint'[x].pc = "creating" => \E o \in NftOwners : mint'[x].owner = {o}
    BY <1>0, <1>1 DEF MintsForOwner
  <2>2. \A x \in Pending' : collection # {} /\ \A c \in collection : mint'[x].owner = {c.owner}
    BY <1>0, <1>3, <1>4 DEF MintsForOwner
  <2>3. ~overlapped => \A x \in Pending' : mint'[x].doc = collection
    BY <1>0, <1>3 DEF MintsForOwner
  <2>4. collection = {} => items' = {}
    BY <1>0 DEF MintsForOwner
  <2> QED
    BY <2>1, <2>2, <2>3, <2>4 DEF MintsForOwner
<1>6. ItemsOfOwner'
  BY <1>0, <1>4 DEF ItemsOfOwner
<1> QED
  BY <1>2, <1>5, <1>6 DEF NftsInv

\* The steps of a mint between its first look-up and its total change no collection.
LEMMA MintStep ==
    ASSUME NftsInv, NEW r \in NftRequests,
           \/ \E o \in NftOwners, ids \in SUBSET NftIds : FindCollection(r, o, ids)
           \/ ProcessZip(r) \/ Submit(r) \/ SubmitFails(r) \/ InsertItems(r) \/ AuditSuccess(r)
    PROVE  NftsInv'
<1>0. /\ MintTypes /\ mint[r] \in MintStates /\ items \in SUBSET [id : NftIds, owner : NftOwners]
      /\ taken \in SUBSET NftRequests
      /\ collection \in SUBSET Collections /\ \A c, d \in collection : c = d
  BY DEF NftsInv, MintTypes
<1>1. ASSUME NEW o \in NftOwners, NEW ids \in SUBSET NftIds, FindCollection(r, o, ids)
      PROVE  NftsInv'
  <2> DEFINE l == CASE collection = {} -> "creating"
                    [] \E c \in collection : Owned(c, o) -> "unpacking"
                    [] OTHER -> "failed"
             n == [owner |-> {o}, ids |-> ids, doc |-> {c \in collection : Owned(c, o)}, pc |-> l]
  <2>1. mint' = [mint EXCEPT ![r] = n] /\ UNCHANGED <<collection, items, taken, overlapped>>
    BY <1>1 DEF FindCollection
  <2>2. /\ l \in {"creating", "unpacking", "failed"}
        /\ l = "unpacking" => \E c \in collection : Owned(c, o)
    <3>1. CASE collection = {}
      BY <3>1
    <3>2. CASE collection # {} /\ \E c \in collection : Owned(c, o)
      BY <3>2
    <3>3. CASE collection # {} /\ ~\E c \in collection : Owned(c, o)
      BY <3>3
    <3> QED
      BY <3>1, <3>2, <3>3
  <2> HIDE DEF l
  <2>3. n \in MintStates /\ n.owner = {o} /\ n.pc = l
    BY <1>0, <2>2 DEF MintStates
  <2>4. l = "unpacking" => n.doc = collection /\ \E c \in collection : n.owner = {c.owner}
    BY <1>0, <2>2 DEF Owned
  <2> HIDE DEF n
  <2> QED
    BY <1>0, <2>1, <2>2, <2>3, <2>4, MintMoves
<1>2. CASE ProcessZip(r) \/ Submit(r) \/ SubmitFails(r) \/ InsertItems(r)
  <2>1. PICK l \in {"submitting", "failed", "inserting", "counting"} :
           /\ mint' = [mint EXCEPT ![r] = [mint[r] EXCEPT !.pc = l]]
           /\ r \in Pending
    BY <1>2 DEF ProcessZip, Submit, SubmitFails, InsertItems, Becomes, Pending
  <2> DEFINE n == [mint[r] EXCEPT !.pc = l]
  <2>2. n \in MintStates /\ n.owner = mint[r].owner /\ n.doc = mint[r].doc /\ n.pc = l
    BY <1>0 DEF MintStates
  <2> HIDE DEF n
  <2>3. mint' = [mint EXCEPT ![r] = n] /\ UNCHANGED <<collection, overlapped>>
        /\ taken' \in SUBSET NftRequests
    BY <1>0, <1>2, <2>1 DEF n, ProcessZip, Submit, SubmitFails, InsertItems
  <2>4. /\ items' \in SUBSET [id : NftIds, owner : NftOwners]
        /\ \A i \in items' : i \in items \/ \E c \in collection : i.owner = c.owner
    <3>1. CASE items' = items
      BY <1>0, <3>1
    <3>2. CASE InsertItems(r)
      <4>1. PICK c \in collection : mint[r].owner = {c.owner}
        BY <2>1 DEF NftsInv, MintsForOwner
      <4>2. PICK ids \in SUBSET mint[r].ids :
               items' = items \cup [id : ids, owner : mint[r].owner]
        BY <3>2 DEF InsertItems
      <4>3. mint[r].ids \in SUBSET NftIds /\ mint[r].owner \in SUBSET NftOwners
        BY <1>0 DEF MintStates
      <4> QED
        BY <1>0, <4>1, <4>2, <4>3
    <3> QED
      BY <1>2, <3>1, <3>2 DEF ProcessZip, Submit, SubmitFails
  <2> QED
    BY <2>1, <2>2, <2>3, <2>4, MintMoves
<1>3. CASE AuditSuccess(r)
  <2>1. PICK l \in {"answered", "failed"} : mint' = [mint EXCEPT ![r] = [mint[r] EXCEPT !.pc = l]]
    BY <1>3 DEF AuditSuccess, Becomes
  <2> DEFINE n == [mint[r] EXCEPT !.pc = l]
  <2>2. n \in MintStates /\ n.pc = l
    BY <1>0 DEF MintStates
  <2>3. mint' = [mint EXCEPT ![r] = n] /\ UNCHANGED <<collection, items, taken, overlapped>>
    BY <1>3, <2>1 DEF AuditSuccess
  <2> HIDE DEF n
  <2> QED
    BY <1>0, <2>1, <2>2, <2>3, MintMoves
<1> QED
  BY <1>1, <1>2, <1>3

\* A collection is created for the owner who mints.
LEMMA SaveCollectionStep ==
    ASSUME NftsInv, NEW r \in NftRequests, SaveCollection(r)
    PROVE  NftsInv'
<1>0. MintTypes /\ MintsForOwner /\ ItemsOfOwner /\ mint[r] \in MintStates
  BY DEF NftsInv, MintTypes
<1>1. UNCHANGED <<items, taken, overlapped>> /\ mint[r].pc = "creating"
  BY DEF SaveCollection
<1>2. CASE Becomes(r, "failed") /\ UNCHANGED collection
  <2> DEFINE n == [mint[r] EXCEPT !.pc = "failed"]
  <2>1. n \in MintStates /\ n.pc = "failed" /\ mint' = [mint EXCEPT ![r] = n]
    BY <1>0, <1>2 DEF MintStates, Becomes
  <2> HIDE DEF n
  <2> QED
    BY <1>0, <1>1, <1>2, <2>1, MintMoves DEF MintTypes
<1>3. CASE ~(Becomes(r, "failed") /\ UNCHANGED collection)
  <2>1. PICK o \in NftOwners : mint[r].owner = {o}
    BY <1>0, <1>1 DEF MintsForOwner
  <2> DEFINE c == [owner |-> o, total |-> 0]
             u == [[mint[r] EXCEPT !.pc = "unpacking"] EXCEPT !.doc = {c}]
             f == [mint[r] EXCEPT !.pc = "failed"]
  <2>2. collection = {} /\ collection' = {c}
        /\ \/ mint' = [mint EXCEPT ![r] = u]
           \/ mint' = [mint EXCEPT ![r] = f]
    <3>1. (CHOOSE x \in mint[r].owner : TRUE) = o
      BY <2>1
    <3> QED
      BY <1>0, <1>3, <3>1 DEF SaveCollection, Becomes, MintStates
  <2>3. c \in Collections /\ c.owner = o /\ c.total = 0
    BY DEF Collections
  <2> HIDE DEF c
  <2>4. /\ u \in MintStates /\ u.pc = "unpacking" /\ u.owner = {o} /\ u.doc = {c}
        /\ f \in MintStates /\ f.pc = "failed"
    BY <1>0, <2>1, <2>3 DEF MintStates
  <2> HIDE DEF u, f
  <2>n. PICK n \in {u, f} : mint' = [mint EXCEPT ![r] = n]
    BY <2>2
  <2>5. /\ mint' \in [NftRequests -> MintStates] /\ mint'[r] = n
        /\ \A x \in NftRequests : x # r => mint'[x] = mint[x]
    BY <1>0, <2>n, <2>4 DEF MintTypes
  <2>6. Pending' \in SUBSET {r} /\ (Pending' # {} => n = u)
    BY <1>0, <2>2, <2>4, <2>5 DEF MintsForOwner, Pending
  <2>7. items = {}
    BY <1>0, <2>2 DEF MintsForOwner
  <2>8. MintTypes'
    BY <1>0, <1>1, <2>2, <2>3, <2>5 DEF MintTypes, MintStates, Collections
  <2>9. MintsForOwner'
    <3>1. \A x \in NftRequests : mint'[x].pc = "creating" => \E z \in NftOwners : mint'[x].owner = {z}
      BY <1>0, <2>4, <2>5 DEF MintsForOwner
    <3>2. \A x \in Pending' : mint'[x].owner = {c.owner} /\ mint'[x].doc = {c}
      BY <2>3, <2>4, <2>5, <2>6
    <3> QED
      BY <2>2, <3>1, <3>2 DEF MintsForOwner
  <2>10. ItemsOfOwner'
    BY <1>1, <2>7 DEF ItemsOfOwner
  <2> QED
    BY <2>8, <2>9, <2>10 DEF NftsInv
<1> QED
  BY <1>2, <1>3

\* A total is saved over the document the mint has loaded.
LEMMA SaveTotalStep ==
    ASSUME NftsInv, NEW r \in NftRequests, NEW c \in collection, NEW d \in mint[r].doc,
           SaveCollectionTotal(r, c, d)
    PROVE  NftsInv'
<1>0. MintTypes /\ MintsForOwner /\ ItemsOfOwner /\ mint[r] \in MintStates
      /\ c \in Collections /\ d \in Collections /\ mint[r].ids \in SUBSET NftIds
  BY DEF NftsInv, MintTypes, MintStates
<1>1. /\ collection = {c} /\ mint[r].doc = {d} /\ r \in Pending
      /\ UNCHANGED <<items, taken>>
  BY DEF SaveCollectionTotal, Pending
<1>2. PICK l \in {"auditing", "failed"} : mint' = [mint EXCEPT ![r] = [mint[r] EXCEPT !.pc = l]]
  BY DEF SaveCollectionTotal, Becomes
<1> DEFINE n == [mint[r] EXCEPT !.pc = l]
<1>3. n \in MintStates /\ n.pc = l /\ mint' = [mint EXCEPT ![r] = n]
  BY <1>0, <1>2 DEF MintStates
<1> HIDE DEF n
<1>4. CASE UNCHANGED <<collection, overlapped>>
  BY <1>0, <1>1, <1>3, <1>4, MintMoves DEF MintTypes
<1>5. CASE ~UNCHANGED <<collection, overlapped>>
  <2>1. /\ collection' = IF MintedBy(r) = 0 THEN collection
                         ELSE {[c EXCEPT !.total = d.total + MintedBy(r)]}
        /\ overlapped' = (overlapped \/ Pending # {r})
    BY <1>5 DEF SaveCollectionTotal
  <2>2. MintedBy(r) \in Nat
    BY <1>0, MintedIsNat
  <2> DEFINE e == IF MintedBy(r) = 0 THEN c ELSE [c EXCEPT !.total = d.total + MintedBy(r)]
  <2>3. /\ collection' = {e} /\ e \in Collections /\ e.owner = c.owner
    <3>1. d.total \in Nat /\ d.total + MintedBy(r) \in Nat
      BY <1>0, <2>2 DEF Collections
    <3> QED
      BY <1>0, <1>1, <2>1, <3>1 DEF Collections
  <2> HIDE DEF e
  <2>4. /\ mint' \in [NftRequests -> MintStates] /\ mint'[r] = n
        /\ \A x \in NftRequests : x # r => mint'[x] = mint[x]
    BY <1>0, <1>3 DEF MintTypes
  <2>5. Pending' = Pending \ {r}
    BY <1>1, <1>3, <2>4 DEF Pending
  <2>6. MintTypes'
    <3>1. taken' \in SUBSET NftRequests /\ overlapped' \in BOOLEAN
      BY <1>0, <1>1, <2>1 DEF MintTypes
    <3> QED
      BY <1>0, <1>1, <2>3, <2>4, <3>1 DEF MintTypes, MintStates, Collections
  <2>7. MintsForOwner'
    <3>1. \A x \in NftRequests : mint'[x].pc = "creating" => \E z \in NftOwners : mint'[x].owner = {z}
      BY <1>0, <1>3, <2>4 DEF MintsForOwner
    <3>2. \A x \in Pending' : mint'[x].owner = {e.owner}
      BY <1>0, <1>1, <2>3, <2>4, <2>5 DEF MintsForOwner, Pending
    <3>3. ~overlapped' => Pending' = {}
      BY <2>1, <2>5
    <3> QED
      BY <2>3, <3>1, <3>2, <3>3 DEF MintsForOwner
  <2>8. ItemsOfOwner'
    BY <1>0, <1>1, <2>3 DEF ItemsOfOwner
  <2> QED
    BY <2>6, <2>7, <2>8 DEF NftsInv
<1> QED
  BY <1>4, <1>5

\* What a request may still add to the total it has read.
Owed(n) == IF n.pc \in {"inserting", "counting"} THEN Cardinality(n.ids) ELSE 0
DocFits(n, max) ==
    n.pc \in {"unpacking", "submitting", "inserting", "counting"} =>
        \A d \in n.doc : d.total + Owed(n) <= max

TotalCounted == {r \in NftRequests : mint[r].pc \in {"auditing", "answered"}}
Counts == [r \in NftRequests |-> MintedBy(r)]

\* The total, and every total that may still be saved, is made of items that the
\* network took; without an overlap it has those of every counted request.
TotalsHold ==
    /\ \A r \in taken : mint[r].pc \notin {"idle", "creating", "unpacking", "submitting"}
    /\ \A r \in TotalCounted : collection # {}
    /\ \A r \in NftRequests : DocFits(mint[r], ItemsOf(taken))
    /\ \A c \in collection : c.total <= ItemsOf(taken)
    /\ ~overlapped => \A c \in collection : ItemsOf(TotalCounted) <= c.total

\* What a sum over requests is made of.
LEMMA CountsAre ==
    ASSUME MintTypes
    PROVE  /\ \A r \in NftRequests : Counts[r] = Cardinality(mint[r].ids) /\ Counts[r] \in Nat
           /\ IsFiniteSet(NftRequests)
           /\ \A S \in SUBSET NftRequests :
                 IsFiniteSet(S) /\ ItemsOf(S) = SumFunctionOnSet(Counts, S) /\ ItemsOf(S) \in Nat
<1>1. \A r \in NftRequests : mint[r].ids \in SUBSET NftIds
  BY DEF MintTypes, MintStates
<1>2. \A r \in NftRequests : Counts[r] = Cardinality(mint[r].ids) /\ Counts[r] \in Nat
  BY <1>1, MintedIsNat DEF Counts, MintedBy
<1>3. ASSUME NEW S \in SUBSET NftRequests
      PROVE  IsFiniteSet(S) /\ ItemsOf(S) = SumFunctionOnSet(Counts, S) /\ ItemsOf(S) \in Nat
  <2>1. IsFiniteSet(S)
    BY NftsAssumption, FS_Subset
  <2>2. ItemsOf(S) = SumFunctionOnSet(Counts, S)
    BY DEF ItemsOf, Counts
  <2>3. SumFunctionOnSet(Counts, S) \in Nat
    BY <1>2, <2>1, SumIsNat
  <2> QED
    BY <2>1, <2>2, <2>3
<1> QED
  BY <1>2, <1>3, NftsAssumption

\* A request moves on, and whose items are counted stays or shrinks.
LEMMA TotalsKept ==
    ASSUME NftsInv, NftsInv', TotalsHold, NEW r \in NftRequests, NEW n \in MintStates,
           mint' = [mint EXCEPT ![r] = n], UNCHANGED <<collection, taken, overlapped>>,
           n.ids = mint[r].ids \/ mint[r].pc = "idle",
           r \in taken => n.pc \notin {"idle", "creating", "unpacking", "submitting"},
           n.pc \in {"auditing", "answered"} => r \in TotalCounted,
           DocFits(n, ItemsOf(taken))
    PROVE  TotalsHold'
<1>0. /\ MintTypes /\ MintTypes' /\ taken \in SUBSET NftRequests
      /\ taken' = taken /\ collection' = collection /\ overlapped' = overlapped
  BY DEF NftsInv, MintTypes
<1>1. /\ mint'[r] = n /\ \A x \in NftRequests : x # r => mint'[x] = mint[x]
  BY <1>0 DEF MintTypes
<1>2. TotalCounted' \in SUBSET TotalCounted /\ TotalCounted \in SUBSET NftRequests
  BY <1>1 DEF TotalCounted
<1>3. \A x \in taken \cup TotalCounted : mint'[x].ids = mint[x].ids
  BY <1>1 DEF TotalsHold, TotalCounted
<1>4. \A x \in taken \cup TotalCounted : Counts'[x] = Counts[x]
  BY <1>0, <1>2, <1>3 DEF Counts, MintedBy
<1>5. ItemsOf(taken)' = ItemsOf(taken)
  <2>1. ItemsOf(taken) = SumFunctionOnSet(Counts, taken) /\ IsFiniteSet(taken)
    BY <1>0, CountsAre
  <2>2. ItemsOf(taken)' = SumFunctionOnSet(Counts', taken)
    BY <1>0 DEF ItemsOf, Counts
  <2> QED
    BY <1>4, <2>1, <2>2, SumSame
<1>6. ItemsOf(TotalCounted)' <= ItemsOf(TotalCounted) /\ ItemsOf(TotalCounted)' \in Nat
  <2>1. ItemsOf(TotalCounted) = SumFunctionOnSet(Counts, TotalCounted) /\ IsFiniteSet(TotalCounted)
    BY <1>0, <1>2, CountsAre
  <2>2. IsFiniteSet(TotalCounted')
    BY <1>2, <2>1, FS_Subset
  <2>3. ItemsOf(TotalCounted)' = SumFunctionOnSet(Counts', TotalCounted')
    BY DEF ItemsOf, Counts
  <2>4. SumFunctionOnSet(Counts', TotalCounted') = SumFunctionOnSet(Counts, TotalCounted')
    BY <1>2, <1>4, <2>2, SumSame
  <2>5. \A x \in TotalCounted : Counts[x] \in Nat
    BY <1>0, <1>2, CountsAre
  <2>6. SumFunctionOnSet(Counts, TotalCounted') <= SumFunctionOnSet(Counts, TotalCounted)
    BY <1>2, <2>1, <2>5, SumOfFewer
  <2>7. SumFunctionOnSet(Counts, TotalCounted') \in Nat
    BY <1>2, <2>2, <2>5, SumIsNat
  <2> QED
    BY <2>1, <2>3, <2>4, <2>6, <2>7
<1>7. (\A c \in collection : c.total \in Nat) /\ ItemsOf(TotalCounted) \in Nat
  BY <1>0, <1>2, CountsAre DEF MintTypes, Collections
<1>8. \A x \in NftRequests : DocFits(mint'[x], ItemsOf(taken)')
  <2> SUFFICES ASSUME NEW x \in NftRequests PROVE DocFits(mint'[x], ItemsOf(taken)')
    OBVIOUS
  <2>1. CASE x = r
    BY <1>1, <1>5, <2>1
  <2>2. CASE x # r
    BY <1>1, <1>5, <2>2 DEF TotalsHold
  <2> QED
    BY <2>1, <2>2
<1>9. \A x \in taken' : mint'[x].pc \notin {"idle", "creating", "unpacking", "submitting"}
  BY <1>0, <1>1 DEF TotalsHold
<1>10. \A x \in TotalCounted' : collection' # {}
  BY <1>0, <1>2 DEF TotalsHold
<1>11. \A c \in collection' : c.total <= ItemsOf(taken)'
  BY <1>0, <1>5 DEF TotalsHold
<1>12. ~overlapped' => \A c \in collection' : ItemsOf(TotalCounted)' <= c.total
  <2> SUFFICES ASSUME ~overlapped, NEW c \in collection PROVE ItemsOf(TotalCounted)' <= c.total
    BY <1>0
  <2>1. ItemsOf(TotalCounted) <= c.total
    BY DEF TotalsHold
  <2> QED
    BY <1>6, <1>7, <2>1
<1> QED
  BY <1>8, <1>9, <1>10, <1>11, <1>12 DEF TotalsHold

CountsStay == Counts' = Counts

\* What a request mints stays what it is while it moves on.
LEMMA CountsUnchanged ==
    ASSUME MintTypes, NEW r \in NftRequests, NEW n \in MintStates,
           mint' = [mint EXCEPT ![r] = n], n.ids = mint[r].ids
    PROVE  CountsStay
<1>1. \A x \in NftRequests : mint'[x].ids = mint[x].ids
  BY DEF MintTypes
<1> QED
  BY <1>1 DEF CountsStay, Counts, MintedBy

\* The steps that save no document and submit nothing.
LEMMA MintKeepsTotals ==
    ASSUME NftsInv, NftsInv', TotalsHold, NEW r \in NftRequests,
           \/ \E o \in NftOwners, ids \in SUBSET NftIds : FindCollection(r, o, ids)
           \/ ProcessZip(r) \/ SubmitFails(r) \/ InsertItems(r) \/ AuditSuccess(r)
    PROVE  TotalsHold'
<1>0. MintTypes /\ mint[r] \in MintStates /\ taken \in SUBSET NftRequests
      /\ DocFits(mint[r], ItemsOf(taken))
  BY DEF NftsInv, MintTypes, TotalsHold
<1>1. ASSUME NEW o \in NftOwners, NEW ids \in SUBSET NftIds, FindCollection(r, o, ids)
      PROVE  TotalsHold'
  <2> DEFINE l == CASE collection = {} -> "creating"
                    [] \E c \in collection : Owned(c, o) -> "unpacking"
                    [] OTHER -> "failed"
             n == [owner |-> {o}, ids |-> ids, doc |-> {c \in collection : Owned(c, o)}, pc |-> l]
  <2>1. mint' = [mint EXCEPT ![r] = n] /\ UNCHANGED <<collection, taken, overlapped>>
        /\ mint[r].pc = "idle"
    BY <1>1 DEF FindCollection
  <2>2. l \in {"creating", "unpacking", "failed"}
    OBVIOUS
  <2> HIDE DEF l
  <2>3. n \in MintStates /\ n.pc = l /\ n.doc \in SUBSET collection
    BY <1>0, <2>2 DEF MintStates, MintTypes
  <2> HIDE DEF n
  <2>4. r \notin taken
    BY <2>1 DEF TotalsHold
  <2>5. DocFits(n, ItemsOf(taken))
    <3>1. Owed(n) = 0
      BY <2>2, <2>3 DEF Owed
    <3>2. \A d \in n.doc : d.total \in Nat /\ d.total <= ItemsOf(taken)
      BY <1>0, <2>3 DEF TotalsHold, MintTypes, Collections
    <3> QED
      BY <3>1, <3>2 DEF DocFits
  <2> QED
    BY <2>1, <2>2, <2>3, <2>4, <2>5, TotalsKept
<1>2. CASE ProcessZip(r) \/ SubmitFails(r) \/ InsertItems(r) \/ AuditSuccess(r)
  <2>1. PICK l \in {"submitting", "failed", "counting", "answered"} :
           /\ mint' = [mint EXCEPT ![r] = [mint[r] EXCEPT !.pc = l]]
           /\ l = "submitting" => mint[r].pc = "unpacking"
           /\ l = "counting" => mint[r].pc = "inserting"
           /\ l = "answered" => mint[r].pc = "auditing"
    BY <1>2 DEF ProcessZip, SubmitFails, InsertItems, AuditSuccess, Becomes
  <2> DEFINE n == [mint[r] EXCEPT !.pc = l]
  <2>2. n \in MintStates /\ n.ids = mint[r].ids /\ n.doc = mint[r].doc /\ n.pc = l
    BY <1>0 DEF MintStates
  <2>3. mint' = [mint EXCEPT ![r] = n] /\ UNCHANGED <<collection, taken, overlapped>>
    BY <1>2, <2>1 DEF ProcessZip, SubmitFails, InsertItems, AuditSuccess
  <2> HIDE DEF n
  <2>4. DocFits(n, ItemsOf(taken))
    BY <1>0, <2>1, <2>2 DEF DocFits, Owed
  <2>5. r \in taken => n.pc # "submitting"
    BY <2>1, <2>2 DEF TotalsHold
  <2>6. n.pc \in {"auditing", "answered"} => r \in TotalCounted
    BY <2>1, <2>2 DEF TotalCounted
  <2> QED
    BY <2>1, <2>2, <2>3, <2>4, <2>5, <2>6, TotalsKept
<1> QED
  BY <1>1, <1>2

\* The network takes the items that the request may now count.
LEMMA SubmitKeepsTotals ==
    ASSUME NftsInv, TotalsHold, NEW r \in NftRequests, Submit(r)
    PROVE  TotalsHold'
<1>0. MintTypes /\ mint[r] \in MintStates /\ taken \in SUBSET NftRequests
      /\ mint[r].pc = "submitting"
  BY DEF NftsInv, MintTypes, Submit
<1> DEFINE n == [mint[r] EXCEPT !.pc = "inserting"]
<1>1. n \in MintStates /\ n.ids = mint[r].ids /\ n.doc = mint[r].doc /\ n.pc = "inserting"
  BY <1>0 DEF MintStates
<1>2. /\ mint' = [mint EXCEPT ![r] = n] /\ taken' = taken \cup {r}
      /\ UNCHANGED <<collection, overlapped>>
  BY DEF Submit, Becomes
<1> HIDE DEF n
<1>3. /\ mint'[r] = n /\ \A x \in NftRequests : x # r => mint'[x] = mint[x]
  BY <1>0, <1>2 DEF MintTypes
<1>4. Counts' = Counts
  BY <1>0, <1>1, <1>2, CountsUnchanged DEF CountsStay
<1>5. TotalCounted' = TotalCounted
  BY <1>0, <1>1, <1>3 DEF TotalCounted
<1>6. ItemsOf(TotalCounted)' = ItemsOf(TotalCounted)
  BY <1>4, <1>5 DEF ItemsOf, Counts
<1>7. r \notin taken
  BY <1>0 DEF TotalsHold
<1>8. PICK m \in Nat : m = ItemsOf(taken)
  BY <1>0, CountsAre
<1>9. PICK k \in Nat : k = Cardinality(mint[r].ids) /\ Counts[r] = k
  BY <1>0, CountsAre
<1>10. ItemsOf(taken)' = m + k
  <2>1. ItemsOf(taken)' = SumFunctionOnSet(Counts, taken \cup {r})
    BY <1>2, <1>4 DEF ItemsOf, Counts
  <2>2. IsFiniteSet(taken) /\ SumFunctionOnSet(Counts, taken) = m
    BY <1>0, <1>8, CountsAre
  <2>3. \A x \in taken \cup {r} : Counts[x] \in Int
    BY <1>0, CountsAre
  <2>4. SumFunctionOnSet(Counts, taken \cup {r}) = k + m
    BY <1>7, <1>9, <2>2, <2>3, SumWith
  <2> QED
    BY <2>1, <2>4
<1>11. ASSUME NEW x \in NftRequests PROVE DocFits(mint'[x], m + k)
  <2>1. \A d \in mint[x].doc : d.total \in Nat
    BY <1>0 DEF MintTypes, MintStates, Collections
  <2>2. DocFits(mint[x], m)
    BY <1>8 DEF TotalsHold
  <2>3. CASE x = r
    <3>1. \A d \in n.doc : d.total <= m
      BY <1>0, <1>1, <2>1, <2>2, <2>3 DEF DocFits, Owed
    <3>2. Owed(n) = k
      BY <1>1, <1>9 DEF Owed
    <3> QED
      BY <1>1, <1>3, <2>1, <2>3, <3>1, <3>2 DEF DocFits
  <2>4. CASE x # r
    <3>1. Owed(mint[x]) \in Nat
      BY <1>0, CountsAre DEF Owed
    <3> QED
      BY <1>3, <2>1, <2>2, <2>4, <3>1 DEF DocFits
  <2> QED
    BY <2>3, <2>4
<1>12. \A c \in collection : c.total \in Nat /\ c.total <= m
  BY <1>0, <1>8 DEF TotalsHold, MintTypes, Collections
<1>13. \A x \in taken' : mint'[x].pc \notin {"idle", "creating", "unpacking", "submitting"}
  BY <1>0, <1>1, <1>2, <1>3 DEF TotalsHold
<1>14. \A x \in TotalCounted' : collection' # {}
  BY <1>2, <1>5 DEF TotalsHold
<1>15. \A x \in NftRequests : DocFits(mint'[x], ItemsOf(taken)')
  BY <1>10, <1>11
<1>16. \A c \in collection' : c.total <= ItemsOf(taken)'
  BY <1>2, <1>10, <1>12
<1>17. ~overlapped' => \A c \in collection' : ItemsOf(TotalCounted)' <= c.total
  BY <1>2, <1>6 DEF TotalsHold
<1> QED
  BY <1>13, <1>14, <1>15, <1>16, <1>17 DEF TotalsHold

\* A collection begins with nothing.
LEMMA CreateKeepsTotals ==
    ASSUME NftsInv, NftsInv', TotalsHold, NEW r \in NftRequests, SaveCollection(r)
    PROVE  TotalsHold'
<1>0. MintTypes /\ MintsForOwner /\ mint[r] \in MintStates /\ mint[r].pc = "creating"
      /\ taken \in SUBSET NftRequests
  BY DEF NftsInv, MintTypes, SaveCollection
<1>1. UNCHANGED <<taken, overlapped>> /\ r \notin taken
  BY <1>0 DEF SaveCollection, TotalsHold
<1> DEFINE f == [mint[r] EXCEPT !.pc = "failed"]
<1>2. f \in MintStates /\ f.ids = mint[r].ids /\ f.pc = "failed" /\ DocFits(f, ItemsOf(taken))
  BY <1>0 DEF MintStates, DocFits
<1>3. CASE Becomes(r, "failed") /\ UNCHANGED collection
  <2>1. mint' = [mint EXCEPT ![r] = f]
    BY <1>3 DEF Becomes
  <2> HIDE DEF f
  <2> QED
    BY <1>1, <1>2, <1>3, <2>1, TotalsKept
<1>4. CASE ~(Becomes(r, "failed") /\ UNCHANGED collection)
  <2>1. PICK o \in NftOwners : mint[r].owner = {o}
    BY <1>0 DEF MintsForOwner
  <2> DEFINE c == [owner |-> o, total |-> 0]
             u == [[mint[r] EXCEPT !.pc = "unpacking"] EXCEPT !.doc = {c}]
  <2>2. collection = {} /\ collection' = {c}
        /\ \/ mint' = [mint EXCEPT ![r] = u]
           \/ mint' = [mint EXCEPT ![r] = f]
    <3>1. (CHOOSE x \in mint[r].owner : TRUE) = o
      BY <2>1
    <3> QED
      BY <1>0, <1>4, <3>1 DEF SaveCollection, Becomes, MintStates
  <2>3. c \in Collections /\ c.total = 0
    BY DEF Collections
  <2> HIDE DEF c
  <2>4. u \in MintStates /\ u.ids = mint[r].ids /\ u.pc = "unpacking" /\ u.doc = {c}
    BY <1>0, <2>3 DEF MintStates
  <2> HIDE DEF u, f
  <2>5. PICK n \in {u, f} : mint' = [mint EXCEPT ![r] = n]
    BY <2>2
  <2>6. mint'[r] = n /\ \A x \in NftRequests : x # r => mint'[x] = mint[x]
    BY <1>0, <2>5 DEF MintTypes
  <2>7. Counts' = Counts
    BY <1>0, <1>2, <2>4, <2>5, CountsUnchanged DEF CountsStay
  <2>8. PICK m \in Nat : m = ItemsOf(taken)
    BY <1>0, CountsAre
  <2>9. ItemsOf(taken)' = m
    BY <1>1, <2>7, <2>8 DEF ItemsOf, Counts
  <2>10. TotalCounted' = {}
    BY <1>0, <1>2, <2>2, <2>4, <2>5, <2>6 DEF TotalCounted, TotalsHold
  <2>11. ItemsOf(TotalCounted)' = 0
    <3>1. ItemsOf(TotalCounted)' = SumFunctionOnSet(Counts', {})
      BY <2>10 DEF ItemsOf, Counts
    <3> QED
      BY <3>1, SumEmpty
  <2>12. ASSUME NEW x \in NftRequests PROVE DocFits(mint'[x], m)
    <3>1. CASE x = r /\ n = u
      BY <2>3, <2>4, <2>6, <2>8, <3>1 DEF DocFits, Owed
    <3>2. CASE x = r /\ n = f
      BY <1>2, <2>6, <2>8, <3>2
    <3>3. CASE x # r
      BY <2>6, <2>8, <3>3 DEF TotalsHold
    <3> QED
      BY <2>5, <3>1, <3>2, <3>3
  <2>13. \A x \in taken' : mint'[x].pc \notin {"idle", "creating", "unpacking", "submitting"}
    BY <1>0, <1>1, <2>6 DEF TotalsHold
  <2> QED
    BY <2>2, <2>3, <2>8, <2>9, <2>10, <2>11, <2>12, <2>13 DEF TotalsHold
<1> QED
  BY <1>3, <1>4

\* The total that is saved is made of what the document had and of the items the
\* network took for this request.
LEMMA SaveKeepsTotals ==
    ASSUME NftsInv, NftsInv', TotalsHold, NEW r \in NftRequests, NEW c \in collection,
           NEW d \in mint[r].doc, SaveCollectionTotal(r, c, d)
    PROVE  TotalsHold'
<1>0. MintTypes /\ MintsForOwner /\ mint[r] \in MintStates /\ taken \in SUBSET NftRequests
      /\ c \in Collections /\ d \in Collections
  BY DEF NftsInv, MintTypes, MintStates
<1>1. /\ collection = {c} /\ mint[r].doc = {d} /\ r \in Pending
      /\ mint[r].pc = "counting" /\ UNCHANGED <<items, taken>>
  BY DEF SaveCollectionTotal, Pending
<1>2. PICK l \in {"auditing", "failed"} :
         /\ mint' = [mint EXCEPT ![r] = [mint[r] EXCEPT !.pc = l]]
         /\ l = "auditing" => ~UNCHANGED <<collection, overlapped>>
                              \/ overlapped' = (overlapped \/ Pending # {r})
  BY DEF SaveCollectionTotal, Becomes
<1> DEFINE n == [mint[r] EXCEPT !.pc = l]
<1>3. n \in MintStates /\ n.pc = l /\ n.ids = mint[r].ids /\ mint' = [mint EXCEPT ![r] = n]
  BY <1>0, <1>2 DEF MintStates
<1> HIDE DEF n
<1>4. CASE l = "failed" /\ UNCHANGED <<collection, overlapped>>
  <2>1. DocFits(n, ItemsOf(taken))
    BY <1>3, <1>4 DEF DocFits
  <2> QED
    BY <1>1, <1>3, <1>4, <2>1, TotalsKept
<1>5. CASE ~(l = "failed" /\ UNCHANGED <<collection, overlapped>>)
  <2>1. /\ collection' = IF MintedBy(r) = 0 THEN collection
                         ELSE {[c EXCEPT !.total = d.total + MintedBy(r)]}
        /\ overlapped' = (overlapped \/ Pending # {r})
    <3>1. CASE UNCHANGED <<collection, overlapped>> /\ Becomes(r, "failed")
      <4>1. mint'[r].pc = "failed" /\ mint'[r].pc = l
        BY <1>0, <1>3, <3>1 DEF Becomes, MintTypes, MintStates
      <4> QED
        BY <1>5, <3>1, <4>1
    <3> QED
      BY <3>1 DEF SaveCollectionTotal
  <2>2. PICK k \in Nat : k = MintedBy(r) /\ Counts[r] = k /\ k = Cardinality(mint[r].ids)
    BY <1>0, CountsAre DEF MintedBy
  <2>3. PICK a \in Nat : a = c.total
    BY <1>0 DEF Collections
  <2>4. PICK b \in Nat : b = d.total
    BY <1>0 DEF Collections
  <2>5. PICK m \in Nat : m = ItemsOf(taken)
    BY <1>0, CountsAre
  <2>6. a <= m /\ b + k <= m
    <3>1. a <= m
      BY <1>1, <2>3, <2>5 DEF TotalsHold
    <3>2. DocFits(mint[r], m)
      BY <2>5 DEF TotalsHold
    <3>3. Owed(mint[r]) = k
      BY <1>1, <2>2 DEF Owed
    <3> QED
      BY <1>1, <2>4, <3>1, <3>2, <3>3 DEF DocFits
  <2>7. \A e \in collection' : e.total = IF k = 0 THEN a ELSE b + k
    BY <1>0, <1>1, <2>1, <2>2, <2>3, <2>4 DEF Collections
  <2>8. Counts' = Counts
    BY <1>0, <1>3, CountsUnchanged DEF CountsStay
  <2>9. ItemsOf(taken)' = m
    BY <1>1, <2>5, <2>8 DEF ItemsOf, Counts
  <2>10. mint'[r] = n /\ \A x \in NftRequests : x # r => mint'[x] = mint[x]
    BY <1>0, <1>3 DEF MintTypes
  <2>11. TotalCounted' \in {TotalCounted, TotalCounted \cup {r}} /\ r \notin TotalCounted
    BY <1>1, <1>3, <2>10 DEF TotalCounted
  <2>12. PICK s \in Nat : s = ItemsOf(TotalCounted)
    <3>1. TotalCounted \in SUBSET NftRequests
      BY DEF TotalCounted
    <3> QED
      BY <1>0, <3>1, CountsAre
  <2>13. ItemsOf(TotalCounted)' \in {s, k + s}
    <3>1. ItemsOf(TotalCounted)' = SumFunctionOnSet(Counts, TotalCounted')
      BY <2>8 DEF ItemsOf, Counts
    <3>2. TotalCounted \in SUBSET NftRequests
      BY DEF TotalCounted
    <3>3. IsFiniteSet(TotalCounted) /\ SumFunctionOnSet(Counts, TotalCounted) = s
      BY <1>0, <2>12, <3>2, CountsAre
    <3>4. \A x \in TotalCounted \cup {r} : Counts[x] \in Int
      BY <1>0, <3>2, CountsAre
    <3>5. SumFunctionOnSet(Counts, TotalCounted \cup {r}) = k + s
      BY <2>2, <2>11, <3>3, <3>4, SumWith
    <3> QED
      BY <2>11, <3>1, <3>3, <3>5
  <2>14. ~overlapped' => \A e \in collection' : ItemsOf(TotalCounted)' <= e.total
    <3> SUFFICES ASSUME ~overlapped', NEW e \in collection'
                 PROVE  ItemsOf(TotalCounted)' <= e.total
      OBVIOUS
    <3>1. ~overlapped /\ d = c
      BY <1>0, <1>1, <2>1 DEF MintsForOwner
    <3>2. a = b /\ s <= a
      BY <1>1, <2>3, <2>4, <2>12, <3>1 DEF TotalsHold
    <3>3. e.total = a + k
      BY <2>7, <3>2
    <3> QED
      BY <2>13, <3>2, <3>3
  <2>15. ASSUME NEW x \in NftRequests PROVE DocFits(mint'[x], m)
    <3>1. CASE x = r
      BY <1>3, <2>10, <3>1 DEF DocFits
    <3>2. CASE x # r
      BY <2>5, <2>10, <3>2 DEF TotalsHold
    <3> QED
      BY <3>1, <3>2
  <2>16. \A x \in taken' : mint'[x].pc \notin {"idle", "creating", "unpacking", "submitting"}
    BY <1>0, <1>1, <1>3, <2>10 DEF TotalsHold
  <2>17. collection' # {}
    BY <1>1, <2>1
  <2>18. \A e \in collection' : e.total <= m
    BY <2>6, <2>7
  <2> QED
    BY <2>9, <2>14, <2>15, <2>16, <2>17, <2>18 DEF TotalsHold
<1> QED
  BY <1>4, <1>5

\* For any number of requests, accounts and items: a collection is minted for
\* one account alone; its total never exceeds the items the network took, and
\* counts those of every request answered with 200 unless one saved it between
\* another's read and its save (nft-routes.js:75-92, 125-154).
THEOREM CollectionsHaveOneOwner == NftsSpec => []CollectionIsItsOwners
<1>1. NftsInit => NftsInv /\ TotalsHold
  <2> SUFFICES ASSUME NftsInit PROVE NftsInv /\ TotalsHold
    OBVIOUS
  <2>1. collection = {} /\ items = {} /\ taken = {}
        /\ mint = [r \in NftRequests |-> [pc |-> "idle", owner |-> {}, ids |-> {}, doc |-> {}]]
    BY DEF NftsInit
  <2>2. overlapped \in BOOLEAN
    BY DEF NftsInit
  <2>3. mint \in [NftRequests -> MintStates] /\ Pending = {} /\ TotalCounted = {}
    BY <2>1 DEF MintStates, Pending, TotalCounted
  <2>4. \A r \in NftRequests : DocFits(mint[r], ItemsOf(taken))
    BY <2>1 DEF DocFits
  <2> QED
    BY <2>1, <2>2, <2>3, <2>4 DEF NftsInv, MintTypes, MintsForOwner, ItemsOfOwner, TotalsHold
<1>2. (NftsInv /\ TotalsHold) /\ [NftsNext]_nftVars => (NftsInv /\ TotalsHold)'
  <2> SUFFICES ASSUME NftsInv, TotalsHold, [NftsNext]_nftVars PROVE NftsInv' /\ TotalsHold'
    OBVIOUS
  <2>1. CASE UNCHANGED nftVars
    <3>1. UNCHANGED <<collection, items, mint, taken, overlapped>>
      BY <2>1 DEF nftVars
    <3>2. NftsInv'
      BY <3>1 DEF NftsInv, MintTypes, MintsForOwner, ItemsOfOwner, Pending,
         MintStates, Collections
    <3>3. TotalsHold'
      BY <3>1 DEF TotalsHold, TotalCounted, ItemsOf, MintedBy
    <3> QED
      BY <3>2, <3>3
  <2>2. CASE NftsNext
    <3>1. NftsInv'
      BY <2>2, MintStep, SaveCollectionStep, SaveTotalStep DEF NftsNext
    <3>2. TotalsHold'
      BY <2>2, <3>1, MintKeepsTotals, SubmitKeepsTotals, CreateKeepsTotals, SaveKeepsTotals
         DEF NftsNext
    <3> QED
      BY <3>1, <3>2
  <2> QED
    BY <2>1, <2>2
<1>3. NftsInv /\ TotalsHold => CollectionIsItsOwners
  <2> SUFFICES ASSUME NftsInv, TotalsHold PROVE CollectionIsItsOwners
    OBVIOUS
  <2> DEFINE A == {r \in NftRequests : mint[r].pc = "answered"}
  <2>1. MintTypes /\ A \in SUBSET TotalCounted /\ TotalCounted \in SUBSET NftRequests
    BY DEF NftsInv, TotalCounted
  <2>2. \A x \in TotalCounted : Counts[x] \in Nat
    BY <2>1, CountsAre
  <2>3. /\ IsFiniteSet(TotalCounted) /\ ItemsOf(TotalCounted) = SumFunctionOnSet(Counts, TotalCounted)
        /\ ItemsOf(TotalCounted) \in Nat
        /\ ItemsOf(A) = SumFunctionOnSet(Counts, A) /\ ItemsOf(A) \in Nat
    <3>1. A \in SUBSET NftRequests
      OBVIOUS
    <3> HIDE DEF A
    <3> QED
      BY <2>1, <3>1, CountsAre
  <2>4. ItemsOf(A) <= ItemsOf(TotalCounted)
    <3> HIDE DEF A
    <3> QED
      BY <2>1, <2>2, <2>3, SumOfFewer
  <2>5. \A c \in collection : c.total \in Nat
    BY <2>1 DEF MintTypes, Collections
  <2>6. \A c \in collection : ~overlapped => ItemsOf(A) <= c.total
    <3> HIDE DEF A
    <3> QED
      BY <2>3, <2>4, <2>5 DEF TotalsHold
  <2> QED
    BY <2>6 DEF NftsInv, ItemsOfOwner, TotalsHold, CollectionIsItsOwners
<1> QED
  BY <1>1, <1>2, <1>3, PTL DEF NftsSpec

-----------------------------------------------------------------------------
(* API keys.                                                                 *)

KeysSpec == ApiKeysInit /\ [][ApiKeysNext]_apiKeysVars

UseStates == [hash : 0 .. Rotations, seen : Doc,
              pc : {"idle", "presented", "found", "admitted", "done"}]
KeyEditStates == [pc : {"idle", "loaded", "done"}, kind : EditKinds, max : Limits,
                  seen : Doc]

KeyTypes ==
    /\ keyDoc \in Doc
    /\ bucket \in [count : Nat, max : Limits]
    /\ keyUse \in [KeyUses -> UseStates]
    /\ keyEdit \in [KeyEdits -> KeyEditStates]
    /\ window \in [admitted : Nat, max : Nat]

\* Whoever was admitted in the window was counted in it.
KeyInv == KeyTypes /\ window.admitted <= bucket.count /\ WindowLimited

\* One use moves on and what the window holds is kept.
LEMMA UseMoves ==
    ASSUME KeyInv, NEW u \in KeyUses, NEW n \in UseStates,
           keyUse' = [keyUse EXCEPT ![u] = n],
           UNCHANGED <<keyDoc, bucket, keyEdit, window>>
    PROVE  KeyInv'
  BY DEF KeyInv, KeyTypes, WindowLimited

\* A use in PresentKey, LookUpKey or RecordUsage.
LEMMA UseStep ==
    ASSUME KeyInv, NEW u \in KeyUses,
           \/ \E h \in 0 .. Rotations : PresentKey(u, h)
           \/ LookUpKey(u) \/ RecordUsage(u)
    PROVE  KeyInv'
<1>1. keyUse \in [KeyUses -> UseStates] /\ keyDoc \in Doc
  BY DEF KeyInv, KeyTypes
<1>2. keyUse[u] \in UseStates
  BY <1>1
<1>3. CASE \E h \in 0 .. Rotations : PresentKey(u, h)
  <2>1. PICK h \in 0 .. Rotations : PresentKey(u, h)
    BY <1>3
  <2> DEFINE n == [keyUse[u] EXCEPT !.pc = "presented", !.hash = h]
  <2>2. n \in UseStates
    BY <1>2 DEF UseStates
  <2>3. keyUse' = [keyUse EXCEPT ![u] = n]
        /\ UNCHANGED <<keyDoc, bucket, keyEdit, window>>
    BY <1>1, <1>2, <2>1 DEF PresentKey, UseStates
  <2> HIDE DEF n
  <2> QED
    BY <2>2, <2>3, UseMoves
<1>4. CASE LookUpKey(u)
  <2> DEFINE l == IF (keyDoc.hash = keyUse[u].hash /\ ~keyDoc.archived) /\ IsUsable(keyDoc)
                  THEN "found" ELSE "done"
             n == [keyUse[u] EXCEPT !.seen = keyDoc, !.pc = l]
  <2>1. l \in {"found", "done"}
    OBVIOUS
  <2>2. n \in UseStates
    BY <1>1, <1>2, <2>1 DEF UseStates
  <2>3. keyUse' = [keyUse EXCEPT ![u] = n]
        /\ UNCHANGED <<keyDoc, bucket, keyEdit, window>>
    BY <1>1, <1>2, <1>4 DEF LookUpKey, UseStates
  <2> HIDE DEF n
  <2> QED
    BY <2>2, <2>3, UseMoves
<1>5. CASE RecordUsage(u)
  <2> DEFINE n == [keyUse[u] EXCEPT !.pc = "done"]
  <2>1. n \in UseStates
    BY <1>2 DEF UseStates
  <2>2. keyUse' = [keyUse EXCEPT ![u] = n]
        /\ UNCHANGED <<keyDoc, bucket, keyEdit, window>>
    BY <1>1, <1>2, <1>5 DEF RecordUsage, UseStates
  <2> HIDE DEF n
  <2> QED
    BY <2>1, <2>2, UseMoves
<1> QED
  BY <1>3, <1>4, <1>5

\* A use is counted: when it is admitted, the count was below its limit.
LEMMA ConsumeStep ==
    ASSUME KeyInv, NEW u \in KeyUses, ConsumeRateLimit(u)
    PROVE  KeyInv'
<1> DEFINE top == keyUse[u].seen.max
           ok == bucket.count + 1 <= top
           n == [keyUse[u] EXCEPT !.pc = IF ok THEN "admitted" ELSE "done"]
<1>1. /\ keyUse \in [KeyUses -> UseStates] /\ keyDoc \in Doc
      /\ keyEdit \in [KeyEdits -> KeyEditStates]
  BY DEF KeyInv, KeyTypes
<1>2. keyUse[u] \in UseStates
  BY <1>1
<1>3. top \in Limits /\ top \in Nat
  BY <1>2, ApiKeysAssumption DEF UseStates, Doc
<1>4. /\ bucket.count \in Nat /\ window.admitted \in Nat /\ window.max \in Nat
      /\ window.admitted <= bucket.count /\ window.admitted <= window.max
  BY DEF KeyInv, KeyTypes, WindowLimited
<1>5. n \in UseStates
  BY <1>2 DEF UseStates
<1>6. /\ keyUse' = [keyUse EXCEPT ![u] = n]
      /\ bucket' = [count |-> bucket.count + 1, max |-> top]
      /\ window' = [admitted |-> window.admitted + (IF ok THEN 1 ELSE 0),
                    max |-> IF top > window.max THEN top ELSE window.max]
      /\ UNCHANGED <<keyDoc, keyEdit>>
  BY <1>1, <1>2 DEF ConsumeRateLimit, Admits, UseStates
<1>7. keyUse' \in [KeyUses -> UseStates]
  BY <1>1, <1>5, <1>6
<1> HIDE DEF n
<1>8. /\ window' \in [admitted : Nat, max : Nat] /\ bucket' \in [count : Nat, max : Limits]
      /\ window'.admitted <= bucket'.count /\ window'.admitted <= window'.max
  BY <1>3, <1>4, <1>6
<1> QED
  BY <1>1, <1>6, <1>7, <1>8 DEF KeyInv, KeyTypes, WindowLimited

\* What is saved is a document.
LEMMA SaveKeyTypes ==
    ASSUME KeyInv, NEW e \in KeyEdits, SaveKey(e)
    PROVE  keyDoc' \in Doc
<1> DEFINE k == keyEdit[e].kind
           seen == keyEdit[e].seen
<1>1. keyDoc \in Doc /\ keyEdit[e] \in KeyEditStates
  BY DEF KeyInv, KeyTypes
<1>2. k \in EditKinds /\ seen \in Doc /\ keyEdit[e].max \in Limits
  BY <1>1 DEF KeyEditStates
<1>3. Rotations \in Nat
  BY ApiKeysAssumption
<1>4. /\ Written(k, seen, keyDoc).hash <= Rotations
      /\ keyDoc' = IF k = "limit" THEN [Written(k, seen, keyDoc) EXCEPT !.max = keyEdit[e].max]
                   ELSE Written(k, seen, keyDoc)
  BY DEF SaveKey
<1> HIDE DEF k, seen
<1>5. CASE k = "rotate"
  <2>1. Written(k, seen, keyDoc) = [keyDoc EXCEPT !.hash = seen.hash + 1,
              !.status = IF seen.status = "revoked" THEN "active" ELSE @]
    BY <1>5 DEF Written
  <2>2. seen.hash + 1 \in Nat /\ Written(k, seen, keyDoc).hash = seen.hash + 1
    BY <1>1, <1>2, <1>3, <2>1 DEF Doc
  <2>3. seen.hash + 1 \in 0 .. Rotations
    BY <1>3, <1>4, <2>2
  <2> QED
    BY ONLY <1>1, <1>4, <1>5, <2>1, <2>3 DEF Doc, KeyStatus
<1>6. CASE k = "revoke"
  <2>1. Written(k, seen, keyDoc)
            = [keyDoc EXCEPT !.status = IF seen.status = "active" THEN "revoked" ELSE @]
    BY <1>6 DEF Written
  <2> QED
    BY ONLY <1>1, <1>4, <1>6, <2>1 DEF Doc, KeyStatus
<1>7. CASE k = "expiry"
  <2>1. Written(k, seen, keyDoc) = [keyDoc EXCEPT !.expired = ~seen.expired]
    BY <1>7 DEF Written
  <2>2. (~seen.expired) \in BOOLEAN
    OBVIOUS
  <2> QED
    BY ONLY <1>1, <1>4, <1>7, <2>1, <2>2 DEF Doc, KeyStatus
<1>8. CASE k = "delete"
  <2>1. Written(k, seen, keyDoc) = [keyDoc EXCEPT !.archived = TRUE]
    BY <1>8 DEF Written
  <2> QED
    BY ONLY <1>1, <1>4, <1>8, <2>1 DEF Doc, KeyStatus
<1>9. CASE k = "limit"
  <2>1. Written(k, seen, keyDoc) = keyDoc
    BY <1>9 DEF Written
  <2> QED
    BY ONLY <1>1, <1>2, <1>4, <1>9, <2>1 DEF Doc, KeyStatus
<1> QED
  BY <1>2, <1>5, <1>6, <1>7, <1>8, <1>9 DEF EditKinds

\* Edits leave the window alone.
LEMMA KeyEditStep ==
    ASSUME KeyInv, NEW e \in KeyEdits,
           \/ \E kind \in EditKinds, max \in Limits : FindOwnedKey(e, kind, max)
           \/ SaveKey(e)
    PROVE  KeyInv'
<1>1. keyDoc \in Doc /\ keyEdit \in [KeyEdits -> KeyEditStates]
  BY DEF KeyInv, KeyTypes
<1>2. CASE SaveKey(e)
  <2>1. keyDoc' \in Doc
    BY <1>2, SaveKeyTypes
  <2>2. keyEdit' = [keyEdit EXCEPT ![e].pc = "done"]
        /\ UNCHANGED <<bucket, keyUse, window>>
    BY <1>2 DEF SaveKey
  <2>3. keyEdit' \in [KeyEdits -> KeyEditStates]
    BY <1>1, <2>2 DEF KeyEditStates
  <2> QED
    BY <2>1, <2>2, <2>3 DEF KeyInv, KeyTypes, WindowLimited
<1>3. CASE \E kind \in EditKinds, max \in Limits : FindOwnedKey(e, kind, max)
  <2>1. PICK kind \in EditKinds, max \in Limits : FindOwnedKey(e, kind, max)
    BY <1>3
  <2> DEFINE n == [pc |-> IF keyDoc.archived THEN "done" ELSE "loaded",
                   kind |-> kind, max |-> max, seen |-> keyDoc]
  <2>2. n \in KeyEditStates
    BY <1>1 DEF KeyEditStates
  <2>3. keyEdit' = [keyEdit EXCEPT ![e] = n] /\ UNCHANGED <<keyDoc, bucket, keyUse, window>>
    BY <2>1 DEF FindOwnedKey
  <2> HIDE DEF n
  <2>4. keyEdit' \in [KeyEdits -> KeyEditStates]
    BY <1>1, <2>2, <2>3
  <2> QED
    BY <1>1, <2>3, <2>4 DEF KeyInv, KeyTypes, WindowLimited
<1> QED
  BY <1>2, <1>3

\* A step that turns a revoked key active is the save of a rotation whose copy
\* was revoked.
LEMMA RevocationKept ==
    ASSUME KeyInv, ApiKeysNext, keyDoc.status = "revoked", keyDoc'.status = "active"
    PROVE  \E e \in KeyEdits :
              /\ keyEdit[e].pc = "loaded" /\ keyEdit'[e].pc = "done"
              /\ keyEdit[e].kind = "rotate" /\ keyEdit[e].seen.status = "revoked"
<1>1. keyDoc \in Doc /\ keyEdit \in [KeyEdits -> KeyEditStates]
  BY DEF KeyInv, KeyTypes
<1>2. PICK e \in KeyEdits : SaveKey(e)
  BY DEF ApiKeysNext, PresentKey, LookUpKey, ConsumeRateLimit, RecordUsage,
         FindOwnedKey, NewWindow
<1> DEFINE k == keyEdit[e].kind
           seen == keyEdit[e].seen
<1>3. keyEdit[e].pc = "loaded" /\ keyEdit'[e].pc = "done"
  BY <1>1, <1>2 DEF SaveKey
<1>4. k \in EditKinds
  BY <1>1 DEF KeyEditStates
<1>5. keyDoc' = IF k = "limit" THEN [Written(k, seen, keyDoc) EXCEPT !.max = keyEdit[e].max]
                ELSE Written(k, seen, keyDoc)
  BY <1>2 DEF SaveKey
<1> HIDE DEF k, seen
<1>6. CASE k = "rotate"
  <2>1. Written(k, seen, keyDoc) = [keyDoc EXCEPT !.hash = seen.hash + 1,
              !.status = IF seen.status = "revoked" THEN "active" ELSE @]
    BY <1>6 DEF Written
  <2>2. seen.status = "revoked"
    BY <1>1, <1>5, <1>6, <2>1 DEF Doc
  <2> QED
    BY <1>3, <1>6, <2>2 DEF k, seen
<1>7. CASE k # "rotate"
  <2>1. Written(k, seen, keyDoc).status \in {keyDoc.status, "revoked"}
    BY <1>1, <1>4, <1>7 DEF Written, Doc, EditKinds
  <2>2. keyDoc'.status \in {keyDoc.status, "revoked"}
    <3>1. CASE k = "limit"
      <4>1. Written(k, seen, keyDoc) = keyDoc
        BY <3>1 DEF Written
      <4> QED
        BY <1>1, <1>5, <3>1, <4>1 DEF Doc
    <3> QED
      BY <1>5, <2>1, <3>1
  <2> QED
    BY <2>2
<1> QED
  BY <1>6, <1>7

\* Every step of the requests and of the clock.
LEMMA KeysStep == KeyInv /\ [ApiKeysNext]_apiKeysVars => KeyInv'
<1> SUFFICES ASSUME KeyInv, [ApiKeysNext]_apiKeysVars PROVE KeyInv'
  OBVIOUS
<1>1. CASE \E u \in KeyUses :
              \/ \E h \in 0 .. Rotations : PresentKey(u, h)
              \/ LookUpKey(u) \/ ConsumeRateLimit(u) \/ RecordUsage(u)
  BY <1>1, UseStep, ConsumeStep
<1>2. CASE \E e \in KeyEdits :
              \/ \E kind \in EditKinds, max \in Limits : FindOwnedKey(e, kind, max)
              \/ SaveKey(e)
  BY <1>2, KeyEditStep
<1>3. CASE NewWindow
  <2>1. /\ bucket' = [bucket EXCEPT !.count = 0]
        /\ window' = [admitted |-> 0, max |-> 0]
        /\ UNCHANGED <<keyDoc, keyUse, keyEdit>>
    BY <1>3 DEF NewWindow
  <2> QED
    BY <2>1 DEF KeyInv, KeyTypes, WindowLimited
<1>4. CASE UNCHANGED apiKeysVars
  BY <1>4 DEF apiKeysVars, KeyInv, KeyTypes, WindowLimited
<1> QED
  BY <1>1, <1>2, <1>3, <1>4 DEF ApiKeysNext

\* In one window no more requests are admitted than the largest limit one of
\* them was counted under, and a revoked key comes back only by a rotation
\* that found it revoked, for any number of uses and of edits.
THEOREM KeyRulesAlwaysHold == KeysSpec => KeyRulesHold
<1>1. ApiKeysInit => KeyInv
  <2> SUFFICES ASSUME ApiKeysInit PROVE KeyInv
    OBVIOUS
  <2>1. PICK m \in Limits : keyDoc = [hash |-> 0, status |-> "active",
                                expired |-> FALSE, max |-> m, archived |-> FALSE]
    BY DEF ApiKeysInit
  <2>2. keyDoc \in Doc /\ keyDoc.max \in Limits
    BY <2>1, ApiKeysAssumption DEF Doc, KeyStatus
  <2>3. /\ bucket = [count |-> 0, max |-> keyDoc.max]
        /\ keyUse = [u \in KeyUses |-> [pc |-> "idle", hash |-> 0, seen |-> keyDoc]]
        /\ keyEdit = [e \in KeyEdits |-> [pc |-> "idle", kind |-> "limit",
                                          max |-> keyDoc.max, seen |-> keyDoc]]
        /\ window = [admitted |-> 0, max |-> 0]
    BY DEF ApiKeysInit
  <2>4. keyUse \in [KeyUses -> UseStates]
    BY <2>2, <2>3, ApiKeysAssumption DEF UseStates
  <2>5. keyEdit \in [KeyEdits -> KeyEditStates]
    BY <2>2, <2>3 DEF KeyEditStates, EditKinds
  <2> QED
    BY <2>2, <2>3, <2>4, <2>5 DEF KeyInv, KeyTypes, WindowLimited
<1>2. KeyInv => WindowLimited
  BY DEF KeyInv
<1>3. KeyInv /\ [ApiKeysNext]_apiKeysVars =>
        [(keyDoc.status = "revoked" /\ keyDoc'.status = "active") =>
            \E e \in KeyEdits :
                /\ keyEdit[e].pc = "loaded" /\ keyEdit'[e].pc = "done"
                /\ keyEdit[e].kind = "rotate"
                /\ keyEdit[e].seen.status = "revoked"]_apiKeysVars
  BY RevocationKept
<1> QED
  BY <1>1, <1>2, <1>3, KeysStep, PTL DEF KeysSpec, KeyRulesHold, RevocationStands

-----------------------------------------------------------------------------
(* The signatures of a multi-signature transaction.                          *)

CallStates == [op : {"approve", "execute"}, by : Cosigners, read : TxDocument]

SigningTypes ==
    /\ tx \in TxDocument \cup {NoTx}
    /\ calls \in [Requests -> {Idle} \cup CallStates]

\* The first two signatures are of different accounts: who is on the document
\* a request read does not sign again.
FirstTwoDiffer(doc) ==
    /\ Len(doc.signatures) >= 1
    /\ Len(doc.signatures) >= 2 => \E u, v \in ToSet(doc.signatures) : u # v

\* What a request has read is an earlier document, without its signature.
ReadsAreEarlier ==
    \A r \in Requests : calls[r] # Idle =>
        /\ tx \in TxDocument
        /\ ToSet(calls[r].read.signatures) \subseteq ToSet(tx.signatures)
        /\ calls[r].read.required = tx.required
        /\ FirstTwoDiffer(calls[r].read)
        /\ calls[r].op = "approve" => calls[r].by \notin ToSet(calls[r].read.signatures)

SigningInv ==
    /\ SigningTypes /\ ReadsAreEarlier /\ SignaturesStand
    /\ tx # NoTx => FirstTwoDiffer(tx) /\ tx.required \in Thresholds

\* The accounts on record, one pushed, and how many they are.
LEMMA Signers ==
    ASSUME NEW s \in Seq(Cosigners)
    PROVE  /\ \A u : Contains(s, u) <=> u \in ToSet(s)
           /\ IsFiniteSet(ToSet(s)) /\ Cardinality(ToSet(s)) \in Nat
<1>1. DOMAIN s = 1 .. Len(s) /\ Len(s) \in Nat
  OBVIOUS
<1>2. \A u : Contains(s, u) <=> u \in ToSet(s)
  BY <1>1 DEF Contains, ToSet
<1>3. s \in [1 .. Len(s) -> ToSet(s)] /\ \A t \in ToSet(s) : \E i \in 1 .. Len(s) : s[i] = t
  BY <1>1 DEF ToSet
<1>4. s \in Surjection(1 .. Len(s), ToSet(s))
  BY <1>3 DEF Surjection
<1>5. IsFiniteSet(1 .. Len(s))
  BY <1>1, FS_Interval
<1>6. IsFiniteSet(ToSet(s))
  BY <1>4, <1>5, FS_Surjection
<1> QED
  BY <1>2, <1>6, FS_CardinalityType

\* A pushed signature makes a list longer by one and a set larger by at most one.
LEMMA SignerPushed ==
    ASSUME NEW s \in Seq(Cosigners), NEW u \in Cosigners
    PROVE  /\ Append(s, u) \in Seq(Cosigners) /\ Len(Append(s, u)) = Len(s) + 1
           /\ ToSet(Append(s, u)) = ToSet(s) \cup {u}
           /\ Len(s) >= 1 => s[1] \in ToSet(s)
<1>1. /\ Len(s) \in Nat /\ DOMAIN s = 1 .. Len(s)
      /\ DOMAIN Append(s, u) = 1 .. Len(s) + 1
      /\ \A i \in 1 .. Len(s) : Append(s, u)[i] = s[i]
      /\ Append(s, u)[Len(s) + 1] = u
  OBVIOUS
<1>2. ToSet(Append(s, u)) \subseteq ToSet(s) \cup {u}
  BY <1>1 DEF ToSet
<1>3. ToSet(s) \cup {u} \subseteq ToSet(Append(s, u))
  <2>1. \A i \in 1 .. Len(s) : i \in 1 .. Len(s) + 1
    BY <1>1
  <2>2. Len(s) + 1 \in 1 .. Len(s) + 1
    BY <1>1
  <2> QED
    BY <1>1, <2>1, <2>2 DEF ToSet
<1>4. Len(s) >= 1 => s[1] \in ToSet(s)
  BY <1>1 DEF ToSet
<1> QED
  BY <1>2, <1>3, <1>4

\* Two or three different accounts in a set.
LEMMA PairIsTwo ==
    ASSUME NEW x, NEW y, x # y
    PROVE  IsFiniteSet({x} \cup {y}) /\ Cardinality({x} \cup {y}) = 2
<1>1. IsFiniteSet({x}) /\ Cardinality({x}) = 1 /\ y \notin {x}
  BY FS_Singleton
<1>2. IsFiniteSet({x} \cup {y}) /\ Cardinality({x} \cup {y}) = Cardinality({x}) + 1
  BY <1>1, FS_AddElement
<1> QED
  BY <1>1, <1>2

\* Two different members make a cardinality of two.
LEMMA TwoAtLeast ==
    ASSUME NEW S, IsFiniteSet(S), NEW x \in S, NEW y \in S, x # y
    PROVE  Cardinality(S) >= 2
<1>1. {x} \cup {y} \in SUBSET S
  OBVIOUS
<1>2. Cardinality({x} \cup {y}) <= Cardinality(S) /\ Cardinality({x} \cup {y}) = 2
      /\ Cardinality(S) \in Nat
  BY <1>1, PairIsTwo, FS_Subset, FS_CardinalityType
<1> QED
  BY <1>2

\* Three different members make a cardinality of three.
LEMMA ThreeAtLeast ==
    ASSUME NEW S, IsFiniteSet(S), NEW x \in S, NEW y \in S, NEW z \in S,
           x # y, x # z, y # z
    PROVE  Cardinality(S) >= 3
<1> DEFINE P == {x} \cup {y}
<1>1. IsFiniteSet(P) /\ Cardinality(P) = 2 /\ z \notin P
  BY PairIsTwo
<1>2. P \cup {z} \in SUBSET S
  OBVIOUS
<1> HIDE DEF P
<1>3. Cardinality(P \cup {z}) = Cardinality(P) + 1
  BY <1>1, FS_AddElement
<1>4. Cardinality(P \cup {z}) <= Cardinality(S) /\ Cardinality(S) \in Nat
  BY <1>2, FS_Subset, FS_CardinalityType
<1> QED
  BY <1>1, <1>3, <1>4

\* A document with one more signature.
LEMMA SignedDocument ==
    ASSUME NEW d \in TxDocument, NEW e \in TxDocument, NEW u \in Cosigners,
           e.signatures = Append(d.signatures, u), FirstTwoDiffer(d),
           \E x \in ToSet(d.signatures) : x # u
    PROVE  FirstTwoDiffer(e) /\ ToSet(e.signatures) = ToSet(d.signatures) \cup {u}
<1>1. d.signatures \in Seq(Cosigners) /\ Len(d.signatures) \in Nat
  BY DEF TxDocument
<1>2. /\ Len(e.signatures) = Len(d.signatures) + 1
      /\ ToSet(e.signatures) = ToSet(d.signatures) \cup {u}
  BY <1>1, SignerPushed
<1>3. PICK x \in ToSet(d.signatures) : x # u
  OBVIOUS
<1>4. x \in ToSet(e.signatures) /\ u \in ToSet(e.signatures)
  BY <1>2, <1>3
<1>5. \E a, b \in ToSet(e.signatures) : a # b
  BY <1>3, <1>4
<1>6. Len(e.signatures) >= 1
  BY <1>1, <1>2
<1> QED
  BY <1>2, <1>5, <1>6 DEF FirstTwoDiffer

\* The call that approves found as many signers as are required, if no more
\* than three are.
LEMMA ApproveStep ==
    ASSUME SigningInv, Thresholds \subseteq 1 .. 3, NEW r \in Requests, ApproveSaves(r)
    PROVE  SigningInv'
<1> DEFINE c == calls[r]
           read == c.read
           u == c.by
<1>1. /\ tx \in TxDocument \cup {NoTx} /\ calls \in [Requests -> {Idle} \cup CallStates]
      /\ ReadsAreEarlier /\ SignaturesStand
  BY DEF SigningInv, SigningTypes
<1>2. c # Idle /\ c \in CallStates /\ c.op = "approve"
  BY <1>1 DEF ApproveSaves, Idle
<1>3. /\ tx \in TxDocument /\ ToSet(read.signatures) \subseteq ToSet(tx.signatures)
      /\ read.required = tx.required /\ FirstTwoDiffer(read) /\ u \notin ToSet(read.signatures)
  BY <1>1, <1>2 DEF ReadsAreEarlier
<1>4. read \in TxDocument /\ u \in Cosigners
  BY <1>2 DEF CallStates
<1>5. tx # NoTx
  BY <1>3, ServiceAssumption
<1>6. FirstTwoDiffer(tx) /\ tx.required \in Thresholds /\ tx.required \in 1 .. 3
  BY <1>5 DEF SigningInv
<1> DEFINE full == Len(read.signatures) + 1 >= read.required
           new == [[tx EXCEPT !.signatures = Append(tx.signatures, u)]
                        EXCEPT !.status = IF full THEN "approved" ELSE tx.status]
<1>7. tx' = new
  BY <1>3 DEF ApproveSaves, Pushed, StatusAfter, TxDocument
<1>8. Append(tx.signatures, u) \in Seq(Cosigners)
  BY <1>3, <1>4, SignerPushed DEF TxDocument
<1>9. tx' \in TxDocument /\ tx'.signatures = Append(tx.signatures, u)
      /\ tx'.required = tx.required /\ tx'.status = IF full THEN "approved" ELSE tx.status
  BY <1>3, <1>7, <1>8 DEF TxDocument
<1>10. read.signatures \in Seq(Cosigners) /\ Len(read.signatures) >= 1
  BY <1>3, <1>4 DEF TxDocument, FirstTwoDiffer
<1>11. read.signatures[1] \in ToSet(read.signatures)
  BY <1>4, <1>10, SignerPushed
<1> HIDE DEF new, full
<1>12. FirstTwoDiffer(tx') /\ ToSet(tx'.signatures) = ToSet(tx.signatures) \cup {u}
  <2> DEFINE d == tx
             e == tx'
             v == u
  <2>1. \E x \in ToSet(d.signatures) : x # v
    BY <1>3, <1>11
  <2>2. /\ d \in TxDocument /\ e \in TxDocument /\ v \in Cosigners
        /\ e.signatures = Append(d.signatures, v) /\ FirstTwoDiffer(d)
    BY <1>3, <1>4, <1>6, <1>9
  <2> HIDE DEF d, e, v
  <2>3. FirstTwoDiffer(e) /\ ToSet(e.signatures) = ToSet(d.signatures) \cup {v}
    BY <2>1, <2>2, SignedDocument
  <2> QED
    BY <2>3 DEF d, e, v
<1>13. IsFiniteSet(ToSet(tx'.signatures)) /\ Cardinality(ToSet(tx'.signatures)) \in Nat
  BY <1>9, Signers DEF TxDocument
<1>14. ApprovedByQuorum'
  <2> SUFFICES ASSUME tx'.status = "approved"
               PROVE  Cardinality(ToSet(tx'.signatures)) >= tx'.required
    BY DEF ApprovedByQuorum
  <2>1. CASE full
    <3>1. Len(read.signatures) + 1 >= tx.required
      BY <1>3, <2>1 DEF full
    <3>2. read.signatures[1] \in ToSet(tx'.signatures) /\ u \in ToSet(tx'.signatures)
          /\ read.signatures[1] # u
      BY <1>3, <1>11, <1>12
    <3>3. Cardinality(ToSet(tx'.signatures)) >= 2
      BY <1>13, <3>2, TwoAtLeast
    <3>4. CASE Len(read.signatures) >= 2
      <4>1. PICK x, y \in ToSet(read.signatures) : x # y
        BY <1>3, <3>4 DEF FirstTwoDiffer
      <4>2. /\ x \in ToSet(tx'.signatures) /\ y \in ToSet(tx'.signatures)
            /\ x # u /\ y # u
        BY <1>3, <1>12, <4>1
      <4>3. Cardinality(ToSet(tx'.signatures)) >= 3
        BY <1>13, <3>2, <4>1, <4>2, ThreeAtLeast
      <4> QED
        BY <1>6, <1>9, <1>13, <4>3
    <3>5. CASE ~(Len(read.signatures) >= 2)
      <4>1. Len(read.signatures) \in Nat
        BY <1>10
      <4>2. tx.required <= 2
        BY <1>6, <1>10, <3>1, <3>5, <4>1
      <4> QED
        BY <1>6, <1>9, <1>13, <3>3, <4>2
    <3> QED
      BY <3>4, <3>5
  <2>2. CASE ~full
    <3>1. tx.status = "approved"
      BY <1>9, <2>2
    <3>2. Cardinality(ToSet(tx.signatures)) >= tx.required
      BY <1>1, <1>5, <3>1 DEF SignaturesStand, ApprovedByQuorum
    <3>3. /\ Cardinality(ToSet(tx.signatures)) <= Cardinality(ToSet(tx'.signatures))
          /\ Cardinality(ToSet(tx.signatures)) \in Nat
      BY <1>3, <1>12, <1>13, FS_Subset, FS_CardinalityType
    <3> QED
      BY <1>6, <1>9, <1>13, <3>2, <3>3
  <2> QED
    BY <2>1, <2>2
<1>15. NoSignatureLost'
  <2>1. acknowledged' = acknowledged \cup {u} /\ acknowledged \subseteq ToSet(tx.signatures)
    BY <1>1, <1>5 DEF ApproveSaves, SignaturesStand, NoSignatureLost
  <2> QED
    BY <1>12, <2>1 DEF NoSignatureLost
<1>16. calls' = [calls EXCEPT ![r] = Idle]
  BY DEF ApproveSaves
<1>17. calls' \in [Requests -> {Idle} \cup CallStates]
  BY <1>1, <1>16
<1>18. ReadsAreEarlier'
  <2> SUFFICES ASSUME NEW q \in Requests, calls'[q] # Idle
               PROVE  /\ tx' \in TxDocument
                      /\ ToSet(calls'[q].read.signatures) \subseteq ToSet(tx'.signatures)
                      /\ calls'[q].read.required = tx'.required
                      /\ FirstTwoDiffer(calls'[q].read)
                      /\ calls'[q].op = "approve" =>
                            calls'[q].by \notin ToSet(calls'[q].read.signatures)
    BY DEF ReadsAreEarlier, FirstTwoDiffer
  <2>1. q # r /\ calls'[q] = calls[q]
    BY <1>1, <1>16
  <2> QED
    BY <1>1, <1>9, <1>12, <2>1 DEF ReadsAreEarlier
<1> QED
  BY <1>6, <1>9, <1>12, <1>14, <1>15, <1>17, <1>18
  DEF SigningInv, SigningTypes, SignaturesStand

\* A proposal starts the document with one signature.
LEMMA ProposeStep ==
    ASSUME SigningInv, NEW u \in Cosigners, NEW p \in Proposals, ProposeRoute(u, p)
    PROVE  SigningInv'
<1>1. PICK required \in Thresholds : Propose(u, p, required)
  BY DEF ProposeRoute, GetThreshold
<1> DEFINE doc == [signatures |-> <<u>>, required |-> required, status |-> "pending",
                   target |-> p.target]
<1>2. /\ calls \in [Requests -> {Idle} \cup CallStates] /\ ReadsAreEarlier
  BY DEF SigningInv, SigningTypes
<1>3. tx = NoTx /\ tx' = doc /\ acknowledged' = {u} /\ UNCHANGED calls
  BY <1>1 DEF Propose
<1>4. required \in Nat \ {0} /\ p.target \in ValidTargets
  BY ServiceAssumption DEF ProposeRoute, ValidProposal
<1>5. doc \in TxDocument
  BY <1>4 DEF TxDocument
<1>6. ToSet(doc.signatures) = {u} /\ Len(doc.signatures) = 1
  BY DEF ToSet
<1>7. \A r \in Requests : calls[r] = Idle
  BY <1>2, <1>3, ServiceAssumption DEF ReadsAreEarlier
<1>8. doc.status = "pending" /\ doc.required = required
  OBVIOUS
<1> HIDE DEF doc
<1>9. FirstTwoDiffer(doc)
  BY <1>6 DEF FirstTwoDiffer
<1>10. ReadsAreEarlier'
  BY <1>3, <1>7 DEF ReadsAreEarlier
<1>11. SigningTypes'
  BY <1>2, <1>3, <1>5 DEF SigningTypes
<1>12. NoSignatureLost' /\ ApprovedByQuorum'
  BY <1>3, <1>6, <1>8 DEF NoSignatureLost, ApprovedByQuorum
<1>13. FirstTwoDiffer(tx') /\ tx'.required \in Thresholds
  BY <1>3, <1>8, <1>9
<1> QED
  BY <1>10, <1>11, <1>12, <1>13 DEF SigningInv, SignaturesStand

\* A request reads the document, and signs only what it is not on.
LEMMA CallReads ==
    ASSUME SigningInv, NEW r \in Requests, NEW u \in Cosigners,
           ApproveReads(r, u) \/ ExecuteReads(r, u)
    PROVE  SigningInv'
<1>1. /\ tx \in TxDocument \cup {NoTx} /\ calls \in [Requests -> {Idle} \cup CallStates]
      /\ ReadsAreEarlier /\ SignaturesStand
      /\ tx # NoTx => FirstTwoDiffer(tx) /\ tx.required \in Thresholds
  BY DEF SigningInv, SigningTypes
<1>2. tx # NoTx /\ tx \in TxDocument /\ FirstTwoDiffer(tx)
  BY <1>1 DEF ApproveReads, ExecuteReads
<1>3. PICK o \in {"approve", "execute"} :
         /\ calls' = [calls EXCEPT ![r] = [op |-> o, by |-> u, read |-> tx]]
         /\ o = "approve" => ~Signed(tx, u)
         /\ UNCHANGED <<tx, txExpired, acknowledged>>
  BY DEF ApproveReads, ExecuteReads
<1> DEFINE n == [op |-> o, by |-> u, read |-> tx]
<1>4. n \in CallStates /\ n.read = tx /\ n.by = u /\ n.op = o
  BY <1>2 DEF CallStates
<1>5. o = "approve" => u \notin ToSet(tx.signatures)
  <2>1. tx.signatures \in Seq(Cosigners)
    BY <1>2 DEF TxDocument
  <2> QED
    BY <1>3, <2>1, Signers DEF Signed
<1>6. calls' = [calls EXCEPT ![r] = n] /\ UNCHANGED <<tx, acknowledged>>
  BY <1>3
<1> HIDE DEF n
<1>7. calls' \in [Requests -> {Idle} \cup CallStates]
  BY <1>1, <1>4, <1>6
<1>8. ReadsAreEarlier'
  <2> SUFFICES ASSUME NEW q \in Requests, calls'[q] # Idle
               PROVE  /\ tx \in TxDocument
                      /\ ToSet(calls'[q].read.signatures) \subseteq ToSet(tx.signatures)
                      /\ calls'[q].read.required = tx.required
                      /\ FirstTwoDiffer(calls'[q].read)
                      /\ calls'[q].op = "approve" =>
                            calls'[q].by \notin ToSet(calls'[q].read.signatures)
    BY <1>6 DEF ReadsAreEarlier, FirstTwoDiffer
  <2>1. CASE q = r
    <3>1. calls'[q] = n
      BY <1>1, <1>6, <2>1
    <3> QED
      BY <1>2, <1>4, <1>5, <3>1
  <2>2. CASE q # r
    <3>1. calls'[q] = calls[q]
      BY <1>1, <1>6, <2>2
    <3> QED
      BY <1>1, <3>1 DEF ReadsAreEarlier
  <2> QED
    BY <2>1, <2>2
<1>9. SignaturesStand' /\ FirstTwoDiffer(tx')
  BY <1>1, <1>2, <1>6 DEF SignaturesStand, NoSignatureLost, ApprovedByQuorum
<1> QED
  BY <1>1, <1>6, <1>7, <1>8, <1>9 DEF SigningInv, SigningTypes

\* The execution is saved, or a request fails.
LEMMA CallEnds ==
    ASSUME SigningInv, NEW r \in Requests, ExecuteSaves(r) \/ Fails(r)
    PROVE  SigningInv'
<1>1. /\ tx \in TxDocument \cup {NoTx} /\ calls \in [Requests -> {Idle} \cup CallStates]
      /\ ReadsAreEarlier /\ SignaturesStand
      /\ tx # NoTx => FirstTwoDiffer(tx) /\ tx.required \in Thresholds
  BY DEF SigningInv, SigningTypes
<1>2. /\ calls' = [calls EXCEPT ![r] = Idle] /\ UNCHANGED acknowledged
      /\ calls[r] # Idle
      /\ tx' = tx \/ tx' = [tx EXCEPT !.status = "executed"]
  BY DEF ExecuteSaves, Fails, Idle
<1>3. tx \in TxDocument /\ tx # NoTx
  <2>1. tx \in TxDocument
    BY <1>1, <1>2 DEF ReadsAreEarlier
  <2> QED
    BY <2>1, ServiceAssumption
<1>4. /\ tx' \in TxDocument /\ tx'.signatures = tx.signatures /\ tx'.required = tx.required
      /\ tx'.status \in {tx.status, "executed"}
  BY <1>2, <1>3 DEF TxDocument
<1>5. calls' \in [Requests -> {Idle} \cup CallStates]
  BY <1>1, <1>2
<1>6. ReadsAreEarlier'
  <2> SUFFICES ASSUME NEW q \in Requests, calls'[q] # Idle
               PROVE  /\ tx' \in TxDocument
                      /\ ToSet(calls'[q].read.signatures) \subseteq ToSet(tx'.signatures)
                      /\ calls'[q].read.required = tx'.required
                      /\ FirstTwoDiffer(calls'[q].read)
                      /\ calls'[q].op = "approve" =>
                            calls'[q].by \notin ToSet(calls'[q].read.signatures)
    BY DEF ReadsAreEarlier, FirstTwoDiffer
  <2>1. calls'[q] = calls[q]
    BY <1>1, <1>2
  <2> QED
    BY <1>1, <1>4, <2>1 DEF ReadsAreEarlier
<1>7. FirstTwoDiffer(tx') /\ tx'.required \in Thresholds
  BY <1>1, <1>3, <1>4 DEF FirstTwoDiffer
<1>8. SignaturesStand'
  BY <1>1, <1>2, <1>3, <1>4 DEF SignaturesStand, NoSignatureLost, ApprovedByQuorum
<1> QED
  BY <1>4, <1>5, <1>6, <1>7, <1>8 DEF SigningInv, SigningTypes

\* Every step of the requests and of the clock.
LEMMA SigningStep ==
    ASSUME Thresholds \subseteq 1 .. 3
    PROVE  SigningInv /\ [SigningNext]_signingVars => SigningInv'
<1> SUFFICES ASSUME SigningInv, [SigningNext]_signingVars PROVE SigningInv'
  OBVIOUS
<1>1. CASE UNCHANGED <<tx, calls, acknowledged>>
  BY <1>1 DEF SigningInv, SigningTypes, ReadsAreEarlier, SignaturesStand, NoSignatureLost,
              ApprovedByQuorum, FirstTwoDiffer
<1>2. CASE \E u \in Cosigners, p \in Proposals : ProposeRoute(u, p)
  BY <1>2, ProposeStep
<1>3. CASE \E r \in Requests, u \in Cosigners : ApproveReads(r, u) \/ ExecuteReads(r, u)
  BY <1>3, CallReads
<1>4. CASE \E r \in Requests : ApproveSaves(r) \/ ExecuteSaves(r) \/ Fails(r)
  BY <1>4, ApproveStep, CallEnds
<1>5. CASE Expires
  BY <1>1, <1>5 DEF Expires
<1> QED
  BY <1>1, <1>2, <1>3, <1>4, <1>5 DEF SigningNext, signingVars

\* An acknowledged signature stays on record, and an approved transaction
\* carries those of as many accounts as required, for any number of accounts
\* and requests, while no more than three are required: with four, three
\* requests that overlap can approve it with three accounts on record.
THEOREM SignaturesAlwaysStand ==
    ASSUME Thresholds \subseteq 1 .. 3
    PROVE  SigningSpec => []SignaturesStand
<1>1. SigningInit => SigningInv
  BY DEF SigningInit, SigningInv, SigningTypes, ReadsAreEarlier, SignaturesStand,
         NoSignatureLost, ApprovedByQuorum
<1>2. SigningInv => SignaturesStand
  BY DEF SigningInv
<1> QED
  BY <1>1, <1>2, SigningStep, PTL DEF SigningSpec

-----------------------------------------------------------------------------
(* The token registry's cache.                                               *)

RegistrySpec == RegistryInit /\ [][RegistryNext]_registryVars

Answers == UNION {[Covered(k) -> Nat] : k \in Keys}
ReaderStates == [pc : {"idle", "missed", "queried", "done"}, key : SUBSET Keys,
                 value : SUBSET Answers]
WriterStates == [pc : {"idle", "updated", "changed", "listed", "done"},
                 token : SUBSET RegTokens]

RegistryTypes ==
    /\ db \in [RegTokens -> Nat]
    /\ cache \in [Keys -> SUBSET Answers]
    /\ reader \in [RegReads -> ReaderStates]
    /\ writer \in [RegWrites -> WriterStates]
    /\ raced \in SUBSET Keys

Reading(r, k) == reader[r].pc = "queried" /\ reader[r].key = {k}

\* The keys a write is still to invalidate: a created token has no metadata in
\* the cache, so that only the owner's list is invalidated after it.
Owes(w, k) ==
    \E t \in RegTokens :
        /\ writer[w].token = {t}
        /\ \/ writer[w].pc = "updated" /\ k \in KeysOf(t)
           \/ writer[w].pc \in {"changed", "listed"} /\ k = OwnerOf[t]

\* Nothing is cached, or about to be, of a token that is not registered.
AbsentIsNotCached ==
    \A t \in RegTokens : db[t] = 0 =>
        cache[t] = {} /\ \A r \in RegReads : ~Reading(r, t)

\* What a read is about to store is what MongoDB holds, or a race is known.
ReadsAreMarked ==
    \A r \in RegReads, k \in Keys : Reading(r, k) =>
        \A v \in reader[r].value : v # Found(k) => k \in raced

StaleIsOwed ==
    \A k \in Keys : \A v \in cache[k] :
        v # Found(k) => k \in raced \/ \E w \in RegWrites : Owes(w, k)

RegistryInv == RegistryTypes /\ AbsentIsNotCached /\ ReadsAreMarked /\ StaleIsOwed

\* What the database holds for a key is an answer.
LEMMA FoundIsAnswer ==
    ASSUME RegistryTypes, NEW k \in Keys
    PROVE  Found(k) \in Answers
<1>1. \A t \in Covered(k) : db[t] \in Nat
  BY DEF RegistryTypes, Covered
<1>2. Found(k) \in [Covered(k) -> Nat]
  BY <1>1 DEF Found
<1> QED
  BY <1>2 DEF Answers

\* Steps of readers: neither MongoDB nor a write moves.
LEMMA ReaderMoves ==
    ASSUME RegistryInv, NEW r \in RegReads, NEW n \in ReaderStates,
           reader' = [reader EXCEPT ![r] = n],
           UNCHANGED <<db, cache, writer, raced>>,
           n.pc = "queried" => \E k \in Keys :
              /\ n.key = {k} /\ n.value = {Found(k)}
              /\ k \in RegTokens => db[k] # 0
    PROVE  RegistryInv'
<1>1. RegistryTypes /\ AbsentIsNotCached /\ ReadsAreMarked /\ StaleIsOwed
  BY DEF RegistryInv
<1>2. reader \in [RegReads -> ReaderStates] /\ reader' \in [RegReads -> ReaderStates]
      /\ reader'[r] = n /\ \A q \in RegReads \ {r} : reader'[q] = reader[q]
  BY <1>1 DEF RegistryTypes
<1>3. RegistryTypes'
  BY <1>1, <1>2 DEF RegistryTypes
<1>4. \A k : Found(k)' = Found(k)
  BY DEF Found
<1>5. StaleIsOwed'
  BY <1>1, <1>4 DEF StaleIsOwed, Owes
<1>6. ASSUME NEW t \in RegTokens, db[t] = 0, NEW q \in RegReads PROVE ~Reading(q, t)'
  <2>1. CASE q = r
    BY <1>2, <1>6, <2>1 DEF Reading
  <2>2. CASE q # r
    BY <1>1, <1>2, <1>6, <2>2 DEF Reading, AbsentIsNotCached
  <2> QED
    BY <2>1, <2>2
<1>7. AbsentIsNotCached'
  BY <1>1, <1>6 DEF AbsentIsNotCached
<1>8. ASSUME NEW q \in RegReads, NEW k \in Keys, Reading(q, k)',
             NEW v \in reader'[q].value, v # Found(k)
      PROVE  k \in raced
  <2>1. CASE q = r
    BY <1>2, <1>8, <2>1 DEF Reading
  <2>2. CASE q # r
    BY <1>1, <1>2, <1>8, <2>2 DEF Reading, ReadsAreMarked
  <2> QED
    BY <2>1, <2>2
<1>9. ReadsAreMarked'
  BY <1>4, <1>8 DEF ReadsAreMarked
<1> QED
  BY <1>3, <1>5, <1>7, <1>9 DEF RegistryInv

\* A reader keeps the key of its query, and a cached answer is one of those that were
\* found.
LEMMA ReadStep ==
    ASSUME RegistryInv, NEW r \in RegReads, NEW k \in Keys,
           GetCached(r, k) \/ QueryTokens(r, k)
    PROVE  RegistryInv'
<1>1. RegistryTypes /\ reader \in [RegReads -> ReaderStates] /\ reader[r] \in ReaderStates
  BY DEF RegistryInv, RegistryTypes
<1>2. CASE GetCached(r, k)
  <2> DEFINE l == IF connected /\ cache[k] # {} THEN "done" ELSE "missed"
             n == [reader[r] EXCEPT !.key = {k}, !.pc = l]
  <2>1. l \in {"done", "missed"}
    OBVIOUS
  <2>2. reader' = [reader EXCEPT ![r] = n] /\ UNCHANGED <<db, cache, writer, raced>>
    BY <1>1, <1>2 DEF GetCached, ReaderStates
  <2> HIDE DEF l
  <2>3. n \in ReaderStates /\ n.pc = l
    BY <1>1, <2>1 DEF ReaderStates
  <2> HIDE DEF n
  <2> QED
    BY <2>1, <2>2, <2>3, ReaderMoves
<1>3. CASE QueryTokens(r, k) /\ k \in RegTokens /\ db[k] = 0
  <2> DEFINE n == [reader[r] EXCEPT !.pc = "done"]
  <2>1. reader' = [reader EXCEPT ![r] = n] /\ UNCHANGED <<db, cache, writer, raced>>
    BY <1>1, <1>3 DEF QueryTokens, ReaderStates
  <2>2. n \in ReaderStates /\ n.pc = "done"
    BY <1>1 DEF ReaderStates
  <2> HIDE DEF n
  <2> QED
    BY <2>1, <2>2, ReaderMoves
<1>4. CASE QueryTokens(r, k) /\ ~(k \in RegTokens /\ db[k] = 0)
  <2> DEFINE n == [reader[r] EXCEPT !.pc = "queried", !.value = {Found(k)}]
  <2>1. reader' = [reader EXCEPT ![r] = n] /\ UNCHANGED <<db, cache, writer, raced>>
        /\ reader[r].key = {k}
    BY <1>1, <1>4 DEF QueryTokens, ReaderStates
  <2>2. Found(k) \in Answers
    BY <1>1, FoundIsAnswer
  <2>3. n \in ReaderStates /\ n.key = {k} /\ n.value = {Found(k)}
    BY <1>1, <2>1, <2>2 DEF ReaderStates
  <2> HIDE DEF n
  <2> QED
    BY <1>4, <2>1, <2>3, ReaderMoves
<1> QED
  BY <1>2, <1>3, <1>4

\* A read stores what it found: wrong only after a race.
LEMMA SetStep ==
    ASSUME RegistryInv, NEW r \in RegReads, NEW k \in Keys, SetCached(r, k)
    PROVE  RegistryInv'
<1>1. RegistryTypes /\ AbsentIsNotCached /\ ReadsAreMarked /\ StaleIsOwed
  BY DEF RegistryInv
<1> DEFINE n == [reader[r] EXCEPT !.pc = "done", !.value = {}]
<1>2. reader \in [RegReads -> ReaderStates] /\ reader[r] \in ReaderStates
      /\ cache \in [Keys -> SUBSET Answers]
  BY <1>1 DEF RegistryTypes
<1>3. n \in ReaderStates /\ n.pc = "done"
  BY <1>2 DEF ReaderStates
<1>4. /\ reader' = [reader EXCEPT ![r] = n] /\ UNCHANGED <<db, writer, raced>>
      /\ cache' = IF connected THEN [cache EXCEPT ![k] = reader[r].value] ELSE cache
      /\ Reading(r, k)
  BY <1>2 DEF SetCached, Reading
<1> HIDE DEF n
<1>5. reader' \in [RegReads -> ReaderStates]
      /\ reader'[r] = n /\ \A q \in RegReads \ {r} : reader'[q] = reader[q]
  BY <1>2, <1>3, <1>4
<1>6. reader[r].value \in SUBSET Answers
  BY <1>2 DEF ReaderStates
<1>7. cache' \in [Keys -> SUBSET Answers]
      /\ \A j \in Keys : cache'[j] = cache[j] \/ (j = k /\ cache'[j] = reader[r].value)
  BY <1>2, <1>4, <1>6
<1>8. \A j : Found(j)' = Found(j)
  BY <1>4 DEF Found
<1>9. RegistryTypes'
  BY <1>1, <1>4, <1>5, <1>7 DEF RegistryTypes
<1>10. \A q \in RegReads, j \in Keys : Reading(q, j)' =>
          Reading(q, j) /\ reader'[q] = reader[q]
  BY <1>3, <1>5 DEF Reading
<1>11. \A w, j : Owes(w, j)' <=> Owes(w, j)
  BY <1>4 DEF Owes
<1>12. \A t \in RegTokens : t \in Keys
  BY DEF Keys
<1>13. AbsentIsNotCached'
  <2> SUFFICES ASSUME NEW t \in RegTokens, db[t] = 0
               PROVE  cache'[t] = {} /\ \A q \in RegReads : ~Reading(q, t)'
    BY <1>4 DEF AbsentIsNotCached
  <2>1. cache[t] = {} /\ \A q \in RegReads : ~Reading(q, t)
    BY <1>1 DEF AbsentIsNotCached
  <2> QED
    BY <1>4, <1>7, <1>10, <1>12, <2>1
<1>14. ReadsAreMarked'
  BY <1>1, <1>4, <1>8, <1>10 DEF ReadsAreMarked
<1>15. StaleIsOwed'
  <2> SUFFICES ASSUME NEW j \in Keys, NEW v \in cache'[j], v # Found(j)
               PROVE  j \in raced \/ \E w \in RegWrites : Owes(w, j)
    BY <1>4, <1>8, <1>11 DEF StaleIsOwed
  <2>1. CASE cache'[j] = cache[j]
    BY <1>1, <2>1 DEF StaleIsOwed
  <2>2. CASE j = k /\ cache'[j] = reader[r].value
    BY <1>1, <1>4, <2>2 DEF ReadsAreMarked
  <2> QED
    BY <1>7, <2>1, <2>2
<1> QED
  BY <1>9, <1>13, <1>14, <1>15 DEF RegistryInv

\* A write changes a token: the reads under way are marked, and the write owes
\* the keys the token is part of.
LEMMA ChangeStep ==
    ASSUME RegistryInv, NEW w \in RegWrites, NEW t \in RegTokens, Change(t),
           NEW l \in {"updated", "changed"}, l = "changed" => db[t] = 0,
           writer' = [writer EXCEPT ![w].pc = l, ![w].token = {t}],
           writer[w].pc = "idle", UNCHANGED <<cache, reader>>
    PROVE  RegistryInv'
<1>1. RegistryTypes /\ AbsentIsNotCached /\ ReadsAreMarked /\ StaleIsOwed
  BY DEF RegistryInv
<1> DEFINE n == [writer[w] EXCEPT !.pc = l, !.token = {t}]
<1>2. /\ writer \in [RegWrites -> WriterStates] /\ writer[w] \in WriterStates
      /\ db \in [RegTokens -> Nat] /\ raced \in SUBSET Keys
  BY <1>1 DEF RegistryTypes
<1>3. n \in WriterStates /\ n.pc = l /\ n.token = {t}
  BY <1>2 DEF WriterStates
<1>4. /\ writer' = [writer EXCEPT ![w] = n]
      /\ db' = [db EXCEPT ![t] = db[t] + 1]
      /\ raced' = raced \cup OpenReads(t)
  BY <1>2 DEF Change, WriterStates
<1> HIDE DEF n
<1>5. /\ writer' \in [RegWrites -> WriterStates] /\ writer'[w] = n
      /\ \A x \in RegWrites \ {w} : writer'[x] = writer[x]
  BY <1>2, <1>3, <1>4
<1>6. OpenReads(t) \subseteq Keys
  BY RegistryAssumption DEF OpenReads, KeysOf, Keys
<1>7. db' \in [RegTokens -> Nat] /\ \A x \in RegTokens : db'[x] = 0 => db[x] = 0
  BY <1>2, <1>4
<1>8. RegistryTypes'
  BY <1>1, <1>4, <1>5, <1>6, <1>7 DEF RegistryTypes
<1>9. AbsentIsNotCached'
  BY <1>1, <1>7 DEF AbsentIsNotCached, Reading
<1>10. ASSUME NEW k \in Keys, k \notin KeysOf(t) PROVE Found(k)' = Found(k)
  <2>1. t \notin Covered(k)
    BY <1>10 DEF Covered, KeysOf
  <2>2. \A x \in Covered(k) : db'[x] = db[x]
    BY <1>2, <1>4, <2>1 DEF Covered
  <2> QED
    BY <2>2 DEF Found, Covered
<1>11. ReadsAreMarked'
  <2> SUFFICES ASSUME NEW r \in RegReads, NEW k \in Keys, Reading(r, k),
                      NEW v \in reader[r].value, v # Found(k)'
               PROVE  k \in raced'
    BY DEF ReadsAreMarked, Reading
  <2>1. CASE k \in KeysOf(t)
    <3>1. k \in OpenReads(t)
      BY <2>1 DEF OpenReads, Reading
    <3> QED
      BY <1>4, <3>1
  <2>2. CASE k \notin KeysOf(t)
    BY <1>1, <1>4, <1>10, <2>2 DEF ReadsAreMarked
  <2> QED
    BY <2>1, <2>2
<1>12. \A x \in RegWrites, k \in Keys : Owes(x, k) => Owes(x, k)'
  <2> SUFFICES ASSUME NEW x \in RegWrites, NEW k \in Keys, Owes(x, k) PROVE Owes(x, k)'
    OBVIOUS
  <2>1. x # w
    BY DEF Owes
  <2> QED
    BY <1>5, <2>1 DEF Owes
<1>13. StaleIsOwed'
  <2> SUFFICES ASSUME NEW k \in Keys, NEW v \in cache[k], v # Found(k)'
               PROVE  k \in raced' \/ \E x \in RegWrites : Owes(x, k)'
    BY DEF StaleIsOwed
  <2>1. CASE k \in KeysOf(t)
    <3>1. CASE l = "updated"
      <4>1. Owes(w, k)'
        BY <1>3, <1>5, <2>1, <3>1 DEF Owes
      <4> QED
        BY <4>1
    <3>2. CASE l = "changed"
      <4>1. cache[t] = {}
        BY <1>1, <3>2 DEF AbsentIsNotCached
      <4>2. k = OwnerOf[t]
        BY <2>1, <4>1 DEF KeysOf
      <4>3. Owes(w, k)'
        BY <1>3, <1>5, <3>2, <4>2 DEF Owes
      <4> QED
        BY <4>3
    <3> QED
      BY <3>1, <3>2
  <2>2. CASE k \notin KeysOf(t)
    BY <1>1, <1>4, <1>10, <1>12, <2>2 DEF StaleIsOwed
  <2> QED
    BY <2>1, <2>2
<1> QED
  BY <1>8, <1>9, <1>11, <1>13 DEF RegistryInv

\* A write moves on and leaves no key it owed unless it emptied it or the race
\* is known.
LEMMA WriterMoves ==
    ASSUME RegistryInv, NEW w \in RegWrites, NEW n \in WriterStates,
           writer' = [writer EXCEPT ![w] = n], UNCHANGED <<db, reader>>,
           NEW S \in SUBSET Keys, cache' \in [Keys -> SUBSET Answers],
           \A k \in Keys : cache'[k] = cache[k] \/ cache'[k] = {},
           raced' = raced \cup S,
           \A k \in Keys : Owes(w, k) => cache'[k] = {} \/ k \in S \/ Owes(w, k)'
    PROVE  RegistryInv'
<1>1. RegistryTypes /\ AbsentIsNotCached /\ ReadsAreMarked /\ StaleIsOwed
  BY DEF RegistryInv
<1>2. /\ writer \in [RegWrites -> WriterStates] /\ writer' \in [RegWrites -> WriterStates]
      /\ \A x \in RegWrites \ {w} : writer'[x] = writer[x]
  BY <1>1 DEF RegistryTypes
<1>3. RegistryTypes'
  BY <1>1, <1>2 DEF RegistryTypes
<1>4. \A k : Found(k)' = Found(k)
  BY DEF Found
<1>5. \A t \in RegTokens : t \in Keys
  BY DEF Keys
<1>6. AbsentIsNotCached'
  BY <1>1, <1>5 DEF AbsentIsNotCached, Reading
<1>7. ReadsAreMarked'
  BY <1>1, <1>4 DEF ReadsAreMarked, Reading
<1>8. \A x \in RegWrites \ {w}, k \in Keys : Owes(x, k) => Owes(x, k)'
  BY <1>2 DEF Owes
<1>9. StaleIsOwed'
  <2> SUFFICES ASSUME NEW k \in Keys, NEW v \in cache'[k], v # Found(k)
               PROVE  k \in raced' \/ \E x \in RegWrites : Owes(x, k)'
    BY <1>4 DEF StaleIsOwed
  <2>1. cache'[k] = cache[k]
    OBVIOUS
  <2>2. k \in raced \/ \E x \in RegWrites : Owes(x, k)
    BY <1>1, <2>1 DEF StaleIsOwed
  <2>3. CASE k \in raced
    BY <2>3
  <2>4. CASE \E x \in RegWrites : Owes(x, k)
    <3>1. PICK x \in RegWrites : Owes(x, k)
      BY <2>4
    <3>2. CASE x = w
      <4>1. k \in S \/ Owes(w, k)'
        BY <3>1, <3>2
      <4> QED
        BY <4>1
    <3>3. CASE x # w
      BY <1>8, <3>1, <3>3
    <3> QED
      BY <3>2, <3>3
  <2> QED
    BY <2>2, <2>3, <2>4
<1> QED
  BY <1>3, <1>6, <1>7, <1>9 DEF RegistryInv

\* A writer lists keys after its write and deletes those it has listed.
LEMMA WriteStep ==
    ASSUME RegistryInv, NEW w \in RegWrites, NEW t \in RegTokens,
           \/ CreateToken(w, t) \/ UpdateToken(w, t) \/ DeleteMetadata(w, t)
           \/ ListKeys(w, t) \/ DeleteKeys(w, t) \/ SkipInvalidation(w, t)
    PROVE  RegistryInv'
<1>1. RegistryTypes
  BY DEF RegistryInv
<1>2. /\ writer \in [RegWrites -> WriterStates] /\ writer[w] \in WriterStates
      /\ cache \in [Keys -> SUBSET Answers]
  BY <1>1 DEF RegistryTypes
<1>3. t \in Keys /\ OwnerOf[t] \in Keys /\ {t} \in SUBSET Keys /\ {OwnerOf[t]} \in SUBSET Keys
  BY RegistryAssumption DEF Keys
<1>4. CASE /\ Change(t) /\ writer[w].pc = "idle" /\ UNCHANGED <<cache, reader>>
           /\ \/ db[t] = 0 /\ writer' = [writer EXCEPT ![w].pc = "changed", ![w].token = {t}]
              \/ writer' = [writer EXCEPT ![w].pc = "updated", ![w].token = {t}]
  BY <1>4, ChangeStep
<1>5. CASE /\ writer[w].pc = "idle" /\ UNCHANGED <<db, cache, reader, raced>>
           /\ writer' = [writer EXCEPT ![w].pc = "done"]
  <2> DEFINE n == [writer[w] EXCEPT !.pc = "done"]
  <2>1. n \in WriterStates /\ writer' = [writer EXCEPT ![w] = n]
    BY <1>2, <1>5 DEF WriterStates
  <2>2. \A k \in Keys : ~Owes(w, k)
    BY <1>5 DEF Owes
  <2>3. raced' = raced \cup {} /\ {} \in SUBSET Keys
    BY <1>5
  <2> HIDE DEF n
  <2> QED
    BY <1>2, <1>5, <2>1, <2>2, <2>3, WriterMoves
<1>6. CASE DeleteMetadata(w, t)
  <2> DEFINE n == [writer[w] EXCEPT !.pc = "changed"]
             S == IF connected THEN {} ELSE {t}
  <2>1. n \in WriterStates /\ writer' = [writer EXCEPT ![w] = n] /\ n.pc = "changed"
        /\ n.token = {t} /\ writer[w].pc = "updated" /\ writer[w].token = {t}
    BY <1>2, <1>6 DEF WriterStates, DeleteMetadata
  <2>2. /\ raced' = raced \cup S /\ S \in SUBSET Keys /\ UNCHANGED <<db, reader>>
        /\ cache' = IF connected THEN [cache EXCEPT ![t] = {}] ELSE cache
    BY <1>3, <1>6 DEF DeleteMetadata
  <2>3. writer'[w] = n
    BY <1>2, <2>1
  <2>4. cache' \in [Keys -> SUBSET Answers]
        /\ \A k \in Keys : cache'[k] = cache[k] \/ cache'[k] = {}
    BY <1>2, <1>3, <2>2
  <2>5. cache'[t] = {} \/ t \in S
    BY <1>2, <1>3, <2>2
  <2> HIDE DEF n, S
  <2>6. \A k \in Keys : Owes(w, k) => k = t \/ k = OwnerOf[t]
    BY <2>1 DEF Owes, KeysOf
  <2>7. Owes(w, OwnerOf[t])'
    BY <2>1, <2>3 DEF Owes
  <2>8. \A k \in Keys : Owes(w, k) => cache'[k] = {} \/ k \in S \/ Owes(w, k)'
    <3> SUFFICES ASSUME NEW k \in Keys, Owes(w, k)
                 PROVE  cache'[k] = {} \/ k \in S \/ Owes(w, k)'
      OBVIOUS
    <3>1. CASE k = t
      BY <2>5, <3>1
    <3>2. CASE k = OwnerOf[t]
      BY <2>1, <2>3, <3>2 DEF Owes
    <3> QED
      BY <2>6, <3>1, <3>2
  <2> QED
    BY <2>1, <2>2, <2>4, <2>8, WriterMoves
<1>7. CASE ListKeys(w, t)
  <2> DEFINE l == IF cache[OwnerOf[t]] = {} THEN "done" ELSE "listed"
             n == [writer[w] EXCEPT !.pc = l]
  <2>1. l \in {"done", "listed"} /\ (l = "done" => cache[OwnerOf[t]] = {})
    OBVIOUS
  <2>2. /\ writer' = [writer EXCEPT ![w] = n] /\ UNCHANGED <<db, cache, reader, raced>>
        /\ writer[w].pc = "changed" /\ writer[w].token = {t}
    BY <1>2, <1>7 DEF WriterStates, ListKeys
  <2> HIDE DEF l
  <2>3. n \in WriterStates /\ n.pc = l /\ n.token = {t}
    BY <1>2, <2>1, <2>2 DEF WriterStates
  <2> HIDE DEF n
  <2>4. writer'[w] = n
    BY <1>2, <2>2
  <2>5. \A k \in Keys : Owes(w, k) => cache'[k] = {} \/ k \in {} \/ Owes(w, k)'
    <3> SUFFICES ASSUME NEW k \in Keys, Owes(w, k)
                 PROVE  cache'[k] = {} \/ Owes(w, k)'
      OBVIOUS
    <3>1. k = OwnerOf[t]
      BY <2>2 DEF Owes
    <3>2. CASE l = "done"
      BY <2>1, <2>2, <3>1, <3>2
    <3>3. CASE l = "listed"
      BY <2>3, <2>4, <3>1, <3>3 DEF Owes
    <3> QED
      BY <2>1, <3>2, <3>3
  <2>6. raced' = raced \cup {} /\ {} \in SUBSET Keys
    BY <2>2
  <2> QED
    BY <1>2, <2>2, <2>3, <2>5, <2>6, WriterMoves
<1>8. CASE DeleteKeys(w, t) \/ SkipInvalidation(w, t)
  <2> DEFINE n == [writer[w] EXCEPT !.pc = "done"]
             S == IF connected THEN {} ELSE {OwnerOf[t]}
  <2>1. n \in WriterStates /\ writer' = [writer EXCEPT ![w] = n]
        /\ writer[w].pc \in {"changed", "listed"} /\ writer[w].token = {t}
    BY <1>2, <1>8 DEF WriterStates, DeleteKeys, SkipInvalidation
  <2>2. /\ raced' = raced \cup S /\ S \in SUBSET Keys /\ UNCHANGED <<db, reader>>
        /\ cache' = IF connected THEN [cache EXCEPT ![OwnerOf[t]] = {}] ELSE cache
    BY <1>3, <1>8 DEF DeleteKeys, SkipInvalidation
  <2>3. cache' \in [Keys -> SUBSET Answers]
        /\ \A k \in Keys : cache'[k] = cache[k] \/ cache'[k] = {}
    BY <1>2, <1>3, <2>2
  <2>4. cache'[OwnerOf[t]] = {} \/ OwnerOf[t] \in S
    BY <1>2, <1>3, <2>2
  <2> HIDE DEF n, S
  <2>5. \A k \in Keys : Owes(w, k) => k = OwnerOf[t]
    BY <2>1 DEF Owes
  <2>6. \A k \in Keys : Owes(w, k) => cache'[k] = {} \/ k \in S \/ Owes(w, k)'
    BY <2>4, <2>5
  <2> QED
    BY <2>1, <2>2, <2>3, <2>6, WriterMoves
<1> QED
  BY <1>4, <1>5, <1>6, <1>7, <1>8 DEF CreateToken, UpdateToken

\* A proposal or the gateway changes a token and owes nothing: what is cached
\* of it, or about to be, is marked.
LEMMA SilentStep ==
    ASSUME RegistryInv, NEW t \in RegTokens, ChangeSilently(t)
    PROVE  RegistryInv'
<1>1. RegistryTypes /\ AbsentIsNotCached /\ ReadsAreMarked /\ StaleIsOwed
  BY DEF RegistryInv
<1> DEFINE S == OpenReads(t) \cup {k \in KeysOf(t) : cache[k] # {}}
<1>2. /\ db \in [RegTokens -> Nat] /\ raced \in SUBSET Keys
      /\ db' = [db EXCEPT ![t] = db[t] + 1] /\ raced' = raced \cup S
      /\ UNCHANGED <<cache, reader, writer>>
  BY <1>1 DEF RegistryTypes, ChangeSilently
<1>3. S \subseteq Keys
  BY RegistryAssumption DEF OpenReads, KeysOf, Keys
<1>4. \A k \in KeysOf(t) : (cache[k] # {} => k \in S)
                          /\ \A r \in RegReads : Reading(r, k) => k \in S
  BY DEF OpenReads, Reading
<1> HIDE DEF S
<1>5. db' \in [RegTokens -> Nat] /\ \A x \in RegTokens : db'[x] = 0 => db[x] = 0
  BY <1>2
<1>6. RegistryTypes'
  BY <1>1, <1>2, <1>3, <1>5 DEF RegistryTypes
<1>7. AbsentIsNotCached'
  BY <1>1, <1>2, <1>5 DEF AbsentIsNotCached, Reading
<1>8. ASSUME NEW k \in Keys, k \notin KeysOf(t) PROVE Found(k)' = Found(k)
  <2>1. t \notin Covered(k)
    BY <1>8 DEF Covered, KeysOf
  <2>2. \A x \in Covered(k) : db'[x] = db[x]
    BY <1>2, <2>1 DEF Covered
  <2> QED
    BY <2>2 DEF Found, Covered
<1>9. ReadsAreMarked'
  <2> SUFFICES ASSUME NEW r \in RegReads, NEW k \in Keys, Reading(r, k),
                      NEW v \in reader[r].value, v # Found(k)'
               PROVE  k \in raced'
    BY <1>2 DEF ReadsAreMarked, Reading
  <2>1. CASE k \in KeysOf(t)
    BY <1>2, <1>4, <2>1
  <2>2. CASE k \notin KeysOf(t)
    BY <1>1, <1>2, <1>8, <2>2 DEF ReadsAreMarked
  <2> QED
    BY <2>1, <2>2
<1>10. StaleIsOwed'
  <2> SUFFICES ASSUME NEW k \in Keys, NEW v \in cache[k], v # Found(k)'
               PROVE  k \in raced' \/ \E x \in RegWrites : Owes(x, k)
    BY <1>2 DEF StaleIsOwed, Owes
  <2>1. CASE k \in KeysOf(t)
    BY <1>2, <1>4, <2>1
  <2>2. CASE k \notin KeysOf(t)
    BY <1>1, <1>2, <1>8, <2>2 DEF StaleIsOwed
  <2> QED
    BY <2>1, <2>2
<1> QED
  BY <1>6, <1>7, <1>9, <1>10 DEF RegistryInv

\* The time to live of a key is over.
LEMMA ExpireStep ==
    ASSUME RegistryInv, NEW k \in Keys, Expire(k)
    PROVE  RegistryInv'
<1>1. RegistryTypes /\ AbsentIsNotCached /\ ReadsAreMarked /\ StaleIsOwed
  BY DEF RegistryInv
<1>2. /\ cache' = [cache EXCEPT ![k] = {}] /\ UNCHANGED <<db, reader, writer>>
      /\ raced' = {j \in raced : j # k \/ \E r \in RegReads : Reading(r, k)}
  BY DEF Expire, Reading
<1>3. cache \in [Keys -> SUBSET Answers]
  BY <1>1 DEF RegistryTypes
<1>4. /\ cache' \in [Keys -> SUBSET Answers] /\ cache'[k] = {}
      /\ \A j \in Keys : j # k => cache'[j] = cache[j]
  BY <1>2, <1>3
<1>5. \A j \in raced : j # k => j \in raced'
  BY <1>2
<1>6. \A r \in RegReads, j \in Keys : Reading(r, j) /\ j \in raced => j \in raced'
  BY <1>2
<1>7. \A j : Found(j)' = Found(j)
  BY <1>2 DEF Found
<1>8. raced' \in SUBSET Keys
  BY <1>1, <1>2 DEF RegistryTypes
<1>9. RegistryTypes'
  BY <1>1, <1>2, <1>4, <1>8 DEF RegistryTypes
<1>10. \A t \in RegTokens : t \in Keys
  BY DEF Keys
<1>11. AbsentIsNotCached'
  <2> SUFFICES ASSUME NEW t \in RegTokens, db[t] = 0
               PROVE  cache'[t] = {} /\ \A r \in RegReads : ~Reading(r, t)
    BY <1>2 DEF AbsentIsNotCached, Reading
  <2>1. cache[t] = {} /\ \A r \in RegReads : ~Reading(r, t)
    BY <1>1 DEF AbsentIsNotCached
  <2> QED
    BY <1>4, <1>10, <2>1
<1>12. ReadsAreMarked'
  BY <1>1, <1>2, <1>6, <1>7 DEF ReadsAreMarked, Reading
<1>13. StaleIsOwed'
  <2> SUFFICES ASSUME NEW j \in Keys, NEW v \in cache'[j], v # Found(j)
               PROVE  j \in raced' \/ \E w \in RegWrites : Owes(w, j)
    BY <1>2, <1>7 DEF StaleIsOwed, Owes
  <2>1. j # k /\ cache'[j] = cache[j]
    BY <1>4
  <2> QED
    BY <1>1, <1>5, <2>1 DEF StaleIsOwed
<1> QED
  BY <1>9, <1>11, <1>12, <1>13 DEF RegistryInv

\* Every step of the requests and of Redis.
LEMMA RegistryStep == RegistryInv /\ [RegistryNext]_registryVars => RegistryInv'
<1> SUFFICES ASSUME RegistryInv, [RegistryNext]_registryVars PROVE RegistryInv'
  OBVIOUS
<1>1. CASE UNCHANGED <<db, cache, reader, writer, raced>>
  <2>1. RegistryTypes'
    BY <1>1 DEF RegistryInv, RegistryTypes
  <2>2. AbsentIsNotCached'
    BY <1>1 DEF RegistryInv, AbsentIsNotCached, Reading
  <2>3. \A k : Found(k)' = Found(k)
    BY <1>1 DEF Found
  <2>4. ReadsAreMarked'
    BY <1>1, <2>3 DEF RegistryInv, ReadsAreMarked, Reading
  <2>5. StaleIsOwed'
    BY <1>1, <2>3 DEF RegistryInv, StaleIsOwed, Owes
  <2> QED
    BY <2>1, <2>2, <2>4, <2>5 DEF RegistryInv
<1>2. CASE \E r \in RegReads, k \in Keys :
              GetCached(r, k) \/ QueryTokens(r, k) \/ SetCached(r, k)
  BY <1>2, ReadStep, SetStep
<1>3. CASE \E t \in RegTokens : ExecuteProposal(t) \/ RegisterByKey(t)
  BY <1>3, SilentStep DEF ExecuteProposal, RegisterByKey
<1>4. CASE \E w \in RegWrites, t \in RegTokens :
              \/ CreateToken(w, t) \/ UpdateToken(w, t) \/ DeleteMetadata(w, t)
              \/ ListKeys(w, t) \/ DeleteKeys(w, t) \/ SkipInvalidation(w, t)
  BY <1>4, WriteStep
<1>5. CASE \E k \in Keys : Expire(k)
  BY <1>5, ExpireStep
<1>6. CASE Disconnect \/ Reconnect
  BY <1>1, <1>6 DEF Disconnect, Reconnect
<1> QED
  BY <1>1, <1>2, <1>3, <1>4, <1>5, <1>6 DEF RegistryNext, registryVars

\* The cache serves what MongoDB holds, but for a write that is still to
\* invalidate it or a race that is known, for any owners, tokens and requests.
THEOREM StaleAlwaysByRace == RegistrySpec => []StaleOnlyByRace
<1>1. RegistryInit => RegistryInv
  BY DEF RegistryInit, RegistryInv, RegistryTypes, AbsentIsNotCached, ReadsAreMarked,
         StaleIsOwed, Reading, ReaderStates, WriterStates, Keys
<1>2. RegistryInv => StaleOnlyByRace
  <2> SUFFICES ASSUME RegistryInv, NEW k \in Keys, NEW v \in cache[k], v # Found(k),
                      k \notin raced
               PROVE  Invalidating(k)
    BY DEF StaleOnlyByRace
  <2>1. PICK w \in RegWrites : Owes(w, k)
    BY DEF RegistryInv, StaleIsOwed
  <2>2. PICK t \in RegTokens :
            /\ writer[w].token = {t} /\ k \in KeysOf(t)
            /\ \/ writer[w].pc = "updated"
               \/ writer[w].pc \in {"changed", "listed"} /\ k = OwnerOf[t]
    BY <2>1 DEF Owes, KeysOf
  <2>3. writer[w].token \subseteq Covered(k)
    BY <2>2 DEF Covered, KeysOf
  <2>4. OwnerOf[t] \in RegOwners
    BY RegistryAssumption
  <2> QED
    BY <2>2, <2>3, <2>4 DEF Invalidating
<1> QED
  BY <1>1, <1>2, RegistryStep, PTL DEF RegistrySpec

-----------------------------------------------------------------------------
(* Voting on a metadata change.                                              *)

DaoSpec == DaoInit /\ [][DaoNext]_daoVars

Tallies == [for : Nat, against : Nat]
BallotStates ==
    [pc : {"idle", "late", "loaded", "clear", "voted", "approved", "executed",
           "failed", "done"},
     vote : SUBSET VoteRecord, copy : Tallies]

Fors(S) == {v \in S : v.support}
Againsts(S) == {v \in S : ~v.support}

\* The votes stored whose tally is not saved yet.
Voting == {The(b) : b \in {c \in Ballots : ballot[c].pc = "voted"}}

DaoTypes ==
    /\ tally \in Tallies
    /\ votes \in SUBSET VoteRecord /\ IsFiniteSet(votes)
    /\ ballot \in [Ballots -> BallotStates]
    /\ \A b \in Ballots : ballot[b].pc # "idle" =>
          \E v \in VoteRecord : ballot[b].vote = {v}

\* While no request has worked on a stale copy, the copies are the tally, and
\* the tally counts the votes but for those it has still to count.
CopiesAreFresh ==
    daoRaced = {} =>
        /\ \A b \in Ballots : ballot[b].pc \in {"loaded", "clear"} => ballot[b].copy = tally
        /\ \A b \in Ballots : ballot[b].pc = "voted" =>
              The(b) \in votes /\ ballot[b].copy = PlusVote(tally, The(b).support)
        /\ tally.for = Cardinality(Fors(votes \ Voting))
        /\ tally.against = Cardinality(Againsts(votes \ Voting))

DaoInv == DaoTypes /\ CopiesAreFresh

\* The vote of a ballot that has one.
LEMMA TheVote ==
    ASSUME NEW b \in Ballots, NEW v, ballot[b].vote = {v}
    PROVE  The(b) = v
  BY DEF The

\* Votes for and against are counted apart.
LEMMA VotesAreSplit ==
    ASSUME NEW S \in SUBSET VoteRecord, IsFiniteSet(S)
    PROVE  /\ IsFiniteSet(Fors(S)) /\ Cardinality(Fors(S)) \in Nat
           /\ IsFiniteSet(Againsts(S)) /\ Cardinality(Againsts(S)) \in Nat
           /\ Cardinality(S) = Cardinality(Fors(S)) + Cardinality(Againsts(S))
<1> DEFINE F == Fors(S)
           A == Againsts(S)
<1>1. F \in SUBSET S /\ A \in SUBSET S /\ F \cup A = S /\ F \cap A = {}
  BY DEF Fors, Againsts
<1> HIDE DEF F, A
<1>2. IsFiniteSet(F) /\ IsFiniteSet(A)
  BY <1>1, FS_Subset
<1>3. Cardinality(F) \in Nat /\ Cardinality(A) \in Nat
  BY <1>2, FS_CardinalityType
<1>4. Cardinality(F \cup A) = Cardinality(F) + Cardinality(A) - Cardinality(F \cap A)
  BY <1>2, FS_Union
<1>5. Cardinality(F \cap A) = 0
  BY <1>1, FS_EmptySet
<1>6. Cardinality(S) = Cardinality(F \cup A)
  BY <1>1
<1>7. Cardinality(S) = Cardinality(F) + Cardinality(A)
  BY <1>3, <1>4, <1>5, <1>6
<1> QED
  BY <1>2, <1>3, <1>7 DEF F, A

\* One vote taken away from those stored.
LEMMA OneVoteLess ==
    ASSUME NEW S \in SUBSET VoteRecord, IsFiniteSet(S), NEW v \in S
    PROVE  /\ v.support => /\ Cardinality(Fors(S)) = Cardinality(Fors(S \ {v})) + 1
                           /\ Againsts(S) = Againsts(S \ {v})
           /\ ~v.support => /\ Cardinality(Againsts(S)) = Cardinality(Againsts(S \ {v})) + 1
                            /\ Fors(S) = Fors(S \ {v})
<1>1. IsFiniteSet(Fors(S)) /\ Cardinality(Fors(S)) \in Nat
      /\ IsFiniteSet(Againsts(S)) /\ Cardinality(Againsts(S)) \in Nat
  BY VotesAreSplit
<1>2. CASE v.support
  <2>1. /\ v \in Fors(S) /\ Fors(S \ {v}) = Fors(S) \ {v}
        /\ Againsts(S) = Againsts(S \ {v})
    BY <1>2 DEF Fors, Againsts
  <2>2. Cardinality(Fors(S) \ {v}) = Cardinality(Fors(S)) - 1
    BY <1>1, <2>1, FS_RemoveElement
  <2>3. Cardinality(Fors(S \ {v})) = Cardinality(Fors(S)) - 1
    BY <2>1, <2>2
  <2>4. Cardinality(Fors(S)) = Cardinality(Fors(S \ {v})) + 1
    BY ONLY <1>1, <2>3
  <2> QED
    BY <2>4, <1>2, <2>1, <2>2
<1>3. CASE ~v.support
  <2>1. /\ v \in Againsts(S) /\ Againsts(S \ {v}) = Againsts(S) \ {v}
        /\ Fors(S) = Fors(S \ {v})
    BY <1>3 DEF Fors, Againsts
  <2>2. Cardinality(Againsts(S) \ {v}) = Cardinality(Againsts(S)) - 1
    BY <1>1, <2>1, FS_RemoveElement
  <2>3. Cardinality(Againsts(S \ {v})) = Cardinality(Againsts(S)) - 1
    BY <2>1, <2>2
  <2>4. Cardinality(Againsts(S)) = Cardinality(Againsts(S \ {v})) + 1
    BY ONLY <1>1, <2>3
  <2> QED
    BY <2>4, <1>3, <2>1, <2>2
<1> QED
  BY <1>2, <1>3

\* A request moves on without a vote to count.
LEMMA BallotMoves ==
    ASSUME DaoInv, NEW b \in Ballots, NEW n \in BallotStates,
           ballot' = [ballot EXCEPT ![b] = n], UNCHANGED <<tally, votes>>,
           \E v \in VoteRecord : n.vote = {v}, n.pc # "voted",
           daoRaced' = {} => daoRaced = {} /\ ballot[b].pc # "voted"
                             /\ (n.pc \in {"loaded", "clear"} => n.copy = tally)
    PROVE  DaoInv'
<1>1. DaoTypes /\ CopiesAreFresh
  BY DEF DaoInv
<1>2. ballot \in [Ballots -> BallotStates]
  BY <1>1 DEF DaoTypes
<1>3. /\ ballot' \in [Ballots -> BallotStates] /\ ballot'[b] = n
      /\ \A c \in Ballots \ {b} : ballot'[c] = ballot[c]
  BY <1>2
<1>4. DaoTypes'
  BY <1>1, <1>3 DEF DaoTypes
<1>5. CopiesAreFresh'
  <2> SUFFICES ASSUME daoRaced' = {} PROVE CopiesAreFresh'
    BY DEF CopiesAreFresh
  <2>1. daoRaced = {} /\ ballot[b].pc # "voted" /\ (n.pc \in {"loaded", "clear"} => n.copy = tally)
    OBVIOUS
  <2>2. \A c \in Ballots : (ballot'[c].pc = "voted" <=> ballot[c].pc = "voted")
    BY <1>3, <2>1
  <2>3. \A c \in Ballots : ballot[c].pc = "voted" => The(c)' = The(c)
    BY <1>3, <2>1 DEF The
  <2>4. Voting' = Voting
    BY <2>2, <2>3 DEF Voting
  <2>5. \A c \in Ballots : ballot'[c].pc \in {"loaded", "clear"} => ballot'[c].copy = tally
    BY <1>1, <1>3, <2>1 DEF CopiesAreFresh
  <2>6. \A c \in Ballots : ballot'[c].pc = "voted" =>
            The(c)' \in votes /\ ballot'[c].copy = PlusVote(tally, The(c)'.support)
    <3> SUFFICES ASSUME NEW c \in Ballots, ballot'[c].pc = "voted"
                 PROVE  The(c)' \in votes /\ ballot'[c].copy = PlusVote(tally, The(c)'.support)
      OBVIOUS
    <3>1. c # b /\ ballot'[c] = ballot[c] /\ The(c)' = The(c)
      BY <1>3, <2>2, <2>3
    <3> QED
      BY <1>1, <2>1, <3>1 DEF CopiesAreFresh
  <2>7. tally.for = Cardinality(Fors(votes \ Voting))
        /\ tally.against = Cardinality(Againsts(votes \ Voting))
    BY <1>1, <2>1 DEF CopiesAreFresh
  <2>8. tally' = tally /\ votes' = votes
    OBVIOUS
  <2>9. (votes \ Voting)' = votes \ Voting
    BY <2>4, <2>8
  <2>10. Fors(votes \ Voting)' = Fors(votes \ Voting)
         /\ Againsts(votes \ Voting)' = Againsts(votes \ Voting)
    BY <2>9 DEF Fors, Againsts
  <2>11. PlusVote(tally, TRUE)' = PlusVote(tally, TRUE)
    BY <2>8 DEF PlusVote
  <2> QED
    BY <2>5, <2>6, <2>7, <2>8, <2>10 DEF CopiesAreFresh, PlusVote
<1> QED
  BY <1>4, <1>5 DEF DaoInv

\* The steps of a request that count no vote.
LEMMA BallotStep ==
    ASSUME DaoInv, NEW b \in Ballots,
           \/ \E v \in DaoVoters, s \in BOOLEAN : LoadProposal(b, v, s)
           \/ SaveExpired(b) \/ FindExistingVote(b) \/ SaveExecuted(b)
           \/ ApplyChanges(b) \/ ExecutionFails(b) \/ SaveRejected(b) \/ BallotFails(b)
    PROVE  DaoInv'
<1>1. DaoTypes
  BY DEF DaoInv
<1>2. /\ ballot \in [Ballots -> BallotStates] /\ ballot[b] \in BallotStates
      /\ tally \in Tallies
      /\ ballot[b].pc # "idle" => \E v \in VoteRecord : ballot[b].vote = {v}
  BY <1>1 DEF DaoTypes
<1>3. CASE \E v \in DaoVoters, s \in BOOLEAN : LoadProposal(b, v, s)
  <2>1. PICK v \in DaoVoters, s \in BOOLEAN : LoadProposal(b, v, s)
    BY <1>3
  <2> DEFINE l == IF status # "ACTIVE" THEN "done" ELSE IF expired THEN "late" ELSE "loaded"
             cast == [voter |-> v, support |-> s]
             n == [pc |-> l, vote |-> {cast}, copy |-> tally]
  <2>2. l \in {"done", "late", "loaded"} /\ cast \in VoteRecord
    BY DEF VoteRecord
  <2>3. ballot' = [ballot EXCEPT ![b] = n] /\ UNCHANGED <<tally, votes, daoRaced>>
        /\ ballot[b].pc = "idle"
    BY <2>1 DEF LoadProposal
  <2> HIDE DEF l, cast
  <2>4. n \in BallotStates /\ n.pc = l /\ n.vote = {cast} /\ n.copy = tally
    BY <1>2, <2>2 DEF BallotStates
  <2> HIDE DEF n
  <2>5. /\ \E w \in VoteRecord : n.vote = {w}
        /\ n.pc # "voted"
        /\ daoRaced' = {} => daoRaced = {} /\ ballot[b].pc # "voted"
                             /\ (n.pc \in {"loaded", "clear"} => n.copy = tally)
    BY <2>2, <2>3, <2>4
  <2> QED
    BY <2>3, <2>4, <2>5, BallotMoves
<1>4. ASSUME NEW l \in {"clear", "executed", "failed", "done"},
             ballot' = [ballot EXCEPT ![b].pc = l], UNCHANGED <<tally, votes>>,
             ballot[b].pc # "idle", l = "clear" => ballot[b].pc = "loaded",
             daoRaced' = {} => daoRaced = {} /\ ballot[b].pc # "voted"
      PROVE  DaoInv'
  <2> DEFINE n == [ballot[b] EXCEPT !.pc = l]
  <2>1. n \in BallotStates /\ n.pc = l /\ n.vote = ballot[b].vote /\ n.copy = ballot[b].copy
    BY <1>2, <1>4 DEF BallotStates
  <2>2. ballot' = [ballot EXCEPT ![b] = n]
    BY <1>2, <1>4 DEF BallotStates
  <2> HIDE DEF n
  <2>3. /\ \E w \in VoteRecord : n.vote = {w}
        /\ n.pc # "voted"
    BY <1>2, <1>4, <2>1
  <2>4. daoRaced = {} /\ n.pc \in {"loaded", "clear"} => n.copy = tally
    BY <1>4, <2>1 DEF DaoInv, CopiesAreFresh
  <2> QED
    BY <1>4, <2>1, <2>2, <2>3, <2>4, BallotMoves
<1>5. CASE SaveExpired(b) \/ ApplyChanges(b) \/ SaveRejected(b) \/ SaveExecuted(b)
           \/ ExecutionFails(b)
  <2>1. PICK l \in {"executed", "failed", "done"} : ballot' = [ballot EXCEPT ![b].pc = l]
    BY <1>5 DEF SaveExpired, ApplyChanges, SaveRejected, SaveExecuted, ExecutionFails, Goto
  <2>2. /\ UNCHANGED <<tally, votes, daoRaced>>
        /\ ballot[b].pc # "idle" /\ ballot[b].pc # "voted"
    BY <1>5 DEF SaveExpired, ApplyChanges, SaveRejected, SaveExecuted, ExecutionFails
  <2> QED
    BY <1>4, <2>1, <2>2
<1>6. CASE FindExistingVote(b)
  <2>1. PICK l \in {"clear", "done"} : ballot' = [ballot EXCEPT ![b].pc = l]
    BY <1>6 DEF FindExistingVote, Goto
  <2>2. UNCHANGED <<tally, votes, daoRaced>> /\ ballot[b].pc = "loaded"
    BY <1>6 DEF FindExistingVote
  <2> QED
    BY <1>4, <2>1, <2>2
<1>7. CASE BallotFails(b)
  <2>1. /\ ballot' = [ballot EXCEPT ![b].pc = "done"] /\ UNCHANGED <<tally, votes>>
        /\ ballot[b].pc # "idle"
        /\ daoRaced' = IF ballot[b].pc = "voted" THEN daoRaced \cup {b} ELSE daoRaced
    BY <1>7 DEF BallotFails, Goto
  <2>2. daoRaced' = {} => daoRaced = {} /\ ballot[b].pc # "voted"
    BY <2>1
  <2> QED
    BY <1>4, <2>1, <2>2
<1> QED
  BY <1>3, <1>5, <1>6, <1>7

\* A vote is stored: the tally has still to count it.
LEMMA CreateStep ==
    ASSUME DaoInv, NEW b \in Ballots, CreateVote(b)
    PROVE  DaoInv'
<1>1. DaoTypes /\ CopiesAreFresh
  BY DEF DaoInv
<1>2. /\ ballot \in [Ballots -> BallotStates] /\ ballot[b] \in BallotStates
      /\ tally \in Tallies /\ votes \in SUBSET VoteRecord /\ IsFiniteSet(votes)
  BY <1>1 DEF DaoTypes
<1>3. /\ ballot[b].pc = "clear" /\ UNCHANGED <<tally, daoRaced>>
  BY DEF CreateVote
<1>4. PICK v \in VoteRecord : ballot[b].vote = {v}
  BY <1>1, <1>3 DEF DaoTypes
<1>5. The(b) = v
  BY <1>4, TheVote
<1>6. CASE \E w \in votes : w.voter = The(b).voter
  <2> DEFINE n == [ballot[b] EXCEPT !.pc = "done"]
  <2>1. ballot' = [ballot EXCEPT ![b] = n] /\ UNCHANGED votes
    BY <1>2, <1>6 DEF CreateVote, Goto, BallotStates
  <2>2. n \in BallotStates /\ n.pc = "done" /\ n.vote = {v}
    BY <1>2, <1>4 DEF BallotStates
  <2> HIDE DEF n
  <2> QED
    BY <1>3, <2>1, <2>2, BallotMoves
<1>7. CASE ~(\E w \in votes : w.voter = The(b).voter)
  <2> DEFINE copy == PlusVote(ballot[b].copy, v.support)
             n == [ballot[b] EXCEPT !.pc = "voted", !.copy = copy]
  <2>1. votes' = votes \cup {v} /\ v \notin votes
    BY <1>5, <1>7 DEF CreateVote
  <2>2. ballot' = [ballot EXCEPT ![b] = n]
    BY <1>2, <1>5, <1>7 DEF CreateVote, BallotStates
  <2>3. copy \in Tallies
    <3>1. ballot[b].copy \in Tallies
      BY <1>2 DEF BallotStates
    <3> QED
      BY <3>1 DEF PlusVote, Tallies
  <2> HIDE DEF copy
  <2>4. n \in BallotStates /\ n.pc = "voted" /\ n.copy = copy /\ n.vote = {v}
    BY <1>2, <1>4, <2>3 DEF BallotStates
  <2> HIDE DEF n
  <2>5. /\ ballot' \in [Ballots -> BallotStates] /\ ballot'[b] = n
        /\ \A c \in Ballots \ {b} : ballot'[c] = ballot[c]
    BY <1>2, <2>2, <2>4
  <2>6. votes' \in SUBSET VoteRecord /\ IsFiniteSet(votes')
    BY <1>2, <2>1, FS_AddElement
  <2>7. DaoTypes'
    BY <1>1, <1>3, <2>4, <2>5, <2>6 DEF DaoTypes
  <2>8. The(b)' = v /\ \A c \in Ballots \ {b} : The(c)' = The(c)
    BY <2>4, <2>5 DEF The
  <2>9. Voting' = Voting \cup {v}
    BY <1>3, <2>4, <2>5, <2>8 DEF Voting
  <2>10. votes' \ Voting' = votes \ Voting
    BY <2>1, <2>9
  <2>11. CopiesAreFresh'
    <3> SUFFICES ASSUME daoRaced' = {} PROVE CopiesAreFresh'
      BY DEF CopiesAreFresh
    <3>1. /\ \A c \in Ballots : ballot[c].pc \in {"loaded", "clear"} => ballot[c].copy = tally
          /\ \A c \in Ballots : ballot[c].pc = "voted" =>
                The(c) \in votes /\ ballot[c].copy = PlusVote(tally, The(c).support)
          /\ tally.for = Cardinality(Fors(votes \ Voting))
          /\ tally.against = Cardinality(Againsts(votes \ Voting))
      BY <1>1, <1>3 DEF CopiesAreFresh
    <3>2. copy = PlusVote(tally, v.support)
      BY <1>3, <3>1 DEF copy
    <3>3. \A c \in Ballots : ballot'[c].pc \in {"loaded", "clear"} => ballot'[c].copy = tally'
      BY <1>3, <2>4, <2>5, <3>1
    <3>4. \A c \in Ballots : ballot'[c].pc = "voted" =>
            The(c)' \in votes' /\ ballot'[c].copy = PlusVote(tally, The(c)'.support)
      <4> SUFFICES ASSUME NEW c \in Ballots, ballot'[c].pc = "voted"
                   PROVE  The(c)' \in votes' /\ ballot'[c].copy = PlusVote(tally, The(c)'.support)
        OBVIOUS
      <4>1. CASE c = b
        BY <2>1, <2>4, <2>5, <2>8, <3>2, <4>1
      <4>2. CASE c # b
        <5>1. ballot'[c] = ballot[c] /\ The(c)' = The(c)
          BY <2>5, <2>8, <4>2
        <5> QED
          BY <2>1, <3>1, <5>1
      <4> QED
        BY <4>1, <4>2
    <3>5. tally'.for = Cardinality(Fors(votes' \ Voting'))
          /\ tally'.against = Cardinality(Againsts(votes' \ Voting'))
      BY <1>3, <2>10, <3>1
    <3> QED
      BY <1>3, <3>3, <3>4, <3>5 DEF CopiesAreFresh, PlusVote, Fors, Againsts
  <2> QED
    BY <2>7, <2>11 DEF DaoInv
<1> QED
  BY <1>6, <1>7

\* What a request that nobody overlapped saves and decides on is the count of
\* the votes stored.
LEMMA SavedIsCounted ==
    ASSUME DaoInv, NEW b \in Ballots, SaveTally(b), daoRaced' = {}
    PROVE  /\ tally' = ballot[b].copy /\ votes' = votes
           /\ ballot[b].copy.for = Cardinality(Fors(votes))
           /\ ballot[b].copy.against = Cardinality(Againsts(votes))
           /\ \A c \in Ballots \ {b} : ballot[c].pc \notin {"loaded", "clear", "voted"}
<1>1. DaoTypes /\ CopiesAreFresh
  BY DEF DaoInv
<1> DEFINE copy == ballot[b].copy
<1>2. /\ ballot[b].pc = "voted" /\ votes' = votes
      /\ tally' = IF The(b).support THEN [tally EXCEPT !.for = copy.for]
                                    ELSE [tally EXCEPT !.against = copy.against]
      /\ daoRaced = {} /\ Overlapping(b) = {}
  BY DEF SaveTally
<1>3. \A c \in Ballots \ {b} : ballot[c].pc \notin {"loaded", "clear", "voted"}
  BY <1>2 DEF Overlapping
<1>4. PICK v \in VoteRecord : ballot[b].vote = {v}
  BY <1>1, <1>2 DEF DaoTypes
<1>5. The(b) = v
  BY <1>4, TheVote
<1>6. Voting = {v}
  BY <1>2, <1>3, <1>5 DEF Voting
<1>7. /\ v \in votes /\ copy = PlusVote(tally, v.support)
      /\ tally.for = Cardinality(Fors(votes \ {v}))
      /\ tally.against = Cardinality(Againsts(votes \ {v}))
  BY <1>1, <1>2, <1>5, <1>6 DEF CopiesAreFresh
<1>8. tally \in Tallies /\ votes \in SUBSET VoteRecord /\ IsFiniteSet(votes)
  BY <1>1 DEF DaoTypes
<1>9. CASE v.support
  <2>1. copy = [tally EXCEPT !.for = tally.for + 1]
    BY <1>7, <1>9 DEF PlusVote
  <2>2. copy.for = tally.for + 1 /\ copy.against = tally.against /\ tally' = copy
    BY <1>2, <1>5, <1>8, <1>9, <2>1 DEF Tallies
  <2>3. Cardinality(Fors(votes)) = Cardinality(Fors(votes \ {v})) + 1
        /\ Againsts(votes) = Againsts(votes \ {v})
    BY <1>7, <1>8, <1>9, OneVoteLess
  <2> QED
    BY <1>2, <1>3, <1>7, <2>2, <2>3
<1>10. CASE ~v.support
  <2>1. copy = [tally EXCEPT !.against = tally.against + 1]
    BY <1>7, <1>10 DEF PlusVote
  <2>2. copy.against = tally.against + 1 /\ copy.for = tally.for /\ tally' = copy
    BY <1>2, <1>5, <1>8, <1>10, <2>1 DEF Tallies
  <2>3. Cardinality(Againsts(votes)) = Cardinality(Againsts(votes \ {v})) + 1
        /\ Fors(votes) = Fors(votes \ {v})
    BY <1>7, <1>8, <1>10, OneVoteLess
  <2> QED
    BY <1>2, <1>3, <1>7, <2>2, <2>3
<1> QED
  BY <1>9, <1>10

\* A saved tally is that of a copy, raised by the ballot's own vote.
LEMMA SaveTallyStep ==
    ASSUME DaoInv, NEW b \in Ballots, SaveTally(b)
    PROVE  DaoInv'
<1>1. DaoTypes
  BY DEF DaoInv
<1>2. /\ ballot \in [Ballots -> BallotStates] /\ ballot[b] \in BallotStates
      /\ tally \in Tallies /\ votes \in SUBSET VoteRecord /\ IsFiniteSet(votes)
  BY <1>1 DEF DaoTypes
<1> DEFINE copy == ballot[b].copy
           l == IF Approved(copy) THEN "approved" ELSE "done"
           n == [ballot[b] EXCEPT !.pc = l]
<1>3. copy \in Tallies /\ l \in {"approved", "done"}
  BY <1>2 DEF BallotStates
<1>4. /\ ballot[b].pc = "voted" /\ votes' = votes
      /\ tally' = IF The(b).support THEN [tally EXCEPT !.for = copy.for]
                                    ELSE [tally EXCEPT !.against = copy.against]
      /\ ballot' = [ballot EXCEPT ![b] = n]
  BY <1>2 DEF SaveTally, Goto, BallotStates
<1>5. tally' \in Tallies
  BY <1>2, <1>3, <1>4 DEF Tallies
<1> HIDE DEF l
<1>6. n \in BallotStates /\ n.pc = l /\ n.vote = ballot[b].vote
  BY <1>2, <1>3 DEF BallotStates
<1> HIDE DEF n
<1>7. /\ ballot' \in [Ballots -> BallotStates] /\ ballot'[b] = n
      /\ \A c \in Ballots \ {b} : ballot'[c] = ballot[c]
  BY <1>2, <1>4, <1>6
<1>8. DaoTypes'
  BY <1>1, <1>4, <1>5, <1>6, <1>7 DEF DaoTypes
<1>9. CopiesAreFresh'
  <2> SUFFICES ASSUME daoRaced' = {} PROVE CopiesAreFresh'
    BY DEF CopiesAreFresh
  <2>1. /\ tally' = copy /\ votes' = votes
        /\ copy.for = Cardinality(Fors(votes))
        /\ copy.against = Cardinality(Againsts(votes))
        /\ \A c \in Ballots \ {b} : ballot[c].pc \notin {"loaded", "clear", "voted"}
    BY SavedIsCounted
  <2>2. \A c \in Ballots : ballot'[c].pc \notin {"loaded", "clear", "voted"}
    BY <1>3, <1>6, <1>7, <2>1
  <2>3. Voting' = {}
    BY <2>2 DEF Voting
  <2>4. votes' \ Voting' = votes
    BY <2>1, <2>3
  <2>5. tally'.for = Cardinality(Fors(votes' \ Voting'))
        /\ tally'.against = Cardinality(Againsts(votes' \ Voting'))
    BY <2>1, <2>4
  <2> QED
    BY <2>2, <2>5 DEF CopiesAreFresh, Fors, Againsts
<1> QED
  BY <1>8, <1>9 DEF DaoInv

\* Every step of the requests and of the clock.
LEMMA DaoStep == DaoInv /\ [DaoNext]_daoVars => DaoInv'
<1> SUFFICES ASSUME DaoInv, [DaoNext]_daoVars PROVE DaoInv'
  OBVIOUS
<1>1. CASE UNCHANGED <<tally, votes, ballot, daoRaced>>
  <2>1. Voting' = Voting /\ \A b : The(b)' = The(b)
    BY <1>1 DEF Voting, The
  <2>2. DaoTypes'
    BY <1>1 DEF DaoInv, DaoTypes
  <2>3. CopiesAreFresh'
    BY <1>1, <2>1 DEF DaoInv, CopiesAreFresh, PlusVote, Fors, Againsts
  <2> QED
    BY <2>2, <2>3 DEF DaoInv
<1>2. CASE \E b \in Ballots :
        \/ \E v \in DaoVoters, s \in BOOLEAN : LoadProposal(b, v, s)
        \/ SaveExpired(b) \/ FindExistingVote(b) \/ CreateVote(b)
        \/ SaveTally(b) \/ SaveExecuted(b) \/ ApplyChanges(b)
        \/ ExecutionFails(b) \/ SaveRejected(b) \/ BallotFails(b)
  BY <1>2, BallotStep, CreateStep, SaveTallyStep
<1>3. CASE PassExpiry
  BY <1>1, <1>3 DEF PassExpiry
<1> QED
  BY <1>1, <1>2, <1>3 DEF DaoNext, daoVars

\* A request that decides to approve saves its tally in that step.
LEMMA OnlySavesApprove ==
    ASSUME DaoInv, DaoNext, NEW b \in Ballots, ballot[b].pc # "approved",
           ballot'[b].pc = "approved"
    PROVE  SaveTally(b) /\ Approved(ballot[b].copy)
<1>1. ballot \in [Ballots -> BallotStates]
  BY DEF DaoInv, DaoTypes
<1>2. ~PassExpiry
  BY DEF PassExpiry
<1>3. PICK c \in Ballots :
        \/ \E v \in DaoVoters, s \in BOOLEAN : LoadProposal(c, v, s)
        \/ SaveExpired(c) \/ FindExistingVote(c) \/ CreateVote(c)
        \/ SaveTally(c) \/ SaveExecuted(c) \/ ApplyChanges(c)
        \/ ExecutionFails(c) \/ SaveRejected(c) \/ BallotFails(c)
  BY <1>2 DEF DaoNext
<1>4. c = b
  <2>1. CASE c # b
    <3>1. ballot'[b] = ballot[b]
      BY <1>1, <1>3, <2>1 DEF LoadProposal, SaveExpired, FindExistingVote, CreateVote, SaveTally,
         SaveExecuted, ApplyChanges, ExecutionFails, SaveRejected, BallotFails, Goto
    <3> QED
      BY <3>1
  <2> QED
    BY <2>1
<1>5. ASSUME NEW l, l # "approved", ballot' = [ballot EXCEPT ![b].pc = l] PROVE FALSE
  <2>1. ballot'[b].pc = l
    BY <1>1, <1>5 DEF BallotStates
  <2> QED
    BY <1>5, <2>1
<1>6. ~\E v \in DaoVoters, s \in BOOLEAN : LoadProposal(b, v, s)
  <2> SUFFICES ASSUME NEW v \in DaoVoters, NEW s \in BOOLEAN, LoadProposal(b, v, s) PROVE FALSE
    OBVIOUS
  <2>1. ballot'[b].pc \in {"done", "late", "loaded"}
    BY <1>1 DEF LoadProposal
  <2> QED
    BY <2>1
<1>7. ~CreateVote(b)
  <2> SUFFICES ASSUME CreateVote(b) PROVE FALSE
    OBVIOUS
  <2>1. ballot'[b].pc \in {"done", "voted"}
    BY <1>1 DEF CreateVote, Goto, BallotStates
  <2> QED
    BY <2>1
<1>8. SaveTally(b)
  BY <1>3, <1>4, <1>5, <1>6, <1>7
  DEF SaveExpired, FindExistingVote, SaveExecuted, ApplyChanges, ExecutionFails, SaveRejected,
      BallotFails, Goto
<1>9. Approved(ballot[b].copy)
  <2>1. ballot' = [ballot EXCEPT ![b].pc = IF Approved(ballot[b].copy) THEN "approved" ELSE "done"]
    BY <1>8 DEF SaveTally, Goto
  <2> QED
    BY <1>5, <2>1
<1> QED
  BY <1>8, <1>9

\* A request approves only on three stored votes at least and the quorum's
\* share of them for it, for any number of voters and requests, while no
\* request has worked on a stale copy.
THEOREM ApprovedOnVotes == DaoSpec => ApprovedByItsVotes
<1>1. DaoInit => DaoInv
  <2> SUFFICES ASSUME DaoInit PROVE DaoInv
    OBVIOUS
  <2>1. /\ tally = [for |-> 0, against |-> 0] /\ votes = {} /\ daoRaced = {}
        /\ ballot = [b \in Ballots |-> [pc |-> "idle", vote |-> {},
                                        copy |-> [for |-> 0, against |-> 0]]]
    BY DEF DaoInit
  <2>2. DaoTypes
    BY <2>1, FS_EmptySet DEF DaoTypes, Tallies, BallotStates
  <2>3. Fors(votes \ Voting) = {} /\ Againsts(votes \ Voting) = {}
    BY <2>1 DEF Fors, Againsts
  <2>4. tally.for = Cardinality(Fors(votes \ Voting))
        /\ tally.against = Cardinality(Againsts(votes \ Voting))
    BY <2>1, <2>3, FS_EmptySet
  <2>5. CopiesAreFresh
    BY <2>1, <2>4 DEF CopiesAreFresh
  <2> QED
    BY <2>2, <2>5 DEF DaoInv
<1>2. DaoInv /\ [DaoNext]_daoVars =>
        [\A b \in Ballots :
            LET for == {v \in votes' : v.support}
            IN  ballot[b].pc # "approved" /\ ballot'[b].pc = "approved" /\ daoRaced' = {}
                => /\ Cardinality(votes') >= 3
                   /\ 100 * Cardinality(for) >= ApprovalQuorum * Cardinality(votes')]_daoVars
  <2> SUFFICES ASSUME DaoInv, DaoNext, NEW b \in Ballots, ballot[b].pc # "approved",
                      ballot'[b].pc = "approved", daoRaced' = {}
               PROVE  /\ Cardinality(votes') >= 3
                      /\ 100 * Cardinality({v \in votes' : v.support})
                             >= ApprovalQuorum * Cardinality(votes')
    BY DEF Fors
  <2>1. SaveTally(b) /\ Approved(ballot[b].copy)
    BY OnlySavesApprove
  <2>2. /\ votes' = votes
        /\ ballot[b].copy.for = Cardinality(Fors(votes))
        /\ ballot[b].copy.against = Cardinality(Againsts(votes))
    BY <2>1, SavedIsCounted
  <2>3. votes \in SUBSET VoteRecord /\ IsFiniteSet(votes)
    BY DEF DaoInv, DaoTypes
  <2>4. Cardinality(votes) = Cardinality(Fors(votes)) + Cardinality(Againsts(votes))
    BY <2>3, VotesAreSplit
  <2>5. /\ ballot[b].copy.for + ballot[b].copy.against >= 3
        /\ 100 * ballot[b].copy.for
              >= ApprovalQuorum * (ballot[b].copy.for + ballot[b].copy.against)
    BY <2>1 DEF Approved
  <2>6. {v \in votes' : v.support} = Fors(votes)
    BY <2>2 DEF Fors
  <2> QED
    BY <2>2, <2>4, <2>5, <2>6
<1> QED
  BY <1>1, <1>2, DaoStep, PTL DEF DaoSpec, ApprovedByItsVotes

-----------------------------------------------------------------------------
(* The scanner and the deployment gate.                                      *)

ScannerSpec == ScannerInit /\ [][ScannerNext]_scannerVars

AllRules == UNION {RulesOf[i] : i \in SectionIds}
ReadStates == [ids : SUBSET SectionIds, errors : Nat, fires : SUBSET AllRules]
UploadStates == [pc : {"idle", "parsing", "parsed", "report", "done"},
                 user : SUBSET ScanUsers, size : Reaching, file : Seq(Section),
                 read : ReadStates, status : Status]
DeploymentStates == [pc : {"idle", "passed", "registered", "refused"},
                     user : SUBSET ScanUsers, scan : SUBSET Uploads]

ScannerTypes ==
    /\ upload \in [Uploads -> UploadStates]
    /\ results \in SUBSET Uploads
    /\ deployment \in [Deployments -> DeploymentStates]

\* What the parser holds about the sections it has been through.
ReadIsFile(x) ==
    /\ x.read.errors = 0 =>
          \A i \in DOMAIN x.file : x.file[i].shape \in {"whole", "spills"}
    /\ \A id \in x.read.ids : \E i \in DOMAIN x.file :
          x.file[i].id = id /\ x.file[i].fires \subseteq x.read.fires
    /\ x.pc = "idle" \/ x.size = "small" => x.file = <<>>

\* No section torn or left out, and one imports from the host.
WasRead(x) ==
    /\ \A i \in DOMAIN x.file : x.file[i].shape \in {"whole", "spills"}
    /\ x.size # "small" => \E i \in DOMAIN x.file :
          x.file[i].id = "import" /\ "SM-004" \notin x.file[i].fires

ReportIsTrue(x) ==
    x.pc \in {"report", "done"} /\ ~DeploymentBlocked(x.status) => WasRead(x)

GatePassed(d) ==
    \E u \in d.scan : upload[u].user = d.user /\ upload[u].pc = "done" /\ WasRead(upload[u])

ScannerInv ==
    /\ ScannerTypes
    /\ \A u \in Uploads : ReadIsFile(upload[u]) /\ ReportIsTrue(upload[u])
    /\ \A u \in results : upload[u].pc = "done"
    /\ \A d \in Deployments : deployment[d].pc \in {"passed", "registered"} =>
          GatePassed(deployment[d])

\* What a section is.
LEMMA SectionsAre ==
    ASSUME NEW s \in Section
    PROVE  s.id \in SectionIds /\ s.fires \in SUBSET AllRules
<1>1. PICK id \in SectionIds, shape \in Shapes :
         s \in {[id |-> id, shape |-> shape, fires |-> fired] : fired \in FiresOf(id, shape)}
  BY DEF Section
<1>2. PICK fired \in FiresOf(id, shape) : s = [id |-> id, shape |-> shape, fires |-> fired]
  BY <1>1
<1>3. fired \in SUBSET RulesOf[id]
  BY DEF FiresOf
<1> QED
  BY <1>2, <1>3 DEF AllRules

\* A report that lets a deployment pass has no severe finding.
LEMMA PassesHarmless ==
    ASSUME NEW F, ~DeploymentBlocked(BuildReport(F, FALSE))
    PROVE  F \cap Severe = {}
  BY DEF BuildReport, DeploymentBlocked

\* One scan moves on; one that is done stays as it is.
LEMMA UploadMoves ==
    ASSUME ScannerInv, NEW u \in Uploads, NEW n \in UploadStates,
           upload' = [upload EXCEPT ![u] = n], UNCHANGED deployment,
           results' \in SUBSET Uploads, upload[u].pc # "done", ReadIsFile(n), ReportIsTrue(n),
           \A x \in results' : x \in results \/ (x = u /\ n.pc = "done")
    PROVE  ScannerInv'
<1>1. upload \in [Uploads -> UploadStates] /\ deployment \in [Deployments -> DeploymentStates]
  BY DEF ScannerInv, ScannerTypes
<1>2. /\ upload' \in [Uploads -> UploadStates] /\ upload'[u] = n
      /\ \A x \in Uploads \ {u} : upload'[x] = upload[x]
  BY <1>1
<1>3. ScannerTypes'
  BY <1>1, <1>2 DEF ScannerTypes
<1>4. \A x \in Uploads : ReadIsFile(upload'[x]) /\ ReportIsTrue(upload'[x])
  BY <1>2 DEF ScannerInv
<1>5. \A x \in results' : upload'[x].pc = "done"
  <2> SUFFICES ASSUME NEW x \in results' PROVE upload'[x].pc = "done"
    OBVIOUS
  <2>1. CASE x = u /\ n.pc = "done"
    BY <1>2, <2>1
  <2>2. CASE x \in results
    <3>1. upload[x].pc = "done" /\ x \in Uploads
      BY <2>2 DEF ScannerInv, ScannerTypes
    <3> QED
      BY <1>2, <3>1
  <2> QED
    BY <2>1, <2>2
<1>6. \A d \in Deployments : deployment'[d].pc \in {"passed", "registered"} =>
          GatePassed(deployment[d])'
  <2> SUFFICES ASSUME NEW d \in Deployments, deployment[d].pc \in {"passed", "registered"}
               PROVE  GatePassed(deployment[d])'
    OBVIOUS
  <2>1. PICK x \in deployment[d].scan : upload[x].user = deployment[d].user
              /\ upload[x].pc = "done" /\ WasRead(upload[x])
    BY DEF ScannerInv, GatePassed
  <2>2. x \in Uploads
    BY <1>1 DEF DeploymentStates
  <2>3. upload'[x] = upload[x] /\ deployment' = deployment
    BY <1>2, <2>1, <2>2
  <2> QED
    BY <2>1, <2>3 DEF GatePassed, WasRead
<1> QED
  BY <1>3, <1>4, <1>5, <1>6 DEF ScannerInv, ReadIsFile, ReportIsTrue, WasRead

\* A scan begins with nothing read.
LEMMA ScanStep ==
    ASSUME ScannerInv, NEW u \in Uploads, NEW who \in ScanUsers, NEW header \in Headers,
           NEW size \in Reaching, ScanWasm(u, who, header, size)
    PROVE  ScannerInv'
<1>1. upload \in [Uploads -> UploadStates] /\ upload[u] \in UploadStates
      /\ results \in SUBSET Uploads
  BY DEF ScannerInv, ScannerTypes
<1>2. BuildReport({"SM-001"}, TRUE) = "error"
  BY DEF BuildReport
<1> DEFINE l == IF header = "ok" THEN "parsing" ELSE "report"
           st == IF header = "ok" THEN "clean" ELSE "error"
           n == [[[[upload[u] EXCEPT !.user = {who}] EXCEPT !.size = size]
                     EXCEPT !.pc = l] EXCEPT !.status = st]
<1>3. l \in {"parsing", "report"} /\ st \in Status /\ (l = "report" => st = "error")
  BY DEF Status
<1>4. upload' = [upload EXCEPT ![u] = n] /\ UNCHANGED <<results, deployment>>
      /\ upload[u].pc = "idle"
  BY <1>1, <1>2 DEF ScanWasm, UploadStates
<1> HIDE DEF l, st
<1>5. n \in UploadStates /\ n.pc = l /\ n.status = st /\ n.file = upload[u].file
      /\ n.read = upload[u].read
  BY <1>1, <1>3 DEF UploadStates
<1> HIDE DEF n
<1>6. ReadIsFile(upload[u])
  BY DEF ScannerInv
<1>7. n.file = <<>> /\ ReadIsFile(n)
  BY <1>4, <1>5, <1>6 DEF ReadIsFile
<1>8. ReportIsTrue(n)
  BY <1>3, <1>5 DEF ReportIsTrue, DeploymentBlocked
<1> QED
  BY <1>1, <1>4, <1>5, <1>7, <1>8, UploadMoves

\* A section is read, or its error noted.
LEMMA ParseStep ==
    ASSUME ScannerInv, NEW u \in Uploads, NEW s \in Section, ParseSection(u, s)
    PROVE  ScannerInv'
<1>1. upload \in [Uploads -> UploadStates] /\ upload[u] \in UploadStates
      /\ results \in SUBSET Uploads
  BY DEF ScannerInv, ScannerTypes
<1> DEFINE file == upload[u].file
           read == upload[u].read
           l == IF s.shape = "long" THEN "parsed" ELSE "parsing"
           more == Parsed(read, s)
           n == [[[upload[u] EXCEPT !.file = Append(file, s)] EXCEPT !.read = more]
                    EXCEPT !.pc = l]
<1>2. l \in {"parsing", "parsed"}
  OBVIOUS
<1>3. /\ file \in Seq(Section) /\ read \in ReadStates
  BY <1>1 DEF UploadStates
<1>4. /\ Append(file, s) \in Seq(Section)
      /\ DOMAIN file = 1 .. Len(file) /\ Len(file) \in Nat
      /\ DOMAIN Append(file, s) = 1 .. Len(file) + 1
      /\ \A i \in 1 .. Len(file) : Append(file, s)[i] = file[i]
      /\ Append(file, s)[Len(file) + 1] = s
  BY <1>3
<1>5. s.id \in SectionIds /\ s.fires \in SUBSET AllRules
  BY SectionsAre
<1>6. upload' = [upload EXCEPT ![u] = [upload[u] EXCEPT !.file = Append(file, s),
                                            !.read = more, !.pc = l]]
      /\ UNCHANGED <<results, deployment>>
      /\ upload[u].pc = "parsing" /\ upload[u].size # "small"
  BY <1>1 DEF ParseSection
<1>7. /\ more \in ReadStates
      /\ s.shape \in {"whole", "spills"} => /\ more.errors = read.errors
                                            /\ more.ids = read.ids \cup {s.id}
                                            /\ more.fires = read.fires \cup s.fires
      /\ s.shape \notin {"whole", "spills"} => /\ more.errors = read.errors + 1
                                               /\ more.ids = read.ids
                                               /\ more.fires = read.fires
  <2>1. CASE s.shape \in {"whole", "spills"}
    <3>1. more = [[read EXCEPT !.ids = read.ids \cup {s.id}]
                     EXCEPT !.fires = read.fires \cup s.fires]
      BY <1>3, <2>1 DEF Parsed, ReadStates
    <3> HIDE DEF more
    <3> QED
      BY <1>3, <1>5, <2>1, <3>1 DEF ReadStates
  <2>2. CASE s.shape \notin {"whole", "spills"}
    <3>1. more = [read EXCEPT !.errors = read.errors + 1]
      BY <2>2 DEF Parsed
    <3> HIDE DEF more
    <3> QED
      BY <1>3, <2>2, <3>1 DEF ReadStates
  <2> QED
    BY <2>1, <2>2
<1> HIDE DEF l, more
<1>8. upload' = [upload EXCEPT ![u] = n]
  BY <1>1, <1>6 DEF UploadStates
<1>9. n \in UploadStates /\ n.pc = l /\ n.file = Append(file, s) /\ n.read = more
      /\ n.size = upload[u].size
  BY <1>1, <1>2, <1>4, <1>7 DEF UploadStates
<1> HIDE DEF n
<1>10. ReadIsFile(upload[u])
  BY DEF ScannerInv
<1> HIDE DEF file, read
<1>11. /\ read.errors = 0 => \A i \in DOMAIN file : file[i].shape \in {"whole", "spills"}
       /\ \A id \in read.ids : \E i \in DOMAIN file :
            file[i].id = id /\ file[i].fires \subseteq read.fires
  BY <1>10 DEF ReadIsFile, file, read
<1>12. more.errors = 0 =>
          \A i \in DOMAIN Append(file, s) : Append(file, s)[i].shape \in {"whole", "spills"}
  <2> SUFFICES ASSUME more.errors = 0, NEW i \in DOMAIN Append(file, s)
               PROVE  Append(file, s)[i].shape \in {"whole", "spills"}
    OBVIOUS
  <2>1. read.errors \in Nat
    BY <1>3 DEF ReadStates
  <2>2. s.shape \in {"whole", "spills"} /\ read.errors = 0
    BY <1>7, <2>1
  <2>3. CASE i \in 1 .. Len(file)
    BY <1>4, <1>11, <2>2, <2>3
  <2>4. CASE i = Len(file) + 1
    BY <1>4, <2>2, <2>4
  <2>5. i \in 1 .. Len(file) \/ i = Len(file) + 1
    BY <1>4
  <2> QED
    BY <2>3, <2>4, <2>5
<1>13. \A id \in more.ids : \E i \in DOMAIN Append(file, s) :
          Append(file, s)[i].id = id /\ Append(file, s)[i].fires \subseteq more.fires
  <2> SUFFICES ASSUME NEW id \in more.ids
               PROVE  \E i \in DOMAIN Append(file, s) :
                         Append(file, s)[i].id = id /\ Append(file, s)[i].fires \subseteq more.fires
    OBVIOUS
  <2>1. read.fires \subseteq more.fires
    BY <1>7
  <2>2. CASE id \in read.ids
    <3>1. PICK i \in DOMAIN file : file[i].id = id /\ file[i].fires \subseteq read.fires
      BY <1>11, <2>2
    <3>2. i \in DOMAIN Append(file, s) /\ Append(file, s)[i] = file[i]
      BY <1>4
    <3> QED
      BY <2>1, <3>1, <3>2
  <2>3. CASE id \notin read.ids
    <3>1. s.shape \in {"whole", "spills"} /\ id = s.id /\ s.fires \subseteq more.fires
      BY <1>7, <2>3
    <3>2. Len(file) + 1 \in DOMAIN Append(file, s)
      BY <1>4
    <3> QED
      BY <1>4, <3>1, <3>2
  <2> QED
    BY <2>2, <2>3
<1>14. ReadIsFile(n)
  BY <1>2, <1>6, <1>9, <1>12, <1>13 DEF ReadIsFile
<1>15. ReportIsTrue(n)
  BY <1>2, <1>9 DEF ReportIsTrue
<1> QED
  BY <1>1, <1>6, <1>8, <1>9, <1>14, <1>15, UploadMoves

\* The rules run over what was read: torn sections and missing imports block.
LEMMA FinishStep ==
    ASSUME ScannerInv, NEW u \in Uploads, FinishScan(u)
    PROVE  ScannerInv'
<1>1. upload \in [Uploads -> UploadStates] /\ upload[u] \in UploadStates
      /\ results \in SUBSET Uploads
  BY DEF ScannerInv, ScannerTypes
<1> DEFINE read == upload[u].read
           size == upload[u].size
           findings == RunRules(size, read)
           st == BuildReport(findings, FALSE)
           n == [[upload[u] EXCEPT !.pc = "report"] EXCEPT !.status = st]
<1>2. st \in Status
  BY DEF BuildReport, Status
<1>3. upload' = [upload EXCEPT ![u] = n] /\ UNCHANGED <<results, deployment>>
      /\ upload[u].pc \in {"parsing", "parsed"}
  BY <1>1 DEF FinishScan, UploadStates
<1> HIDE DEF st
<1>4. n \in UploadStates /\ n.pc = "report" /\ n.status = st /\ n.file = upload[u].file
      /\ n.read = read /\ n.size = size
  BY <1>1, <1>2 DEF UploadStates
<1> HIDE DEF n
<1>5. ReadIsFile(upload[u]) /\ read.errors \in Nat
  BY <1>1 DEF ScannerInv, UploadStates, ReadStates
<1>6. ReadIsFile(n)
  BY <1>3, <1>4, <1>5 DEF ReadIsFile
<1>7. ASSUME ~DeploymentBlocked(st) PROVE WasRead(n)
  <2>1. findings \cap Severe = {}
    BY <1>7, PassesHarmless DEF st
  <2>2. CASE size = "small"
    BY <1>4, <1>5, <2>2 DEF ReadIsFile, WasRead
  <2>3. CASE size # "small"
    <3>1. findings = SizeFindings(size) \cup
             ((IF read.errors > 0 THEN {"SM-003"} ELSE {}) \cup Missing(read.ids) \cup read.fires)
      BY <2>3 DEF RunRules
    <3>2. "SM-003" \in Severe /\ "SM-004" \in Severe
      BY DEF Severe, SevereUpTo10
    <3>3. read.errors = 0
      <4>1. ~(read.errors > 0)
        BY <2>1, <3>1, <3>2
      <4> QED
        BY <1>5, <4>1
    <3>4. "import" \in read.ids /\ "SM-004" \notin read.fires
      BY <2>1, <3>1, <3>2 DEF Missing
    <3>5. PICK i \in DOMAIN upload[u].file :
             upload[u].file[i].id = "import" /\ upload[u].file[i].fires \subseteq read.fires
      BY <1>5, <3>4 DEF ReadIsFile
    <3> QED
      BY <1>4, <1>5, <3>3, <3>4, <3>5 DEF ReadIsFile, WasRead
  <2> QED
    BY <2>2, <2>3
<1>8. ReportIsTrue(n)
  BY <1>4, <1>7 DEF ReportIsTrue
<1> QED
  BY <1>1, <1>3, <1>4, <1>6, <1>8, UploadMoves

\* A stored report says what was read.
LEMMA StoreStep ==
    ASSUME ScannerInv, NEW u \in Uploads, StoreReport(u)
    PROVE  ScannerInv'
<1>1. upload \in [Uploads -> UploadStates] /\ upload[u] \in UploadStates
      /\ results \in SUBSET Uploads
  BY DEF ScannerInv, ScannerTypes
<1> DEFINE n == [upload[u] EXCEPT !.pc = "done"]
<1>2. upload' = [upload EXCEPT ![u] = n] /\ UNCHANGED deployment
      /\ upload[u].pc = "report" /\ (results' = results \cup {u} \/ results' = results)
  BY <1>1 DEF StoreReport, UploadStates
<1>3. n \in UploadStates /\ n.pc = "done" /\ n.status = upload[u].status
      /\ n.file = upload[u].file /\ n.read = upload[u].read /\ n.size = upload[u].size
  BY <1>1 DEF UploadStates
<1> HIDE DEF n
<1>4. ReadIsFile(upload[u]) /\ ReportIsTrue(upload[u])
  BY DEF ScannerInv
<1>5. ReadIsFile(n)
  BY <1>2, <1>3, <1>4 DEF ReadIsFile
<1>6. ReportIsTrue(n)
  BY <1>2, <1>3, <1>4 DEF ReportIsTrue, WasRead
<1>7. results' \in SUBSET Uploads /\ \A x \in results' : x \in results \/ (x = u /\ n.pc = "done")
  BY <1>1, <1>2, <1>3
<1> QED
  BY <1>2, <1>3, <1>5, <1>6, <1>7, UploadMoves

\* The gate and the handler behind it; a deleted scan was done.
LEMMA GateStep ==
    ASSUME ScannerInv, NEW d \in Deployments,
           \/ \E who \in ScanUsers, u \in Uploads : SecurityScanGate(d, who, u)
           \/ RegisterToken(d)
    PROVE  ScannerInv'
<1>1. deployment \in [Deployments -> DeploymentStates] /\ deployment[d] \in DeploymentStates
      /\ ScannerTypes
  BY DEF ScannerInv, ScannerTypes
<1>2. ASSUME NEW n \in DeploymentStates, deployment' = [deployment EXCEPT ![d] = n],
             UNCHANGED <<upload, results>>, n.pc \in {"passed", "registered"} => GatePassed(n)
      PROVE  ScannerInv'
  <2>1. /\ deployment' \in [Deployments -> DeploymentStates] /\ deployment'[d] = n
        /\ \A e \in Deployments \ {d} : deployment'[e] = deployment[e]
    BY <1>1, <1>2
  <2>2. \A e \in Deployments : deployment'[e].pc \in {"passed", "registered"} =>
            GatePassed(deployment'[e])
    BY <1>2, <2>1 DEF ScannerInv
  <2>3. \A e \in Deployments : GatePassed(deployment'[e]) => GatePassed(deployment[e])'
    BY <1>2 DEF GatePassed, WasRead
  <2>4. ScannerTypes'
    BY <1>1, <1>2, <2>1 DEF ScannerTypes
  <2> QED
    BY <1>2, <2>2, <2>3, <2>4 DEF ScannerInv, ReadIsFile, ReportIsTrue, WasRead
<1>3. CASE RegisterToken(d)
  <2> DEFINE n == [deployment[d] EXCEPT !.pc = "registered"]
  <2>1. n \in DeploymentStates /\ n.user = deployment[d].user /\ n.scan = deployment[d].scan
    BY <1>1 DEF DeploymentStates
  <2>2. deployment' = [deployment EXCEPT ![d] = n] /\ UNCHANGED <<upload, results>>
        /\ deployment[d].pc = "passed"
    BY <1>1, <1>3 DEF RegisterToken, DeploymentStates
  <2> HIDE DEF n
  <2>3. GatePassed(deployment[d])
    BY <2>2 DEF ScannerInv
  <2>4. GatePassed(n)
    BY <2>1, <2>3 DEF GatePassed
  <2> QED
    BY <1>2, <2>1, <2>2, <2>4
<1>4. CASE \E who \in ScanUsers, u \in Uploads : SecurityScanGate(d, who, u)
  <2>1. PICK who \in ScanUsers, u \in Uploads : SecurityScanGate(d, who, u)
    BY <1>4
  <2> DEFINE ok == u \in results /\ upload[u].user = {who}
                   /\ ~DeploymentBlocked(upload[u].status)
             l == IF ok THEN "passed" ELSE "refused"
             n == [user |-> {who}, scan |-> {u}, pc |-> l]
  <2>2. deployment' = [deployment EXCEPT ![d] = n] /\ UNCHANGED <<upload, results>>
    BY <2>1 DEF SecurityScanGate
  <2>3. l \in {"passed", "refused"} /\ (l = "passed" => ok)
    OBVIOUS
  <2> HIDE DEF l
  <2>4. n \in DeploymentStates /\ n.pc = l /\ n.user = {who} /\ n.scan = {u}
    BY <2>3 DEF DeploymentStates
  <2> HIDE DEF n
  <2>5. n.pc \in {"passed", "registered"} => GatePassed(n)
    <3> SUFFICES ASSUME ok PROVE GatePassed(n)
      BY <2>3, <2>4
    <3>1. upload[u].pc = "done" /\ WasRead(upload[u])
      BY DEF ScannerInv, ReportIsTrue
    <3> QED
      BY <2>4, <3>1 DEF GatePassed
  <2> QED
    BY <1>2, <2>2, <2>4, <2>5
<1> QED
  BY <1>3, <1>4

\* Every step of the scans and the deployments.
LEMMA ScannerStep == ScannerInv /\ [ScannerNext]_scannerVars => ScannerInv'
<1> SUFFICES ASSUME ScannerInv, [ScannerNext]_scannerVars PROVE ScannerInv'
  OBVIOUS
<1>1. CASE UNCHANGED <<upload, deployment>> /\ results' \in SUBSET results
  BY <1>1 DEF ScannerInv, ScannerTypes, ReadIsFile, ReportIsTrue, WasRead, GatePassed
<1>2. CASE \E u \in Uploads :
        \/ \E who \in ScanUsers, h \in Headers, size \in Reaching :
            ScanWasm(u, who, h, size)
        \/ \E s \in Section : ParseSection(u, s)
        \/ FinishScan(u) \/ StoreReport(u)
  BY <1>2, ScanStep, ParseStep, FinishStep, StoreStep
<1>3. CASE \E u \in Uploads : DeleteScan(u)
  BY <1>1, <1>3 DEF DeleteScan
<1>4. CASE \E d \in Deployments :
        \/ \E who \in ScanUsers, u \in Uploads : SecurityScanGate(d, who, u)
        \/ RegisterToken(d)
  BY <1>4, GateStep
<1>5. CASE UNCHANGED scannerVars
  BY <1>1, <1>5 DEF scannerVars
<1> QED
  BY <1>2, <1>3, <1>4, <1>5 DEF ScannerNext

\* A token is registered behind the gate only on a scan of its own user whose
\* file was read to its end and imports from the host, for any number of scans,
\* deployments and sections.
THEOREM RegisteredAlwaysWasRead == ScannerSpec => []RegisteredWasRead
<1>1. ScannerInit => ScannerInv
  <2> SUFFICES ASSUME ScannerInit PROVE ScannerInv
    OBVIOUS
  <2> DEFINE x == [pc |-> "idle", user |-> {}, size |-> "usual",
                   file |-> <<>>, read |-> NothingRead, status |-> "clean"]
  <2>1. /\ upload = [u \in Uploads |-> x] /\ results = {}
        /\ deployment = [d \in Deployments |-> [pc |-> "idle", user |-> {}, scan |-> {}]]
    BY DEF ScannerInit
  <2>2. NothingRead \in ReadStates
    BY DEF NothingRead, ReadStates
  <2>3. x \in UploadStates
    BY <2>2 DEF UploadStates, Reaching, Status
  <2>4. ReadIsFile(x) /\ ReportIsTrue(x)
    BY DEF ReadIsFile, ReportIsTrue, NothingRead
  <2> HIDE DEF x
  <2>5. ScannerTypes
    BY <2>1, <2>3 DEF ScannerTypes, DeploymentStates
  <2> QED
    BY <2>1, <2>4, <2>5 DEF ScannerInv
<1>2. ScannerInv => RegisteredWasRead
  <2> SUFFICES ASSUME ScannerInv, NEW d \in Deployments, deployment[d].pc = "registered"
               PROVE  \E u \in deployment[d].scan :
                        /\ upload[u].user = deployment[d].user /\ WasRead(upload[u])
    BY DEF RegisteredWasRead, WasRead
  <2> QED
    BY DEF ScannerInv, GatePassed
<1> QED
  BY <1>1, <1>2, ScannerStep, PTL DEF ScannerSpec

-----------------------------------------------------------------------------
(* Billing and deployment counts.                                            *)

BillingSpec == BillingInit /\ [][BillingNext]_billingVars

CountOf(S) == IF S = {} THEN 0 ELSE Only(S).count

\* Who is through with a month's count, and who was certainly counted in it.
Finished(m) == {d \in Deploys : deploy[d].month = m /\ deploy[d].pc \in {"counted", "done"}}
Settled(m) == Finished(m) \ uncounted

BillingTypes ==
    /\ user \in [tier : SUBSET TierNames, total : Nat]
    /\ billing \in SUBSET BillingRecord
    /\ usage \in [1 .. Months -> SUBSET UsageRecord]
    /\ \A m \in 1 .. Months : \A r, s \in usage[m] : r = s
    /\ month \in 1 .. Months
    /\ deploy \in [Deploys -> DeployState]
    /\ edit \in [Edits -> EditState]

DeployIsTyped(x) ==
    /\ \A r, s \in x.seen : r = s
    /\ x.pc \in {"idle", "checked", "made"} => x.month = 0
    /\ x.pc \in {"loaded", "found", "counted"} => x.month \in 1 .. Months

\* A count that was read or is stored misses nobody certainly counted and
\* counts nobody twice; a count read by two is certain for neither.
CountsAreFresh ==
    /\ \A d \in Deploys : DeployIsTyped(deploy[d])
    /\ \A m \in 1 .. Months :
          /\ Cardinality(Settled(m)) <= CountOf(usage[m])
          /\ CountOf(usage[m]) <= Cardinality(Finished(m))
    /\ \A d \in Deploys, m \in 1 .. Months :
          deploy[d].pc = "found" /\ deploy[d].month = m =>
             /\ Cardinality(Settled(m)) <= CountOf(deploy[d].seen)
             /\ CountOf(deploy[d].seen) <= Cardinality(Finished(m))
    /\ \A d, e \in Deploys :
          /\ deploy[d].pc = "found" /\ deploy[e].pc = "found"
          /\ deploy[d].month = deploy[e].month /\ d # e
          => d \in uncounted

\* What the only edit under way has done so far, while none failed half way.
EditIsTyped(x) ==
    /\ x.pc = "user" => x.call \in {"upgrade", "deleted"}
    /\ x.pc = "billing" => x.call = "customer"
    /\ x.call # "upgrade" => x.tier = "free"
    /\ x.pc # "idle" /\ x.call # "customer" => x.seen # {}

TiersAgree == \A b \in billing : user.tier = {b.tier}
BooksAgree == TiersAgree /\ customers = Cardinality(billing)

EditAgrees(x) ==
    /\ x.pc = "read" => BooksAgree /\ (x.call = "customer" => billing = {})
    /\ x.pc = "called" => IF x.call = "customer" THEN billing = {} /\ customers = 1
                                                ELSE BooksAgree
    /\ x.pc = "user" => user.tier = {x.tier} /\ customers = Cardinality(billing)
    /\ x.pc = "billing" =>
          customers = Cardinality(billing) /\ \A b \in billing : b.tier = x.tier

EditsAgree ==
    /\ \A b, c \in billing : b = c
    /\ \A e \in Edits : EditIsTyped(edit[e])
    /\ \A e \in Busy : edit[e].call # "customer" => billing # {}
    /\ ~mixed =>
        /\ \A e, f \in Busy : e = f
        /\ \A e \in Busy : EditAgrees(edit[e])
        /\ Busy = {} => BooksAgree

BillingInv == BillingTypes /\ CountsAreFresh /\ EditsAgree

\* The deployments of a month are finitely many.
LEMMA FinishedIsFinite ==
    ASSUME NEW m
    PROVE  /\ IsFiniteSet(Finished(m)) /\ Cardinality(Finished(m)) \in Nat
           /\ IsFiniteSet(Settled(m)) /\ Cardinality(Settled(m)) \in Nat
<1>1. Finished(m) \in SUBSET Deploys /\ Settled(m) \in SUBSET Deploys
  BY DEF Finished, Settled
<1> QED
  BY <1>1, BillingAssumption, FS_Subset, FS_CardinalityType

\* The only member of a set is one of its members.
LEMMA OnlyIs ==
    ASSUME NEW S, S # {}
    PROVE  Only(S) \in S
  BY DEF Only

\* The count of a month is a natural number.
LEMMA CountIsNat ==
    ASSUME NEW S \in SUBSET UsageRecord
    PROVE  CountOf(S) \in Nat
<1>1. CASE S = {}
  BY <1>1 DEF CountOf
<1>2. CASE S # {}
  <2>1. Only(S) \in UsageRecord
    BY <1>2, OnlyIs
  <2> QED
    BY <1>2, <2>1 DEF CountOf, UsageRecord
<1> QED
  BY <1>1, <1>2

\* Steps of the deployments leave the two copies of the tier alone.
LEMMA AgreesWithDeploys ==
    ASSUME EditsAgree, UNCHANGED <<billing, customers, edit, mixed>>, user'.tier = user.tier
    PROVE  EditsAgree'
<1>1. Busy' = Busy
  BY DEF Busy
<1>2. BooksAgree' <=> BooksAgree
  BY DEF BooksAgree, TiersAgree
<1>3. \A e \in Busy : EditAgrees(edit[e])' <=> EditAgrees(edit[e])
  BY <1>2 DEF EditAgrees
<1> QED
  BY <1>1, <1>2, <1>3 DEF EditsAgree, EditIsTyped

\* Steps of the edits leave the counts alone.
LEMMA CountsWithEdits ==
    ASSUME CountsAreFresh, UNCHANGED <<usage, deploy, uncounted>>
    PROVE  CountsAreFresh'
<1>1. \A m : Finished(m)' = Finished(m) /\ Settled(m)' = Settled(m)
  BY DEF Finished, Settled
<1> QED
  BY <1>1 DEF CountsAreFresh, DeployIsTyped, CountOf, Only

\* A deployment that moves on without reading or writing a count: nobody more
\* is certainly counted.
LEMMA DeployMoves ==
    ASSUME BillingInv, NEW d \in Deploys, NEW n \in DeployState, DeployIsTyped(n),
           deploy' = [deploy EXCEPT ![d] = n], n.pc # "found",
           uncounted \subseteq uncounted',
           \A m \in 1 .. Months : d \in Finished(m) =>
              n.month = m /\ n.pc \in {"counted", "done"},
           \A m \in 1 .. Months : n.month = m /\ n.pc \in {"counted", "done"} =>
              d \in uncounted' \/ d \in Settled(m),
           UNCHANGED <<billing, usage, customers, edit, mixed>>,
           user' \in [tier : SUBSET TierNames, total : Nat], user'.tier = user.tier,
           month' \in 1 .. Months
    PROVE  BillingInv'
<1>1. BillingTypes /\ CountsAreFresh /\ EditsAgree
  BY DEF BillingInv
<1>2. /\ deploy \in [Deploys -> DeployState] /\ usage \in [1 .. Months -> SUBSET UsageRecord]
  BY <1>1 DEF BillingTypes
<1>3. /\ deploy' \in [Deploys -> DeployState] /\ deploy'[d] = n
      /\ \A e \in Deploys \ {d} : deploy'[e] = deploy[e]
  BY <1>2
<1>4. BillingTypes'
  BY <1>1, <1>3 DEF BillingTypes
<1>5. EditsAgree'
  BY <1>1, AgreesWithDeploys
<1>6. ASSUME NEW m \in 1 .. Months
      PROVE  /\ Cardinality(Settled(m)') <= Cardinality(Settled(m))
             /\ Cardinality(Finished(m)) <= Cardinality(Finished(m)')
             /\ Cardinality(Settled(m)') \in Nat /\ Cardinality(Finished(m)') \in Nat
             /\ Cardinality(Settled(m)) \in Nat /\ Cardinality(Finished(m)) \in Nat
  <2>1. Finished(m) \in SUBSET Finished(m)'
    BY <1>3 DEF Finished
  <2>2. Settled(m)' \in SUBSET Settled(m)
    <3> SUFFICES ASSUME NEW e \in Settled(m)' PROVE e \in Settled(m)
      OBVIOUS
    <3>1. e \in Deploys /\ e \notin uncounted' /\ deploy'[e].month = m
          /\ deploy'[e].pc \in {"counted", "done"}
      BY DEF Settled, Finished
    <3>2. CASE e = d
      BY <1>3, <3>1, <3>2
    <3>3. CASE e # d
      BY <1>3, <3>1, <3>3 DEF Settled, Finished
    <3> QED
      BY <3>2, <3>3
  <2>3. /\ Finished(m)' \in SUBSET Deploys /\ Settled(m)' \in SUBSET Deploys
    BY DEF Finished, Settled
  <2>4. IsFiniteSet(Finished(m)') /\ IsFiniteSet(Settled(m)')
    BY <2>3, BillingAssumption, FS_Subset
  <2>5. Cardinality(Finished(m)') \in Nat /\ Cardinality(Settled(m)') \in Nat
    BY <2>4, FS_CardinalityType
  <2>6. IsFiniteSet(Settled(m)) /\ Cardinality(Settled(m)) \in Nat
        /\ Cardinality(Finished(m)) \in Nat
    BY FinishedIsFinite
  <2>7. Cardinality(Finished(m)) <= Cardinality(Finished(m)')
    BY <2>1, <2>4, FS_Subset
  <2>8. Cardinality(Settled(m)') <= Cardinality(Settled(m))
    BY <2>2, <2>6, FS_Subset
  <2> QED
    BY <2>5, <2>6, <2>7, <2>8
<1>7. \A m \in 1 .. Months : /\ Cardinality(Settled(m)') <= CountOf(usage[m])
                             /\ CountOf(usage[m]) <= Cardinality(Finished(m)')
  <2> SUFFICES ASSUME NEW m \in 1 .. Months
               PROVE  /\ Cardinality(Settled(m)') <= CountOf(usage[m])
                      /\ CountOf(usage[m]) <= Cardinality(Finished(m)')
    OBVIOUS
  <2>1. /\ Cardinality(Settled(m)) <= CountOf(usage[m])
        /\ CountOf(usage[m]) <= Cardinality(Finished(m))
    BY <1>1 DEF CountsAreFresh
  <2>2. CountOf(usage[m]) \in Nat
    BY <1>2, CountIsNat
  <2> QED
    BY <1>6, <2>1, <2>2
<1>8. \A e \in Deploys, m \in 1 .. Months : deploy'[e].pc = "found" /\ deploy'[e].month = m =>
         /\ Cardinality(Settled(m)') <= CountOf(deploy'[e].seen)
         /\ CountOf(deploy'[e].seen) <= Cardinality(Finished(m)')
  <2> SUFFICES ASSUME NEW e \in Deploys, NEW m \in 1 .. Months,
                      deploy'[e].pc = "found", deploy'[e].month = m
               PROVE  /\ Cardinality(Settled(m)') <= CountOf(deploy'[e].seen)
                      /\ CountOf(deploy'[e].seen) <= Cardinality(Finished(m)')
    OBVIOUS
  <2>1. e # d /\ deploy'[e] = deploy[e]
    BY <1>3
  <2>2. deploy[e].pc = "found" /\ deploy[e].month = m
    BY <2>1
  <2> DEFINE s == deploy[e].seen
  <2>3. Cardinality(Settled(m)) <= CountOf(s) /\ CountOf(s) <= Cardinality(Finished(m))
    BY <1>1, <2>2 DEF CountsAreFresh
  <2>4. s \in SUBSET UsageRecord
    BY <1>2 DEF DeployState
  <2>5. CountOf(s) \in Nat
    BY <2>4, CountIsNat
  <2>6. deploy'[e].seen = s
    BY <2>1
  <2> HIDE DEF s
  <2>7. /\ Cardinality(Settled(m)') <= Cardinality(Settled(m))
        /\ Cardinality(Finished(m)) <= Cardinality(Finished(m)')
        /\ Cardinality(Settled(m)') \in Nat /\ Cardinality(Finished(m)') \in Nat
        /\ Cardinality(Settled(m)) \in Nat /\ Cardinality(Finished(m)) \in Nat
    BY <1>6
  <2>8. Cardinality(Settled(m)') <= CountOf(s) /\ CountOf(s) <= Cardinality(Finished(m)')
    BY ONLY <2>3, <2>5, <2>7
  <2> QED
    BY <2>6, <2>8
<1>9. \A e \in Deploys : DeployIsTyped(deploy'[e])
  BY <1>1, <1>3 DEF CountsAreFresh
<1>10. \A e, f \in Deploys : deploy'[e].pc = "found" /\ deploy'[f].pc = "found"
          /\ deploy'[e].month = deploy'[f].month /\ e # f => e \in uncounted'
  BY <1>1, <1>3 DEF CountsAreFresh
<1>11. CountsAreFresh'
  BY <1>7, <1>8, <1>9, <1>10 DEF CountsAreFresh, DeployIsTyped, CountOf, Only
<1> QED
  BY <1>4, <1>5, <1>11 DEF BillingInv

\* The limit is checked on the count of that moment.
LEMMA CheckKeepsBilling ==
    ASSUME BillingInv, NEW d \in Deploys, CheckDeploymentLimit(d)
    PROVE  BillingInv'
<1>1. BillingTypes /\ DeployIsTyped(deploy[d])
  BY DEF BillingInv, CountsAreFresh
<1>2. deploy[d] \in DeployState /\ deploy[d].pc = "idle" /\ deploy[d].month = 0
  BY <1>1 DEF BillingTypes, DeployIsTyped, CheckDeploymentLimit
<1> DEFINE n == [deploy[d] EXCEPT !.pc = IF CanDeploy THEN "checked" ELSE "done"]
<1>3. n \in DeployState /\ n.pc \in {"checked", "done"} /\ n.month = 0 /\ n.seen = deploy[d].seen
  BY <1>2 DEF DeployState
<1>4. deploy' = [deploy EXCEPT ![d] = n]
  BY DEF CheckDeploymentLimit
<1>5. /\ UNCHANGED <<user, billing, usage, month, customers, edit, uncounted, mixed>>
  BY DEF CheckDeploymentLimit
<1> HIDE DEF n
<1>6. DeployIsTyped(n)
  BY <1>1, <1>3 DEF DeployIsTyped
<1>7. \A m \in 1 .. Months : d \notin Finished(m)
  BY <1>2 DEF Finished
<1>8. \A m \in 1 .. Months : n.month # m
  BY <1>3
<1>9. /\ user' \in [tier : SUBSET TierNames, total : Nat] /\ user'.tier = user.tier
      /\ month' \in 1 .. Months
  BY <1>1, <1>5 DEF BillingTypes
<1> QED
  BY <1>3, <1>4, <1>5, <1>6, <1>7, <1>8, <1>9, DeployMoves

\* A deployment that succeeded is to be counted.
LEMMA TrackKeepsBilling ==
    ASSUME BillingInv, NEW d \in Deploys, TrackDeployment(d)
    PROVE  BillingInv'
<1>1. BillingTypes /\ DeployIsTyped(deploy[d])
  BY DEF BillingInv, CountsAreFresh
<1>2. deploy[d] \in DeployState /\ deploy[d].pc = "checked" /\ deploy[d].month = 0
  BY <1>1 DEF BillingTypes, DeployIsTyped, TrackDeployment
<1>3. PICK p \in {"made", "done"} : deploy' = [deploy EXCEPT ![d] = [deploy[d] EXCEPT !.pc = p]]
  BY DEF TrackDeployment
<1> DEFINE n == [deploy[d] EXCEPT !.pc = p]
<1>4. n \in DeployState /\ n.pc = p /\ n.month = 0 /\ n.seen = deploy[d].seen
  BY <1>2 DEF DeployState
<1>5. deploy' = [deploy EXCEPT ![d] = n]
  BY <1>3
<1>6. /\ UNCHANGED <<user, billing, usage, month, customers, edit, uncounted, mixed>>
  BY DEF TrackDeployment
<1> HIDE DEF n
<1>7. DeployIsTyped(n)
  BY <1>1, <1>4 DEF DeployIsTyped
<1>8. \A m \in 1 .. Months : d \notin Finished(m)
  BY <1>2 DEF Finished
<1>9. \A m \in 1 .. Months : n.month # m
  BY <1>4
<1>10. /\ user' \in [tier : SUBSET TierNames, total : Nat] /\ user'.tier = user.tier
       /\ month' \in 1 .. Months
  BY <1>1, <1>6 DEF BillingTypes
<1> QED
  BY <1>4, <1>5, <1>6, <1>7, <1>8, <1>9, <1>10, DeployMoves

\* The count begins with the user of that moment.
LEMMA LoadKeepsBilling ==
    ASSUME BillingInv, NEW d \in Deploys, LoadUser(d)
    PROVE  BillingInv'
<1>1. BillingTypes /\ DeployIsTyped(deploy[d])
  BY DEF BillingInv, CountsAreFresh
<1>2. deploy[d] \in DeployState /\ deploy[d].pc = "made"
  BY <1>1 DEF BillingTypes, LoadUser
<1>3. Only(user.tier) \in TierNames /\ user.total \in Nat /\ month \in 1 .. Months
  BY <1>1, OnlyIs DEF BillingTypes, LoadUser
<1> DEFINE n == [[[[deploy[d] EXCEPT !.pc = "loaded"] EXCEPT !.month = month]
                     EXCEPT !.tier = Only(user.tier)] EXCEPT !.total = user.total]
<1>4. n \in DeployState /\ n.pc = "loaded" /\ n.month = month /\ n.seen = deploy[d].seen
  <2>1. month \in 0 .. Months
    BY <1>3, BillingAssumption
  <2> QED
    BY <1>2, <1>3, <2>1 DEF DeployState
<1>5. deploy' = [deploy EXCEPT ![d] = n]
  BY <1>1 DEF LoadUser, BillingTypes
<1>6. /\ UNCHANGED <<user, billing, usage, month, customers, edit, uncounted, mixed>>
  BY DEF LoadUser
<1> HIDE DEF n
<1>7. DeployIsTyped(n)
  BY <1>1, <1>3, <1>4 DEF DeployIsTyped
<1>8. \A m \in 1 .. Months : d \notin Finished(m)
  BY <1>2 DEF Finished
<1>9. /\ user' \in [tier : SUBSET TierNames, total : Nat] /\ user'.tier = user.tier
      /\ month' \in 1 .. Months
  BY <1>1, <1>6 DEF BillingTypes
<1> QED
  BY <1>4, <1>5, <1>6, <1>7, <1>8, <1>9, DeployMoves

\* The total of the user is saved beside the month's.
LEMMA TotalKeepsBilling ==
    ASSUME BillingInv, NEW d \in Deploys, SaveTotal(d)
    PROVE  BillingInv'
<1>1. BillingTypes /\ DeployIsTyped(deploy[d])
  BY DEF BillingInv, CountsAreFresh
<1>2. deploy[d] \in DeployState /\ deploy[d].pc = "counted"
  BY <1>1 DEF BillingTypes, SaveTotal
<1> DEFINE n == [deploy[d] EXCEPT !.pc = "done"]
<1>3. n \in DeployState /\ n.pc = "done" /\ n.month = deploy[d].month /\ n.seen = deploy[d].seen
  BY <1>2 DEF DeployState
<1>4. deploy' = [deploy EXCEPT ![d] = n]
  BY DEF SaveTotal
<1>5. /\ UNCHANGED <<billing, usage, month, customers, edit, uncounted, mixed>>
      /\ user' = [user EXCEPT !.total = deploy[d].total + 1]
  BY DEF SaveTotal
<1> HIDE DEF n
<1>6. DeployIsTyped(n)
  BY <1>1, <1>3 DEF DeployIsTyped
<1>7. \A m \in 1 .. Months : d \in Finished(m) => n.month = m
  BY <1>3 DEF Finished
<1>8. \A m \in 1 .. Months : n.month = m => d \in uncounted' \/ d \in Settled(m)
  BY <1>2, <1>3, <1>5 DEF Finished, Settled
<1>9. deploy[d].total + 1 \in Nat
  BY <1>2 DEF DeployState
<1>10. /\ user' \in [tier : SUBSET TierNames, total : Nat] /\ user'.tier = user.tier
       /\ month' \in 1 .. Months
  BY <1>1, <1>5, <1>9 DEF BillingTypes
<1> QED
  BY <1>3, <1>4, <1>5, <1>6, <1>7, <1>8, <1>10, DeployMoves

\* A count that fails is over.
LEMMA FailKeepsBilling ==
    ASSUME BillingInv, NEW d \in Deploys, CountFails(d)
    PROVE  BillingInv'
<1>1. BillingTypes /\ DeployIsTyped(deploy[d])
  BY DEF BillingInv, CountsAreFresh
<1>2. deploy[d] \in DeployState /\ deploy[d].pc \in {"made", "loaded", "found", "counted"}
  BY <1>1 DEF BillingTypes, CountFails
<1> DEFINE n == [deploy[d] EXCEPT !.pc = "done"]
<1>3. n \in DeployState /\ n.pc = "done" /\ n.month = deploy[d].month /\ n.seen = deploy[d].seen
  BY <1>2 DEF DeployState
<1>4. deploy' = [deploy EXCEPT ![d] = n]
  BY DEF CountFails
<1>5. /\ UNCHANGED <<user, billing, usage, month, customers, edit, mixed>>
      /\ uncounted \subseteq uncounted'
      /\ deploy[d].pc # "counted" => d \in uncounted'
  BY DEF CountFails
<1> HIDE DEF n
<1>6. DeployIsTyped(n)
  BY <1>1, <1>3 DEF DeployIsTyped
<1>7. \A m \in 1 .. Months : d \in Finished(m) => n.month = m
  BY <1>3 DEF Finished
<1>8. \A m \in 1 .. Months : n.month = m => d \in uncounted' \/ d \in Settled(m)
  BY <1>2, <1>3, <1>5 DEF Finished, Settled
<1>9. /\ user' \in [tier : SUBSET TierNames, total : Nat] /\ user'.tier = user.tier
      /\ month' \in 1 .. Months
  BY <1>1, <1>5 DEF BillingTypes
<1> QED
  BY <1>3, <1>4, <1>5, <1>6, <1>7, <1>8, <1>9, DeployMoves

\* The month's usage is found or missed.
LEMMA FindKeepsBilling ==
    ASSUME BillingInv, NEW d \in Deploys, FindUsage(d)
    PROVE  BillingInv'
<1>1. BillingTypes /\ CountsAreFresh /\ EditsAgree /\ DeployIsTyped(deploy[d])
  BY DEF BillingInv, CountsAreFresh
<1>2. /\ deploy[d] \in DeployState /\ deploy[d].pc = "loaded" /\ deploy[d].month \in 1 .. Months
      /\ usage \in [1 .. Months -> SUBSET UsageRecord] /\ deploy \in [Deploys -> DeployState]
  BY <1>1 DEF BillingTypes, FindUsage, DeployIsTyped
<1>3. PICK k \in 1 .. Months : k = deploy[d].month
  BY <1>2
<1> DEFINE n == [[deploy[d] EXCEPT !.pc = "found"] EXCEPT !.seen = usage[k]]
<1>4. n \in DeployState /\ n.pc = "found" /\ n.month = k /\ n.seen = usage[k]
  <2>1. usage[k] \in SUBSET UsageRecord
    BY <1>2
  <2> QED
    BY <1>2, <1>3, <2>1 DEF DeployState
<1>5. deploy' = [deploy EXCEPT ![d] = n]
  BY <1>2, <1>3 DEF FindUsage
<1>6. /\ UNCHANGED <<user, billing, usage, month, customers, edit, mixed>>
      /\ uncounted' = uncounted \cup (IF Counting(k) = {} THEN {} ELSE Counting(k) \cup {d})
  BY <1>3 DEF FindUsage
<1> HIDE DEF n
<1>7. /\ deploy' \in [Deploys -> DeployState] /\ deploy'[d] = n
      /\ \A e \in Deploys \ {d} : deploy'[e] = deploy[e]
  BY <1>2, <1>4, <1>5
<1>8. BillingTypes'
  BY <1>1, <1>6, <1>7 DEF BillingTypes
<1>9. EditsAgree'
  BY <1>1, <1>6, AgreesWithDeploys
<1>10. \A m \in 1 .. Months : Finished(m)' = Finished(m) /\ Settled(m)' = Settled(m)
  <2> SUFFICES ASSUME NEW m \in 1 .. Months
               PROVE  Finished(m)' = Finished(m) /\ Settled(m)' = Settled(m)
    OBVIOUS
  <2>1. Finished(m)' = Finished(m)
    BY <1>2, <1>4, <1>7 DEF Finished
  <2>2. \A e \in Finished(m) : e \in uncounted' <=> e \in uncounted
    BY <1>2, <1>6 DEF Finished, Counting
  <2> QED
    BY <2>1, <2>2 DEF Settled
<1>11. \A e \in Deploys : DeployIsTyped(deploy'[e])
  <2>1. DeployIsTyped(n)
    BY <1>1, <1>4 DEF DeployIsTyped, BillingTypes
  <2> QED
    BY <1>1, <1>7, <2>1 DEF CountsAreFresh
<1>12. \A e \in Deploys, m \in 1 .. Months : deploy'[e].pc = "found" /\ deploy'[e].month = m =>
          /\ Cardinality(Settled(m)) <= CountOf(deploy'[e].seen)
          /\ CountOf(deploy'[e].seen) <= Cardinality(Finished(m))
  <2>1. /\ Cardinality(Settled(k)) <= CountOf(usage[k])
        /\ CountOf(usage[k]) <= Cardinality(Finished(k))
    BY <1>1 DEF CountsAreFresh
  <2>2. \A e \in Deploys, m \in 1 .. Months : deploy[e].pc = "found" /\ deploy[e].month = m =>
          /\ Cardinality(Settled(m)) <= CountOf(deploy[e].seen)
          /\ CountOf(deploy[e].seen) <= Cardinality(Finished(m))
    BY <1>1 DEF CountsAreFresh
  <2> QED
    BY <1>4, <1>7, <2>1, <2>2
<1>13. \A e, f \in Deploys : deploy'[e].pc = "found" /\ deploy'[f].pc = "found"
          /\ deploy'[e].month = deploy'[f].month /\ e # f => e \in uncounted'
  <2> SUFFICES ASSUME NEW e \in Deploys, NEW f \in Deploys, deploy'[e].pc = "found",
                      deploy'[f].pc = "found", deploy'[e].month = deploy'[f].month, e # f
               PROVE  e \in uncounted'
    OBVIOUS
  <2>1. CASE e = d
    <3>1. f \in Counting(k)
      BY <1>4, <1>7, <2>1 DEF Counting
    <3> QED
      BY <1>6, <2>1, <3>1
  <2>2. CASE f = d
    <3>1. e \in Counting(k)
      BY <1>4, <1>7, <2>2 DEF Counting
    <3> QED
      BY <1>6, <3>1
  <2>3. CASE e # d /\ f # d
    <3>1. e \in uncounted
      BY <1>1, <1>7, <2>3 DEF CountsAreFresh
    <3> QED
      BY <1>6, <3>1
  <2> QED
    BY <2>1, <2>2, <2>3
<1>14. \A m \in 1 .. Months : /\ Cardinality(Settled(m)) <= CountOf(usage[m])
                              /\ CountOf(usage[m]) <= Cardinality(Finished(m))
  BY <1>1 DEF CountsAreFresh
<1>15. CountsAreFresh'
  BY <1>6, <1>10, <1>11, <1>12, <1>13, <1>14 DEF CountsAreFresh, DeployIsTyped, CountOf, Only
<1> QED
  BY <1>8, <1>9, <1>15 DEF BillingInv

\* A save stores one more than what was found.
LEMMA SavedCount ==
    ASSUME NEW s \in SUBSET UsageRecord, NEW max \in Nat, NEW old, NEW new,
           old = IF s = {} THEN [count |-> 0, max |-> max, warned |-> 0] ELSE Only(s),
           new = Warned(Counted(old), max)
    PROVE  new \in UsageRecord /\ new.count = CountOf(s) + 1
<1>1. old \in UsageRecord /\ old.count = CountOf(s)
  <2>1. CASE s = {}
    BY <2>1 DEF UsageRecord, CountOf
  <2>2. CASE s # {}
    <3>1. Only(s) \in UsageRecord
      BY <2>2, OnlyIs
    <3> QED
      BY <2>2, <3>1 DEF CountOf
  <2> QED
    BY <2>1, <2>2
<1>2. /\ Counted(old) \in UsageRecord /\ Counted(old).count = CountOf(s) + 1
  <2>1. old.count \in Nat
    BY <1>1 DEF UsageRecord
  <2> QED
    BY <1>1, <2>1 DEF Counted, UsageRecord
<1> QED
  BY <1>2 DEF Warned, UsageRecord

\* Every tier's limit is a natural number.
LEMMA TierMaxIsNat ==
    ASSUME NEW t
    PROVE  TierMax(t) \in Nat
BY BillingAssumption DEF TierMax

\* A usage saved over an older one counts at least its own deployment.
LEMMA SaveKeepsBilling ==
    ASSUME BillingInv, NEW d \in Deploys, SaveUsage(d)
    PROVE  BillingInv'
<1>1. BillingTypes /\ CountsAreFresh /\ EditsAgree /\ DeployIsTyped(deploy[d])
  BY DEF BillingInv, CountsAreFresh
<1>2. /\ deploy[d] \in DeployState /\ deploy[d].pc = "found" /\ deploy[d].month \in 1 .. Months
      /\ usage \in [1 .. Months -> SUBSET UsageRecord] /\ deploy \in [Deploys -> DeployState]
  BY <1>1 DEF BillingTypes, SaveUsage, DeployIsTyped
<1>3. PICK k \in 1 .. Months : k = deploy[d].month
  BY <1>2
<1>4. PICK s \in SUBSET UsageRecord : s = deploy[d].seen
  BY <1>2 DEF DeployState
<1>5. PICK max \in Nat : max = TierMax(deploy[d].tier)
  BY TierMaxIsNat
<1>6. PICK old : old = IF s = {} THEN [count |-> 0, max |-> max, warned |-> 0] ELSE Only(s)
  OBVIOUS
<1>7. PICK new : new = Warned(Counted(old), max)
  OBVIOUS
<1>8. /\ usage' = [usage EXCEPT ![k] = {new}]
      /\ UNCHANGED <<user, billing, month, customers, edit, uncounted, mixed>>
  BY <1>3, <1>4, <1>5, <1>6, <1>7 DEF SaveUsage
<1>9. new \in UsageRecord /\ new.count = CountOf(s) + 1
  BY <1>6, <1>7, SavedCount
<1>10. CountOf({new}) = CountOf(s) + 1
  <2>1. Only({new}) = new
    BY OnlyIs
  <2> QED
    BY <1>9, <2>1 DEF CountOf
<1> DEFINE n == [deploy[d] EXCEPT !.pc = "counted"]
<1>11. n \in DeployState /\ n.pc = "counted" /\ n.month = k /\ n.seen = s
  BY <1>2, <1>3, <1>4 DEF DeployState
<1>12. deploy' = [deploy EXCEPT ![d] = n]
  BY DEF SaveUsage
<1> HIDE DEF n
<1>13. /\ deploy' \in [Deploys -> DeployState] /\ deploy'[d] = n
       /\ \A e \in Deploys \ {d} : deploy'[e] = deploy[e]
  BY <1>2, <1>11, <1>12
<1>14. /\ usage' \in [1 .. Months -> SUBSET UsageRecord] /\ usage'[k] = {new}
       /\ \A m \in 1 .. Months \ {k} : usage'[m] = usage[m]
  BY <1>2, <1>8, <1>9
<1>15. BillingTypes'
  <2>1. \A m \in 1 .. Months : \A r, q \in usage'[m] : r = q
    BY <1>1, <1>14 DEF BillingTypes
  <2> QED
    BY <1>1, <1>8, <1>13, <1>14, <2>1 DEF BillingTypes
<1>16. EditsAgree'
  BY <1>1, <1>8, AgreesWithDeploys
<1>17. \A m \in (1 .. Months) \ {k} : Finished(m)' = Finished(m) /\ Settled(m)' = Settled(m)
  <2> SUFFICES ASSUME NEW m \in (1 .. Months) \ {k}
               PROVE  Finished(m)' = Finished(m) /\ Settled(m)' = Settled(m)
    OBVIOUS
  <2>1. Finished(m)' = Finished(m)
    BY <1>3, <1>11, <1>13 DEF Finished
  <2> QED
    BY <1>8, <2>1 DEF Settled
<1>18. /\ d \notin Finished(k) /\ Finished(k)' = Finished(k) \cup {d}
       /\ d \notin Settled(k)
       /\ Settled(k)' = IF d \in uncounted THEN Settled(k) ELSE Settled(k) \cup {d}
  <2>1. d \notin Finished(k) /\ d \notin Settled(k)
    BY <1>2 DEF Finished, Settled
  <2>2. Finished(k)' = Finished(k) \cup {d}
    BY <1>11, <1>13 DEF Finished
  <2> QED
    BY <1>8, <2>1, <2>2 DEF Settled
<1>19. /\ Cardinality(Finished(k)') = Cardinality(Finished(k)) + 1
       /\ Cardinality(Settled(k)') <= Cardinality(Settled(k)) + 1
       /\ d \in uncounted => Cardinality(Settled(k)') = Cardinality(Settled(k))
       /\ Cardinality(Finished(k)) \in Nat /\ Cardinality(Settled(k)) \in Nat
       /\ Cardinality(Settled(k)') \in Nat
  <2>1. /\ IsFiniteSet(Finished(k)) /\ Cardinality(Finished(k)) \in Nat
        /\ IsFiniteSet(Settled(k)) /\ Cardinality(Settled(k)) \in Nat
    BY FinishedIsFinite
  <2>2. Cardinality(Finished(k) \cup {d}) = Cardinality(Finished(k)) + 1
    BY <1>18, <2>1, FS_AddElement
  <2>3. Cardinality(Settled(k) \cup {d}) = Cardinality(Settled(k)) + 1
    BY <1>18, <2>1, FS_AddElement
  <2>4. Cardinality(Finished(k)') = Cardinality(Finished(k)) + 1
    BY <1>18, <2>2
  <2>5. CASE d \in uncounted
    <3>1. Cardinality(Settled(k)') = Cardinality(Settled(k))
      BY <1>18, <2>5
    <3> QED
      BY <2>1, <2>4, <3>1
  <2>6. CASE d \notin uncounted
    <3>1. Cardinality(Settled(k)') = Cardinality(Settled(k)) + 1
      BY <1>18, <2>3, <2>6
    <3> QED
      BY <2>1, <2>4, <2>6, <3>1
  <2> QED
    BY <2>5, <2>6
<1>20. \A e \in Deploys : DeployIsTyped(deploy'[e])
  <2>1. DeployIsTyped(n)
    BY <1>1, <1>4, <1>11 DEF DeployIsTyped
  <2> QED
    BY <1>1, <1>13, <2>1 DEF CountsAreFresh
<1>21. /\ Cardinality(Settled(k)) <= CountOf(s) /\ CountOf(s) <= Cardinality(Finished(k))
       /\ CountOf(s) \in Nat
  BY <1>1, <1>2, <1>3, <1>4, CountIsNat DEF CountsAreFresh
<1>22. \A m \in 1 .. Months : /\ Cardinality(Settled(m)') <= CountOf(usage'[m])
                              /\ CountOf(usage'[m]) <= Cardinality(Finished(m)')
  <2> SUFFICES ASSUME NEW m \in 1 .. Months
               PROVE  /\ Cardinality(Settled(m)') <= CountOf(usage'[m])
                      /\ CountOf(usage'[m]) <= Cardinality(Finished(m)')
    OBVIOUS
  <2>1. CASE m = k
    <3>1. /\ Cardinality(Settled(k)') <= CountOf(s) + 1
          /\ CountOf(s) + 1 <= Cardinality(Finished(k)')
      BY ONLY <1>19, <1>21
    <3>2. CountOf(usage'[k]) = CountOf(s) + 1
      BY <1>10, <1>14
    <3> QED
      BY <2>1, <3>1, <3>2
  <2>2. CASE m # k
    <3>1. /\ Cardinality(Settled(m)) <= CountOf(usage[m])
          /\ CountOf(usage[m]) <= Cardinality(Finished(m))
      BY <1>1 DEF CountsAreFresh
    <3> QED
      BY <1>14, <1>17, <2>2, <3>1
  <2> QED
    BY <2>1, <2>2
<1>23. \A e \in Deploys, m \in 1 .. Months : deploy'[e].pc = "found" /\ deploy'[e].month = m =>
          /\ Cardinality(Settled(m)') <= CountOf(deploy'[e].seen)
          /\ CountOf(deploy'[e].seen) <= Cardinality(Finished(m)')
  <2> SUFFICES ASSUME NEW e \in Deploys, NEW m \in 1 .. Months,
                      deploy'[e].pc = "found", deploy'[e].month = m
               PROVE  /\ Cardinality(Settled(m)') <= CountOf(deploy'[e].seen)
                      /\ CountOf(deploy'[e].seen) <= Cardinality(Finished(m)')
    OBVIOUS
  <2>1. e # d /\ deploy'[e] = deploy[e]
    BY <1>11, <1>13
  <2>2. /\ Cardinality(Settled(m)) <= CountOf(deploy[e].seen)
        /\ CountOf(deploy[e].seen) <= Cardinality(Finished(m))
    BY <1>1, <2>1 DEF CountsAreFresh
  <2>3. CASE m # k
    BY <1>17, <2>1, <2>2, <2>3
  <2>4. CASE m = k
    <3>1. d \in uncounted
      BY <1>1, <1>2, <1>3, <2>1, <2>4 DEF CountsAreFresh
    <3>2. PICK c \in Nat : c = CountOf(deploy[e].seen)
      <4>1. deploy[e].seen \in SUBSET UsageRecord
        BY <1>2 DEF DeployState
      <4> QED
        BY <4>1, CountIsNat
    <3>3. Cardinality(Settled(k)) <= c /\ c <= Cardinality(Finished(k))
      BY <2>2, <2>4, <3>2
    <3>4. Cardinality(Settled(k)') <= c /\ c <= Cardinality(Finished(k)')
      BY ONLY <1>19, <3>1, <3>2, <3>3
    <3> QED
      BY <2>1, <2>4, <3>2, <3>4
  <2> QED
    BY <2>3, <2>4
<1>24. \A e, f \in Deploys : deploy'[e].pc = "found" /\ deploy'[f].pc = "found"
          /\ deploy'[e].month = deploy'[f].month /\ e # f => e \in uncounted'
  BY <1>1, <1>8, <1>11, <1>13 DEF CountsAreFresh
<1>25. CountsAreFresh'
  BY <1>20, <1>22, <1>23, <1>24 DEF CountsAreFresh, DeployIsTyped, CountOf, Only
<1> QED
  BY <1>15, <1>16, <1>25 DEF BillingInv

\* A set without two different members has one or none.
LEMMA OneOrNone ==
    ASSUME NEW S, \A b, c \in S : b = c
    PROVE  Cardinality(S) = IF S = {} THEN 0 ELSE 1
<1>1. CASE S = {}
  BY <1>1, FS_EmptySet
<1>2. CASE S # {}
  <2>1. PICK b : S = {b}
    BY <1>2
  <2>2. Cardinality({b}) = 1
    BY FS_Singleton
  <2> QED
    BY <1>2, <2>1, <2>2
<1> QED
  BY <1>1, <1>2

\* An edit that moves on, alone or not.
LEMMA EditMoves ==
    ASSUME BillingInv, NEW e \in Edits, NEW n \in EditState, EditIsTyped(n),
           edit' = [edit EXCEPT ![e] = n],
           UNCHANGED <<usage, month, deploy, uncounted>>,
           user' \in [tier : SUBSET TierNames, total : Nat],
           billing' \in SUBSET BillingRecord, \A b, c \in billing' : b = c,
           billing # {} => billing' # {},
           n.pc \notin {"idle", "done"} /\ n.call # "customer" => billing' # {},
           ~mixed' => ~mixed /\ Busy \subseteq {e},
           ~mixed' => IF n.pc \in {"idle", "done"} THEN BooksAgree' ELSE EditAgrees(n)'
    PROVE  BillingInv'
<1>1. BillingTypes /\ CountsAreFresh /\ EditsAgree
  BY DEF BillingInv
<1>2. /\ edit' \in [Edits -> EditState] /\ edit'[e] = n
      /\ \A f \in Edits \ {e} : edit'[f] = edit[f]
  BY <1>1 DEF BillingTypes
<1>3. BillingTypes'
  BY <1>1, <1>2 DEF BillingTypes
<1>4. CountsAreFresh'
  BY <1>1, CountsWithEdits
<1>5. Busy' = (Busy \ {e}) \cup (IF n.pc \in {"idle", "done"} THEN {} ELSE {e})
  BY <1>2 DEF Busy
<1>6. \A f \in Edits : EditIsTyped(edit'[f])
  BY <1>1, <1>2 DEF EditsAgree
<1>7. \A f \in Busy' : edit'[f].call # "customer" => billing' # {}
  <2> SUFFICES ASSUME NEW f \in Busy', edit'[f].call # "customer"
               PROVE  billing' # {}
    OBVIOUS
  <2>1. CASE f = e
    BY <1>2, <1>5, <2>1
  <2>2. CASE f # e
    <3>1. f \in Busy /\ f \in Edits
      BY <1>5, <2>2 DEF Busy
    <3>2. edit'[f] = edit[f]
      BY <1>2, <2>2, <3>1
    <3>3. billing # {}
      BY <1>1, <3>1, <3>2 DEF EditsAgree
    <3> QED
      BY <3>3
  <2> QED
    BY <2>1, <2>2
<1>8. ASSUME ~mixed'
      PROVE  /\ \A f, g \in Busy' : f = g
             /\ \A f \in Busy' : f = e /\ EditAgrees(n)'
             /\ Busy' = {} => BooksAgree'
  <2>1. Busy' = IF n.pc \in {"idle", "done"} THEN {} ELSE {e}
    BY <1>5, <1>8
  <2>2. CASE n.pc \in {"idle", "done"}
    BY <1>8, <2>1, <2>2
  <2>3. CASE n.pc \notin {"idle", "done"}
    BY <1>8, <2>1, <2>3
  <2> QED
    BY <2>2, <2>3
<1>9. EditAgrees(edit[e])' <=> EditAgrees(n)'
  BY <1>2 DEF EditAgrees
<1>10. EditsAgree'
  BY <1>6, <1>7, <1>8, <1>9 DEF EditsAgree, EditIsTyped
<1> QED
  BY <1>3, <1>4, <1>10 DEF BillingInv

\* What is known of an edit under way.
LEMMA EditUnderWay ==
    ASSUME BillingInv, NEW e \in Edits, edit[e].pc \notin {"idle", "done"}
    PROVE  /\ edit[e] \in EditState /\ EditIsTyped(edit[e])
           /\ user \in [tier : SUBSET TierNames, total : Nat]
           /\ billing \in SUBSET BillingRecord /\ \A b, c \in billing : b = c
           /\ Cardinality(billing) = IF billing = {} THEN 0 ELSE 1
           /\ edit[e].call # "customer" => billing # {}
           /\ ~mixed => Busy \subseteq {e} /\ EditAgrees(edit[e])
<1>1. BillingTypes /\ EditsAgree
  BY DEF BillingInv
<1>2. e \in Busy
  BY DEF Busy
<1>3. /\ edit[e] \in EditState /\ user \in [tier : SUBSET TierNames, total : Nat]
      /\ billing \in SUBSET BillingRecord
  BY <1>1 DEF BillingTypes
<1>4. \A b, c \in billing : b = c
  BY <1>1 DEF EditsAgree
<1>5. Cardinality(billing) = IF billing = {} THEN 0 ELSE 1
  BY <1>4, OneOrNone
<1>6. EditIsTyped(edit[e]) /\ (edit[e].call # "customer" => billing # {})
  BY <1>1, <1>2 DEF EditsAgree
<1>7. ~mixed => Busy \subseteq {e} /\ EditAgrees(edit[e])
  BY <1>1, <1>2 DEF EditsAgree
<1> QED
  BY <1>3, <1>4, <1>5, <1>6, <1>7

\* An edit begins with nothing saved.
LEMMA BeginKeepsBilling ==
    ASSUME BillingInv, NEW e \in Edits, NEW call \in Calls, NEW t \in TierNames,
           BeginEdit(e, call, t)
    PROVE  BillingInv'
<1>1. BillingTypes /\ EditsAgree
  BY DEF BillingInv
<1>2. /\ user \in [tier : SUBSET TierNames, total : Nat]
      /\ billing \in SUBSET BillingRecord
  BY <1>1 DEF BillingTypes
<1>3. PICK n : n = [pc |-> "read", call |-> call, tier |-> t, seen |-> billing]
  OBVIOUS
<1>4. n \in EditState /\ n.pc = "read" /\ n.call = call /\ n.tier = t /\ n.seen = billing
  BY <1>2, <1>3 DEF EditState
<1>5. /\ edit' = [edit EXCEPT ![e] = n]
      /\ UNCHANGED <<user, billing, usage, month, customers, deploy, uncounted>>
  BY <1>3 DEF BeginEdit
<1>6. IF call = "customer" THEN billing = {} ELSE billing # {}
  BY DEF BeginEdit, CanBegin, Calls
<1>7. EditIsTyped(n)
  BY <1>4, <1>6 DEF EditIsTyped, BeginEdit
<1>8. ~mixed' => ~mixed /\ Busy = {}
  BY DEF BeginEdit
<1>9. ~mixed' => BooksAgree
  BY <1>1, <1>8 DEF EditsAgree
<1>10. ~mixed' => EditAgrees(n)'
  <2>1. BooksAgree' <=> BooksAgree
    BY <1>5 DEF BooksAgree, TiersAgree
  <2> QED
    BY <1>4, <1>5, <1>6, <1>9, <2>1 DEF EditAgrees
<1>11. \A b, c \in billing' : b = c
  BY <1>1, <1>5 DEF EditsAgree
<1> QED
  BY <1>2, <1>4, <1>5, <1>6, <1>7, <1>8, <1>10, <1>11, EditMoves

\* The call of Stripe makes at most one customer more.
LEMMA StripeKeepsBilling ==
    ASSUME BillingInv, NEW e \in Edits, CallStripe(e)
    PROVE  BillingInv'
<1>1. edit[e].pc = "read"
  BY DEF CallStripe
<1>2. /\ edit[e] \in EditState /\ EditIsTyped(edit[e])
      /\ user \in [tier : SUBSET TierNames, total : Nat]
      /\ billing \in SUBSET BillingRecord /\ \A b, c \in billing : b = c
      /\ Cardinality(billing) = IF billing = {} THEN 0 ELSE 1
      /\ edit[e].call # "customer" => billing # {}
      /\ ~mixed => Busy \subseteq {e} /\ EditAgrees(edit[e])
  BY <1>1, EditUnderWay
<1>3. PICK n : n = [edit[e] EXCEPT !.pc = "called"]
  OBVIOUS
<1>4. n \in EditState /\ n.pc = "called" /\ n.call = edit[e].call
      /\ n.tier = edit[e].tier /\ n.seen = edit[e].seen
  BY <1>2, <1>3 DEF EditState
<1>5. /\ edit' = [edit EXCEPT ![e] = n]
      /\ UNCHANGED <<user, billing, usage, month, deploy, uncounted, mixed>>
      /\ customers' = IF edit[e].call = "customer" THEN customers + 1 ELSE customers
  BY <1>3 DEF CallStripe
<1>6. EditIsTyped(n)
  BY <1>1, <1>2, <1>4 DEF EditIsTyped
<1>7. ~mixed => EditAgrees(n)'
  <2> SUFFICES ASSUME ~mixed PROVE EditAgrees(n)'
    OBVIOUS
  <2>1. BooksAgree /\ (edit[e].call = "customer" => billing = {})
    BY <1>1, <1>2 DEF EditAgrees
  <2>2. CASE edit[e].call = "customer"
    <3>1. customers = 0
      BY <1>2, <2>1, <2>2 DEF BooksAgree
    <3> QED
      BY <1>4, <1>5, <2>1, <2>2, <3>1 DEF EditAgrees
  <2>3. CASE edit[e].call # "customer"
    <3>1. BooksAgree'
      BY <1>5, <2>1, <2>3 DEF BooksAgree, TiersAgree
    <3> QED
      BY <1>4, <1>5, <2>3, <3>1 DEF EditAgrees
  <2> QED
    BY <2>2, <2>3
<1> QED
  BY <1>2, <1>4, <1>5, <1>6, <1>7, EditMoves

\* The user's tier is saved before the billing record.
LEMMA UserKeepsBilling ==
    ASSUME BillingInv, NEW e \in Edits, SaveUser(e)
    PROVE  BillingInv'
<1>1. \/ edit[e].call \in {"upgrade", "deleted"} /\ edit[e].pc = "called"
      \/ edit[e].call = "customer" /\ edit[e].pc = "billing"
  BY DEF SaveUser
<1>2. /\ edit[e] \in EditState /\ EditIsTyped(edit[e])
      /\ user \in [tier : SUBSET TierNames, total : Nat]
      /\ billing \in SUBSET BillingRecord /\ \A b, c \in billing : b = c
      /\ Cardinality(billing) = IF billing = {} THEN 0 ELSE 1
      /\ edit[e].call # "customer" => billing # {}
      /\ ~mixed => Busy \subseteq {e} /\ EditAgrees(edit[e])
  BY <1>1, EditUnderWay
<1>3. PICK n : n = [edit[e] EXCEPT !.pc = IF edit[e].call = "customer" THEN "done" ELSE "user"]
  OBVIOUS
<1>4. /\ n \in EditState /\ n.pc = IF edit[e].call = "customer" THEN "done" ELSE "user"
      /\ n.call = edit[e].call /\ n.tier = edit[e].tier /\ n.seen = edit[e].seen
  BY <1>2, <1>3 DEF EditState
<1>5. /\ edit' = [edit EXCEPT ![e] = n]
      /\ UNCHANGED <<billing, usage, month, customers, deploy, uncounted, mixed>>
      /\ user' = [user EXCEPT !.tier = {edit[e].tier}]
  BY <1>3 DEF SaveUser
<1>6. EditIsTyped(n)
  BY <1>1, <1>2, <1>4 DEF EditIsTyped
<1>7. user' \in [tier : SUBSET TierNames, total : Nat] /\ user'.tier = {edit[e].tier}
  <2>1. edit[e].tier \in TierNames
    BY <1>2 DEF EditState
  <2> QED
    BY <1>2, <1>5, <2>1
<1>8. ~mixed => IF n.pc \in {"idle", "done"} THEN BooksAgree' ELSE EditAgrees(n)'
  <2> SUFFICES ASSUME ~mixed
               PROVE  IF n.pc \in {"idle", "done"} THEN BooksAgree' ELSE EditAgrees(n)'
    OBVIOUS
  <2>1. EditAgrees(edit[e])
    BY <1>2
  <2>2. CASE edit[e].call = "customer"
    <3>1. customers = Cardinality(billing) /\ \A b \in billing : b.tier = edit[e].tier
      BY <1>1, <2>1, <2>2 DEF EditAgrees
    <3>2. BooksAgree'
      BY <1>5, <1>7, <3>1 DEF BooksAgree, TiersAgree
    <3> QED
      BY <1>4, <2>2, <3>2
  <2>3. CASE edit[e].call # "customer"
    <3>1. customers = Cardinality(billing)
      BY <1>1, <2>1, <2>3 DEF EditAgrees, BooksAgree
    <3>2. EditAgrees(n)'
      BY <1>4, <1>5, <1>7, <2>3, <3>1 DEF EditAgrees
    <3> QED
      BY <1>4, <2>3, <3>2
  <2> QED
    BY <2>2, <2>3
<1> QED
  BY <1>2, <1>4, <1>5, <1>6, <1>7, <1>8, EditMoves

\* A failed edit keeps what it has saved, and is noted.
LEMMA EditFailKeepsBilling ==
    ASSUME BillingInv, NEW e \in Edits, EditFails(e)
    PROVE  BillingInv'
<1>1. edit[e].pc \notin {"idle", "done"}
  BY DEF EditFails
<1>2. /\ edit[e] \in EditState /\ EditIsTyped(edit[e])
      /\ user \in [tier : SUBSET TierNames, total : Nat]
      /\ billing \in SUBSET BillingRecord /\ \A b, c \in billing : b = c
      /\ ~mixed => Busy \subseteq {e} /\ EditAgrees(edit[e])
  BY <1>1, EditUnderWay
<1>3. PICK n : n = [edit[e] EXCEPT !.pc = "done"]
  OBVIOUS
<1>4. n \in EditState /\ n.pc = "done" /\ n.call = edit[e].call
      /\ n.tier = edit[e].tier /\ n.seen = edit[e].seen
  BY <1>2, <1>3 DEF EditState
<1>5. /\ edit' = [edit EXCEPT ![e] = n]
      /\ UNCHANGED <<user, billing, usage, month, customers, deploy, uncounted>>
  BY <1>3 DEF EditFails
<1>6. EditIsTyped(n)
  BY <1>1, <1>2, <1>4 DEF EditIsTyped
<1>7. ~mixed' => ~mixed /\ edit[e].pc \notin {"called", "user", "billing"}
  BY DEF EditFails
<1>8. ~mixed' => BooksAgree'
  <2> SUFFICES ASSUME ~mixed' PROVE BooksAgree'
    OBVIOUS
  <2>1. edit[e].pc = "read"
    BY <1>1, <1>2, <1>7 DEF EditState
  <2>2. BooksAgree
    BY <1>2, <1>7, <2>1 DEF EditAgrees
  <2> QED
    BY <1>5, <2>2 DEF BooksAgree, TiersAgree
<1> QED
  BY <1>2, <1>4, <1>5, <1>6, <1>7, <1>8, EditMoves

\* The record an edit saves has the tier it has saved for the user.
LEMMA EditedRecord ==
    ASSUME NEW e \in Edits, edit[e] \in EditState, EditIsTyped(edit[e]),
           edit[e].pc \notin {"idle", "done"}, edit[e].call # "customer",
           billing \in SUBSET BillingRecord, \A b, c \in billing : b = c, billing # {}
    PROVE  /\ Edited(e) \in BillingRecord
           /\ edit[e].call \in {"upgrade", "deleted"} => Edited(e).tier = edit[e].tier
           /\ edit[e].call \notin {"upgrade", "deleted"} =>
                 \A b \in billing : Edited(e).tier = b.tier
<1>1. PICK now \in BillingRecord : now = Only(billing) /\ now \in billing
  BY OnlyIs
<1>2. PICK was \in BillingRecord : was = Only(edit[e].seen)
  <2>1. edit[e].seen # {}
    BY DEF EditIsTyped
  <2>2. edit[e].seen \in SUBSET BillingRecord
    BY DEF EditState
  <2> QED
    BY <2>1, <2>2, OnlyIs
<1>3. /\ was.paid + 1 \in Nat /\ was.failures + 1 \in Nat
      /\ edit[e].tier \in TierNames /\ edit[e].call \in Calls
  BY DEF BillingRecord, EditState
<1>4. \A b \in billing : now = b
  BY <1>1
<1>5. edit[e].call # "upgrade" => edit[e].tier = "free"
  BY DEF EditIsTyped
<1>6. CASE edit[e].call = "subscribe"
  <2>1. Edited(e) = [now EXCEPT !.subscribed = TRUE, !.status = "active"]
    BY <1>1, <1>6 DEF Edited
  <2> QED
    BY <1>4, <1>6, <2>1 DEF BillingRecord
<1>7. CASE edit[e].call = "upgrade"
  <2>1. Edited(e) = [now EXCEPT !.tier = edit[e].tier]
    BY <1>1, <1>7 DEF Edited
  <2> QED
    BY <1>3, <1>7, <2>1 DEF BillingRecord
<1>8. CASE edit[e].call = "cancel"
  <2>1. Edited(e) = [now EXCEPT !.status = "canceled"]
    BY <1>1, <1>8 DEF Edited
  <2> QED
    BY <1>4, <1>8, <2>1 DEF BillingRecord
<1>9. CASE edit[e].call = "updated"
  <2>1. Edited(e) = [now EXCEPT !.status = "past_due"]
    BY <1>1, <1>9 DEF Edited
  <2> QED
    BY <1>4, <1>9, <2>1 DEF BillingRecord
<1>10. CASE edit[e].call = "deleted"
  <2>1. Edited(e) = [now EXCEPT !.tier = "free", !.status = "canceled"]
    BY <1>1, <1>10 DEF Edited
  <2> QED
    BY <1>5, <1>10, <2>1 DEF BillingRecord, TierNames
<1>11. CASE edit[e].call = "paid"
  <2>1. PICK p \in Nat : p = was.paid + 1
    BY <1>3
  <2>2. Edited(e) = [now EXCEPT !.paid = p, !.failures = 0]
    BY <1>1, <1>2, <1>11, <2>1 DEF Edited
  <2> DEFINE q == [now EXCEPT !.paid = p]
  <2>4. q \in BillingRecord /\ q.tier = now.tier
    BY <1>1 DEF BillingRecord
  <2>5. Edited(e) = [q EXCEPT !.failures = 0]
    BY <1>1, <2>2 DEF BillingRecord
  <2> HIDE DEF q
  <2>3. Edited(e) \in BillingRecord /\ Edited(e).tier = now.tier
    BY <2>4, <2>5 DEF BillingRecord
  <2> QED
    BY <1>4, <1>11, <2>3
<1>12. CASE edit[e].call = "failed"
  <2>1. Edited(e) = [now EXCEPT !.failures = was.failures + 1]
    BY <1>1, <1>2, <1>12 DEF Edited
  <2> QED
    BY <1>3, <1>4, <1>12, <2>1 DEF BillingRecord
<1> QED
  BY <1>3, <1>6, <1>7, <1>8, <1>9, <1>10, <1>11, <1>12 DEF Calls

\* With the billing record saved, both records agree again.
LEMMA BillingKeepsBilling ==
    ASSUME BillingInv, NEW e \in Edits, SaveBilling(e)
    PROVE  BillingInv'
<1>1. edit[e].pc = IF edit[e].call \in {"upgrade", "deleted"} THEN "user" ELSE "called"
  BY DEF SaveBilling
<1>2. /\ edit[e] \in EditState /\ EditIsTyped(edit[e])
      /\ user \in [tier : SUBSET TierNames, total : Nat]
      /\ billing \in SUBSET BillingRecord /\ \A b, c \in billing : b = c
      /\ Cardinality(billing) = IF billing = {} THEN 0 ELSE 1
      /\ edit[e].call # "customer" => billing # {}
      /\ ~mixed => Busy \subseteq {e} /\ EditAgrees(edit[e])
  BY <1>1, EditUnderWay
<1>3. PICK n : n = [edit[e] EXCEPT !.pc = IF edit[e].call = "customer" THEN "billing" ELSE "done"]
  OBVIOUS
<1>4. /\ n \in EditState /\ n.pc = IF edit[e].call = "customer" THEN "billing" ELSE "done"
      /\ n.call = edit[e].call /\ n.tier = edit[e].tier /\ n.seen = edit[e].seen
  BY <1>2, <1>3 DEF EditState
<1>5. /\ edit' = [edit EXCEPT ![e] = n]
      /\ UNCHANGED <<user, usage, month, customers, deploy, uncounted, mixed>>
  BY <1>3 DEF SaveBilling
<1>6. EditIsTyped(n)
  BY <1>1, <1>2, <1>4 DEF EditIsTyped
<1>7. CASE edit[e].call = "customer"
  <2>1. PICK r : r = [tier |-> "free", subscribed |-> FALSE, status |-> "active",
                      paid |-> 0, failures |-> 0]
    OBVIOUS
  <2>2. billing' = {r} /\ billing = {}
    BY <1>7, <2>1 DEF SaveBilling, WriteBilling
  <2>3. r \in BillingRecord /\ r.tier = "free"
    BY <2>1 DEF BillingRecord, TierNames
  <2>4. edit[e].tier = "free"
    BY <1>2, <1>7 DEF EditIsTyped
  <2>5. Cardinality(billing') = 1
    BY <2>2, FS_Singleton
  <2>6. ~mixed => EditAgrees(n)'
    <3> SUFFICES ASSUME ~mixed PROVE EditAgrees(n)'
      OBVIOUS
    <3>1. customers = 1
      BY <1>1, <1>2, <1>7 DEF EditAgrees
    <3> QED
      BY <1>4, <1>5, <1>7, <2>2, <2>3, <2>4, <2>5, <3>1 DEF EditAgrees
  <2>7. n.pc = "billing"
    BY <1>4, <1>7
  <2>8. /\ billing' \in SUBSET BillingRecord /\ (\A b, c \in billing' : b = c)
        /\ billing' # {}
    BY <2>2, <2>3
  <2> QED
    BY <1>2, <1>4, <1>5, <1>6, <2>6, <2>7, <2>8, EditMoves
<1>8. CASE edit[e].call # "customer"
  <2>1. PICK r : r = Edited(e)
    OBVIOUS
  <2>2. billing' = {r} /\ billing # {}
    BY <1>2, <1>8, <2>1 DEF SaveBilling, WriteBilling
  <2>3. edit[e].pc \notin {"idle", "done"}
    BY <1>1
  <2>4. /\ r \in BillingRecord
        /\ edit[e].call \in {"upgrade", "deleted"} => r.tier = edit[e].tier
        /\ edit[e].call \notin {"upgrade", "deleted"} => \A b \in billing : r.tier = b.tier
    BY <1>2, <1>8, <2>1, <2>2, <2>3, EditedRecord
  <2>5. Cardinality(billing') = 1 /\ Cardinality(billing) = 1
    BY <1>2, <2>2, FS_Singleton
  <2>6. ~mixed => BooksAgree'
    <3> SUFFICES ASSUME ~mixed PROVE BooksAgree'
      OBVIOUS
    <3>1. EditAgrees(edit[e])
      BY <1>2
    <3>2. customers = 1 /\ user.tier = {r.tier}
      <4>1. CASE edit[e].call \in {"upgrade", "deleted"}
        BY <1>1, <2>4, <2>5, <3>1, <4>1 DEF EditAgrees
      <4>2. CASE edit[e].call \notin {"upgrade", "deleted"}
        <5>1. BooksAgree
          BY <1>1, <1>8, <3>1, <4>2 DEF EditAgrees
        <5>2. PICK b \in billing : TRUE
          BY <2>2
        <5> QED
          BY <2>4, <2>5, <4>2, <5>1, <5>2 DEF BooksAgree, TiersAgree
      <4> QED
        BY <4>1, <4>2
    <3> QED
      BY <1>5, <2>2, <2>5, <3>2 DEF BooksAgree, TiersAgree
  <2>7. n.pc = "done"
    BY <1>4, <1>8
  <2>8. /\ billing' \in SUBSET BillingRecord /\ (\A b, c \in billing' : b = c)
        /\ billing' # {}
    BY <2>2, <2>4
  <2> QED
    BY <1>2, <1>4, <1>5, <1>6, <2>6, <2>7, <2>8, EditMoves
<1> QED
  BY <1>7, <1>8

\* Every step of the billing service keeps the invariant.
LEMMA BillingStep ==
    ASSUME BillingInv, [BillingNext]_billingVars
    PROVE  BillingInv'
<1>1. ASSUME NEW d \in Deploys,
             \/ CheckDeploymentLimit(d) \/ TrackDeployment(d) \/ LoadUser(d)
             \/ FindUsage(d) \/ SaveUsage(d) \/ SaveTotal(d) \/ CountFails(d)
      PROVE  BillingInv'
  BY <1>1, CheckKeepsBilling, TrackKeepsBilling, LoadKeepsBilling, FindKeepsBilling,
     SaveKeepsBilling, TotalKeepsBilling, FailKeepsBilling
<1>2. ASSUME NEW e \in Edits,
             \/ \E call \in Calls, t \in TierNames : BeginEdit(e, call, t)
             \/ CallStripe(e) \/ SaveUser(e) \/ SaveBilling(e) \/ EditFails(e)
      PROVE  BillingInv'
  BY <1>2, BeginKeepsBilling, StripeKeepsBilling, UserKeepsBilling, BillingKeepsBilling,
     EditFailKeepsBilling
<1>3. CASE UNCHANGED billingVars \/ NextMonth
  <2>1. UNCHANGED <<user, billing, usage, customers, deploy, edit, uncounted, mixed>>
    BY <1>3 DEF NextMonth, billingVars
  <2>2. BillingTypes /\ CountsAreFresh /\ EditsAgree
    BY DEF BillingInv
  <2>3. month' \in 1 .. Months
    BY <1>3, <2>2, BillingAssumption DEF NextMonth, billingVars, BillingTypes
  <2>4. BillingTypes'
    BY <2>1, <2>2, <2>3 DEF BillingTypes
  <2>5. CountsAreFresh'
    BY <2>1, <2>2, CountsWithEdits
  <2>6. EditsAgree'
    BY <2>1, <2>2, AgreesWithDeploys
  <2> QED
    BY <2>4, <2>5, <2>6 DEF BillingInv
<1> QED
  BY <1>1, <1>2, <1>3 DEF BillingNext

\* At first nothing is counted and there is no subscription.
LEMMA InitBilling ==
    ASSUME BillingInit
    PROVE  BillingInv
<1>1. BillingTypes
  BY BillingAssumption DEF BillingInit, BillingTypes, DeployState, EditState, TierNames, Calls
<1>2. \A m \in 1 .. Months : Finished(m) = {} /\ Settled(m) = {} /\ CountOf(usage[m]) = 0
  BY DEF BillingInit, Finished, Settled, CountOf
<1>3. Cardinality({}) = 0
  BY FS_EmptySet
<1>4. CountsAreFresh
  <2>1. \A d \in Deploys : deploy[d].pc = "idle" /\ deploy[d].month = 0 /\ deploy[d].seen = {}
    BY DEF BillingInit
  <2>2. \A d \in Deploys : DeployIsTyped(deploy[d])
    BY <2>1 DEF DeployIsTyped
  <2>3. \A m \in 1 .. Months : /\ Cardinality(Settled(m)) <= CountOf(usage[m])
                               /\ CountOf(usage[m]) <= Cardinality(Finished(m))
    BY <1>2, <1>3
  <2> QED
    BY <2>1, <2>2, <2>3 DEF CountsAreFresh
<1>5. EditsAgree
  BY <1>3 DEF BillingInit, EditsAgree, EditIsTyped, Busy, BooksAgree, TiersAgree
<1> QED
  BY <1>1, <1>4, <1>5 DEF BillingInv

\* Every deployment whose count was neither lost nor read beside another's is in
\* its month's count, nothing is counted twice, and when no billing request is
\* under way and none failed half way the user's tier, the billing record's and
\* Stripe's customers agree: billing-service.js.
THEOREM BillingAlwaysAddsUp == BillingSpec => []BillingAddsUp
<1>1. BillingInit => BillingInv
  BY InitBilling
<1>2. BillingInv /\ [BillingNext]_billingVars => BillingInv'
  BY BillingStep
<1>3. BillingInv => BillingAddsUp
  <2> SUFFICES ASSUME BillingInv PROVE CountsEveryDeployment /\ RecordsAgree
    BY DEF BillingAddsUp
  <2>1. RecordsAgree
    BY DEF BillingInv, EditsAgree, RecordsAgree, BooksAgree, TiersAgree
  <2>2. ASSUME NEW m \in 1 .. Months
        PROVE  LET inMonth == {d \in Deploys : deploy[d].month = m}
                   settled == {d \in inMonth \ uncounted : deploy[d].pc \in {"counted", "done"}}
               IN  /\ Cardinality(settled) <= CountOf(usage[m])
                   /\ CountOf(usage[m]) <= Cardinality(inMonth)
    <3> DEFINE inMonth == {d \in Deploys : deploy[d].month = m}
               settled == {d \in inMonth \ uncounted : deploy[d].pc \in {"counted", "done"}}
    <3>1. settled = Settled(m)
      BY DEF Settled, Finished
    <3>2. Finished(m) \in SUBSET inMonth
      BY DEF Finished
    <3>3. inMonth \in SUBSET Deploys
      OBVIOUS
    <3>4. IsFiniteSet(inMonth)
      BY <3>3, BillingAssumption, FS_Subset
    <3>5. Cardinality(inMonth) \in Nat
      BY <3>4, FS_CardinalityType
    <3>6. Cardinality(Finished(m)) <= Cardinality(inMonth)
      BY <3>2, <3>4, FS_Subset
    <3>7. /\ Cardinality(Settled(m)) <= CountOf(usage[m])
          /\ CountOf(usage[m]) <= Cardinality(Finished(m))
      BY DEF BillingInv, CountsAreFresh
    <3>8. CountOf(usage[m]) \in Nat
      <4>1. usage[m] \in SUBSET UsageRecord
        BY DEF BillingInv, BillingTypes
      <4> QED
        BY <4>1, CountIsNat
    <3>9. Cardinality(Finished(m)) \in Nat
      BY FinishedIsFinite
    <3>10. CountOf(usage[m]) <= Cardinality(inMonth)
      BY ONLY <3>5, <3>6, <3>7, <3>8, <3>9
    <3> QED
      BY <3>1, <3>7, <3>10
  <2>3. CountsEveryDeployment
    BY <2>2 DEF CountsEveryDeployment, CountOf
  <2> QED
    BY <2>1, <2>3
<1> QED
  BY <1>1, <1>2, <1>3, PTL DEF BillingSpec
-----------------------------------------------------------------------------
(* Backups.  What a run has uploaded is in the store or outlived, and what a *)
(* run is about to delete is outlived.                                       *)

BackupsSpec == BackupsInit /\ [][BackupsNext]_backupsVars

RunStates == [pc : JobStates, result : Results, key : Nat, opens : BOOLEAN,
              day : 0 .. LastDay, expired : SUBSET Object]

BackupTypes ==
    /\ today \in 0 .. LastDay
    /\ store \in SUBSET Object /\ IsFiniteSet(store)
    /\ job \in [Jobs -> RunStates]

\* An object with the key, not older than the day, is in the store, or the
\* retention of that day is over.
Secured(kind, x, objects, now) ==
    \/ \E o \in objects : o.kind = kind /\ o.key = x.key /\ o.day >= x.day
    \/ now > x.day + Retention

RunHolds(x, j, objects, now, files) ==
    /\ x.pc \in {"describe", "list", "delete"} \/ x.result = "success" =>
          Secured("backup", x, objects, now)
    /\ x.pc \in {"list", "delete"} \/ x.result = "success" =>
          Secured("metadata", x, objects, now)
    /\ x.day <= now
    /\ x.pc # "done" => x.result = "none"
    /\ \A o \in x.expired : now > o.day + Retention
    /\ {<<"dump", j>>, <<"encrypted", j>>} \cap files # {} =>
          x.pc # "idle" /\ x.result = "none"

BackupsInv == BackupTypes /\ \A j \in Jobs : RunHolds(job[j], j, store, today, disk)

\* The latest key is a natural number, for the store is finite.
LEMMA LatestIsNat ==
    ASSUME BackupTypes
    PROVE  Latest(store) \in Nat
<1> DEFINE f == [o \in store |-> o.key]
<1>1. PICK S : S = {f[o] : o \in store} \cup {0}
  OBVIOUS
<1>2. IsFiniteSet({f[o] : o \in store})
  <2> HIDE DEF f
  <2> QED
    BY ValuesFinite DEF BackupTypes
<1>3. IsFiniteSet(S)
  BY <1>1, <1>2, FS_AddElement
<1>4. \A x \in S : x \in Nat
  BY <1>1 DEF BackupTypes, Object
<1>5. S # {} /\ \A x \in S : x \in Int
  BY <1>1, <1>4
<1>6. Max(S) \in S
  BY <1>3, <1>5, GreatestOf
<1>7. S = {o.key : o \in store} \cup {0}
  BY <1>1
<1> QED
  BY <1>4, <1>6, <1>7 DEF Latest

\* A run that does not move holds on while days pass, others upload, and only
\* what is outlived is deleted.
LEMMA RunGoesOn ==
    ASSUME NEW x \in RunStates, NEW j, NEW s \in SUBSET Object, NEW t \in SUBSET Object,
           NEW m \in 0 .. LastDay, NEW n \in 0 .. LastDay, m <= n,
           NEW f, NEW g, RunHolds(x, j, s, m, f),
           \A o \in s \ t : n > o.day + Retention,
           {<<"dump", j>>, <<"encrypted", j>>} \cap g
              \subseteq {<<"dump", j>>, <<"encrypted", j>>} \cap f
    PROVE  RunHolds(x, j, t, n, g)
<1>1. m \in Int /\ n \in Int /\ Retention \in Int /\ x.day \in Int
      /\ \A o \in Object : o.day \in Int
  BY BackupsAssumption DEF RunStates, Object
<1>2. ASSUME NEW kind, Secured(kind, x, s, m)
      PROVE  Secured(kind, x, t, n)
  <2>1. CASE m > x.day + Retention
    BY <1>1, <2>1 DEF Secured
  <2>2. ASSUME NEW o \in s, o.kind = kind, o.key = x.key, o.day >= x.day
        PROVE  Secured(kind, x, t, n)
    <3>1. CASE o \in t
      BY <2>2, <3>1 DEF Secured
    <3>2. CASE o \notin t
      <4>1. n > o.day + Retention /\ o.day \in Int
        BY <1>1, <2>2, <3>2
      <4> QED
        BY <1>1, <2>2, <4>1 DEF Secured
    <3> QED
      BY <3>1, <3>2
  <2> QED
    BY <1>2, <2>1, <2>2 DEF Secured
<1>3. x.day <= m /\ \A o \in x.expired : m > o.day + Retention /\ o \in Object
  BY DEF RunHolds, RunStates
<1>4. x.day <= n /\ \A o \in x.expired : n > o.day + Retention
  BY <1>1, <1>3
<1> QED
  BY <1>2, <1>4 DEF RunHolds

\* One run moves, and the others go on.
LEMMA RunMoves ==
    ASSUME BackupsInv, NEW j \in Jobs, NEW x \in RunStates, job' = [job EXCEPT ![j] = x],
           today' = today, store' \in SUBSET Object, IsFiniteSet(store'),
           \A o \in store \ store' : today > o.day + Retention,
           \A i \in Jobs \ {j} : {<<"dump", i>>, <<"encrypted", i>>} \cap disk'
              \subseteq {<<"dump", i>>, <<"encrypted", i>>} \cap disk,
           RunHolds(x, j, store', today, disk')
    PROVE  BackupsInv'
<1>1. BackupTypes /\ \A i \in Jobs : RunHolds(job[i], i, store, today, disk)
  BY DEF BackupsInv
<1>2. BackupTypes'
  BY <1>1 DEF BackupTypes
<1>3. ASSUME NEW i \in Jobs
      PROVE  RunHolds(job'[i], i, store', today', disk')
  <2>1. CASE i = j
    BY <1>1, <2>1 DEF BackupTypes
  <2>2. CASE i # j
    <3>1. job'[i] = job[i] /\ job[i] \in RunStates /\ store \in SUBSET Object
          /\ today \in 0 .. LastDay /\ today <= today /\ RunHolds(job[i], i, store, today, disk)
      BY <1>1, <2>2 DEF BackupTypes
    <3>2. {<<"dump", i>>, <<"encrypted", i>>} \cap disk'
              \subseteq {<<"dump", i>>, <<"encrypted", i>>} \cap disk
      BY <2>2
    <3>3. RunHolds(job[i], i, store', today, disk')
      BY <3>1, <3>2, RunGoesOn
    <3> QED
      BY <3>1, <3>3
  <2> QED
    BY <2>1, <2>2
<1> QED
  BY <1>2, <1>3 DEF BackupsInv

\* A run that ends without success leaves nothing under the names it knows.
LEMMA FailedRunHolds ==
    ASSUME BackupsInv, NEW j \in Jobs, NEW result \in {"failure"}, NEW files,
           NEW objects, Ends(j, result, files)
    PROVE  \E x \in RunStates : /\ job' = [job EXCEPT ![j] = x]
                                /\ RunHolds(x, j, objects, today, disk')
<1>1. PICK r \in RunStates : r = job[j]
  BY DEF BackupsInv, BackupTypes
<1>2. PICK x : x = [[[r EXCEPT !.pc = "done"] EXCEPT !.result = result] EXCEPT !.expired = {}]
  OBVIOUS
<1>3. x \in RunStates /\ x.pc = "done" /\ x.result = result /\ x.expired = {}
  BY <1>1, <1>2 DEF RunStates, JobStates, Results
<1>4. job' = [job EXCEPT ![j] = x]
  BY <1>1, <1>2 DEF Ends
<1>5. {<<"dump", j>>, <<"encrypted", j>>} \cap disk' = {}
  BY DEF Ends, Removed
<1>6. r.day <= today /\ x.day = r.day
  BY <1>1, <1>2 DEF BackupsInv, RunHolds, RunStates
<1>7. RunHolds(x, j, objects, today, disk')
  BY <1>3, <1>5, <1>6 DEF RunHolds
<1> QED
  BY <1>3, <1>4, <1>7

\* The end of a run takes files of its own only, if any are added they are too.
LEMMA OthersKeepFiles ==
    ASSUME NEW j \in Jobs, NEW result, NEW files, Ends(j, result, files),
           files \subseteq disk \cup {<<"torn dump", j>>, <<"torn encrypted", j>>}
    PROVE  \A i \in Jobs \ {j} : {<<"dump", i>>, <<"encrypted", i>>} \cap disk'
              \subseteq {<<"dump", i>>, <<"encrypted", i>>} \cap disk
<1>1. disk' = files \ Removed(j)
  BY DEF Ends
<1>2. ASSUME NEW i \in Jobs \ {j}
      PROVE  {<<"dump", i>>, <<"encrypted", i>>} \cap disk'
                \subseteq {<<"dump", i>>, <<"encrypted", i>>} \cap disk
  <2>1. ASSUME NEW y \in {<<"dump", i>>, <<"encrypted", i>>}, y \in disk'
        PROVE  y \in disk
    <3>1. y # <<"torn dump", j>> /\ y # <<"torn encrypted", j>>
      <4>1. y[1] = "dump" \/ y[1] = "encrypted"
        <5>1. y = <<"dump", i>> \/ y = <<"encrypted", i>>
          BY <2>1
        <5>2. <<"dump", i>>[1] = "dump" /\ <<"encrypted", i>>[1] = "encrypted"
          OBVIOUS
        <5> QED
          BY ONLY <5>1, <5>2, Zenon
      <4>2. <<"torn dump", j>>[1] = "torn dump" /\ <<"torn encrypted", j>>[1] = "torn encrypted"
        OBVIOUS
      <4> QED
        BY <4>1, <4>2
    <3> QED
      BY <1>1, <2>1, <3>1
  <2> QED
    BY <2>1
<1> QED
  BY <1>2

\* A failed run, with the files it may leave, an upload that arrived or not, and
\* a deletion of what is outlived, done in part.
LEMMA FailureKeeps ==
    ASSUME BackupsInv, NEW j \in Jobs, NEW files, Ends(j, "failure", files),
           files \subseteq disk \cup {<<"torn dump", j>>, <<"torn encrypted", j>>},
           today' = today, \A o \in store \ store' : today > o.day + Retention,
           store' \in SUBSET Object, IsFiniteSet(store')
    PROVE  BackupsInv'
<1>1. PICK x \in RunStates : job' = [job EXCEPT ![j] = x] /\ RunHolds(x, j, store', today, disk')
  BY FailedRunHolds
<1>2. \A i \in Jobs \ {j} : {<<"dump", i>>, <<"encrypted", i>>} \cap disk'
              \subseteq {<<"dump", i>>, <<"encrypted", i>>} \cap disk
  BY OthersKeepFiles
<1> QED
  BY <1>1, <1>2, RunMoves

\* An object that is uploaded.
LEMMA UploadedIs ==
    ASSUME BackupsInv, NEW o \in Object
    PROVE  store \cup {o} \in SUBSET Object /\ IsFiniteSet(store \cup {o})
<1>1. store \in SUBSET Object /\ IsFiniteSet(store)
  BY DEF BackupsInv, BackupTypes
<1> QED
  BY <1>1, FS_AddElement

\* A dump makes the file its run goes on with, or fails.
LEMMA DumpKeeps ==
    ASSUME BackupsInv, NEW j \in Jobs, Dump(j)
    PROVE  BackupsInv'
<1>1. BackupTypes /\ RunHolds(job[j], j, store, today, disk)
  BY DEF BackupsInv
<1>2. today' = today /\ store' = store /\ store' \in SUBSET Object /\ IsFiniteSet(store')
      /\ (\A o \in store \ store' : today > o.day + Retention) /\ job[j].pc = "idle"
  BY <1>1 DEF Dump, BackupTypes
<1>3. \/ Ends(j, "failure", disk \cup {<<"torn dump", j>>})
      \/ Ends(j, "failure", disk)
      \/ /\ job' = [job EXCEPT ![j].pc = "encrypt", ![j].opens = "password" \in configured]
         /\ disk' = disk \cup {<<"dump", j>>}
  BY DEF Dump
<1>4. CASE Ends(j, "failure", disk \cup {<<"torn dump", j>>})
  <2>1. disk \cup {<<"torn dump", j>>}
          \subseteq disk \cup {<<"torn dump", j>>, <<"torn encrypted", j>>}
    OBVIOUS
  <2> QED
    BY <1>2, <1>4, <2>1, FailureKeeps
<1>5. CASE Ends(j, "failure", disk)
  <2>1. disk \subseteq disk \cup {<<"torn dump", j>>, <<"torn encrypted", j>>}
    OBVIOUS
  <2> QED
    BY <1>2, <1>5, <2>1, FailureKeeps
<1>6. CASE /\ job' = [job EXCEPT ![j].pc = "encrypt", ![j].opens = "password" \in configured]
           /\ disk' = disk \cup {<<"dump", j>>}
  <2>1. PICK r \in RunStates : r = job[j]
    BY <1>1 DEF BackupTypes
  <2>0. PICK b \in BOOLEAN : b = ("password" \in configured)
    <3>1. ("password" \in configured) \in BOOLEAN
      OBVIOUS
    <3> QED
      BY <3>1, Zenon
  <2>2. PICK x : x = [[r EXCEPT !.pc = "encrypt"] EXCEPT !.opens = b]
    OBVIOUS
  <2>3. x \in RunStates /\ x.pc = "encrypt" /\ x.result = r.result /\ x.expired = r.expired
        /\ x.day = r.day
    BY <2>1, <2>2 DEF RunStates, JobStates
  <2>4. job' = [job EXCEPT ![j] = x]
    BY <1>6, <2>0, <2>1, <2>2
  <2>5. r.result = "none" /\ r.day <= today /\ \A o \in r.expired : today > o.day + Retention
    BY <1>1, <1>2, <2>1 DEF RunHolds
  <2>6. RunHolds(x, j, store', today, disk')
    BY <2>3, <2>5 DEF RunHolds
  <2>7. \A i \in Jobs \ {j} : {<<"dump", i>>, <<"encrypted", i>>} \cap disk'
              \subseteq {<<"dump", i>>, <<"encrypted", i>>} \cap disk
    BY <1>6
  <2>8. \A o \in store \ store' : today > o.day + Retention
    BY <1>2
  <2> QED
    BY <1>2, <2>3, <2>4, <2>6, <2>7, <2>8, RunMoves
<1> QED
  BY <1>3, <1>4, <1>5, <1>6

\* The cipher makes the file that is uploaded, or fails.
LEMMA EncryptKeeps ==
    ASSUME BackupsInv, NEW j \in Jobs, EncryptBackup(j)
    PROVE  BackupsInv'
<1>1. BackupTypes /\ RunHolds(job[j], j, store, today, disk)
  BY DEF BackupsInv
<1>2. today' = today /\ store' = store /\ store' \in SUBSET Object /\ IsFiniteSet(store')
      /\ (\A o \in store \ store' : today > o.day + Retention) /\ job[j].pc = "encrypt"
  BY <1>1 DEF EncryptBackup, BackupTypes
<1>3. \/ Ends(j, "failure", disk \cup {<<"torn encrypted", j>>})
      \/ Become(j, "upload") /\ disk' = disk \cup {<<"encrypted", j>>}
  BY DEF EncryptBackup
<1>4. CASE Ends(j, "failure", disk \cup {<<"torn encrypted", j>>})
  <2>1. disk \cup {<<"torn encrypted", j>>}
          \subseteq disk \cup {<<"torn dump", j>>, <<"torn encrypted", j>>}
    OBVIOUS
  <2> QED
    BY <1>2, <1>4, <2>1, FailureKeeps
<1>5. CASE Become(j, "upload") /\ disk' = disk \cup {<<"encrypted", j>>}
  <2>1. PICK r \in RunStates : r = job[j]
    BY <1>1 DEF BackupTypes
  <2>2. PICK x : x = [r EXCEPT !.pc = "upload"]
    OBVIOUS
  <2>3. x \in RunStates /\ x.pc = "upload" /\ x.result = r.result /\ x.expired = r.expired
        /\ x.day = r.day
    BY <2>1, <2>2 DEF RunStates, JobStates
  <2>4. job' = [job EXCEPT ![j] = x]
    BY <1>5, <2>1, <2>2 DEF Become
  <2>5. r.result = "none" /\ r.day <= today /\ \A o \in r.expired : today > o.day + Retention
    BY <1>1, <1>2, <2>1 DEF RunHolds
  <2>6. RunHolds(x, j, store', today, disk')
    BY <2>3, <2>5 DEF RunHolds
  <2>7. \A i \in Jobs \ {j} : {<<"dump", i>>, <<"encrypted", i>>} \cap disk'
              \subseteq {<<"dump", i>>, <<"encrypted", i>>} \cap disk
    BY <1>5
  <2>8. \A o \in store \ store' : today > o.day + Retention
    BY <1>2
  <2> QED
    BY <1>2, <2>3, <2>4, <2>6, <2>7, <2>8, RunMoves
<1> QED
  BY <1>3, <1>4, <1>5

\* What a run uploads is an object of that day.
LEMMA UploadedIsObject ==
    ASSUME BackupsInv, NEW j \in Jobs
    PROVE  Uploaded(j) \in Object /\ Uploaded(j).kind = "backup"
           /\ Uploaded(j).day = today /\ Uploaded(j).key \in Nat
<1>1. BackupTypes
  BY DEF BackupsInv
<1>2. Latest(store) + 1 \in Nat
  BY <1>1, LatestIsNat
<1> QED
  BY <1>1, <1>2 DEF BackupTypes, Uploaded, Object, ObjectKinds

\* What describes an upload is an object of that day, under its key.
LEMMA DescribedIsObject ==
    ASSUME BackupsInv, NEW j \in Jobs
    PROVE  Described(j) \in Object /\ Described(j).kind = "metadata"
           /\ Described(j).day = today /\ Described(j).key = job[j].key
<1>1. today \in 0 .. LastDay /\ job[j].key \in Nat
  BY DEF BackupsInv, BackupTypes, RunStates
<1> QED
  BY <1>1 DEF Described, Object, ObjectKinds

\* A call of the store that fails ends the run, its effect done or not.
LEMMA StoreFailureKeeps ==
    ASSUME BackupsInv, NEW j \in Jobs, StoreFails(j)
    PROVE  BackupsInv'
<1>1. today' = today /\ Ends(j, "failure", disk)
  BY DEF StoreFails
<1>2. /\ store \in SUBSET Object /\ IsFiniteSet(store)
      /\ \A o \in job[j].expired : today > o.day + Retention
  BY DEF BackupsInv, BackupTypes, RunHolds
<1>3. /\ store \cup {Uploaded(j)} \in SUBSET Object /\ IsFiniteSet(store \cup {Uploaded(j)})
      /\ store \cup {Described(j)} \in SUBSET Object /\ IsFiniteSet(store \cup {Described(j)})
  BY UploadedIsObject, DescribedIsObject, UploadedIs
<1>4. /\ \A o \in store \ store' : today > o.day + Retention
      /\ store' \in SUBSET Object /\ IsFiniteSet(store')
  <2>1. CASE store' \in {store, store \cup {Uploaded(j)}, store \cup {Described(j)}}
    BY <1>2, <1>3, <2>1
  <2>2. ASSUME NEW gone \in SUBSET job[j].expired, store' = store \ gone
        PROVE  /\ \A o \in store \ store' : today > o.day + Retention
               /\ store' \in SUBSET Object /\ IsFiniteSet(store')
    BY <1>2, <2>2, FS_Subset
  <2> QED
    BY <2>1, <2>2 DEF StoreFails
<1>5. disk \subseteq disk \cup {<<"torn dump", j>>, <<"torn encrypted", j>>}
  OBVIOUS
<1> QED
  BY <1>1, <1>4, <1>5, FailureKeeps

\* An uploaded backup is in the store from then on.
LEMMA UploadKeeps ==
    ASSUME BackupsInv, NEW j \in Jobs, UploadToS3(j)
    PROVE  BackupsInv'
<1>1. BackupTypes /\ RunHolds(job[j], j, store, today, disk)
  BY DEF BackupsInv
<1>2. today' = today /\ disk' = disk /\ job[j].pc = "upload" /\ store' = store \cup {Uploaded(j)}
  BY DEF UploadToS3
<1>3. PICK o \in Object : o = Uploaded(j) /\ o.kind = "backup" /\ o.day = today /\ o.key \in Nat
  BY UploadedIsObject
<1>4. store' \in SUBSET Object /\ IsFiniteSet(store')
  BY <1>2, <1>3, UploadedIs
<1>5. PICK r \in RunStates : r = job[j]
  BY <1>1 DEF BackupTypes
<1>6. PICK x : x = [[[r EXCEPT !.pc = "describe"] EXCEPT !.key = o.key] EXCEPT !.day = today]
  OBVIOUS
<1>7. x \in RunStates /\ x.pc = "describe" /\ x.result = r.result /\ x.expired = r.expired
      /\ x.key = o.key /\ x.day = today
  BY <1>1, <1>3, <1>5, <1>6 DEF RunStates, JobStates, BackupTypes
<1>8. job' = [job EXCEPT ![j] = x]
  BY <1>3, <1>5, <1>6 DEF UploadToS3
<1>9. r.result = "none" /\ \A e \in r.expired : today > e.day + Retention
  BY <1>1, <1>2, <1>5 DEF RunHolds
<1>10. Secured("backup", x, store', today) /\ x.day <= today
  <2>1. o \in store' /\ today >= today /\ today <= today
    BY <1>1, <1>2, <1>3 DEF BackupTypes
  <2> QED
    BY <1>3, <1>7, <2>1 DEF Secured
<1>11. {<<"dump", j>>, <<"encrypted", j>>} \cap disk' # {} => x.pc # "idle" /\ x.result = "none"
  BY <1>7, <1>9
<1>12. RunHolds(x, j, store', today, disk')
  BY <1>7, <1>9, <1>10, <1>11 DEF RunHolds
<1>13. \A i \in Jobs \ {j} : {<<"dump", i>>, <<"encrypted", i>>} \cap disk'
              \subseteq {<<"dump", i>>, <<"encrypted", i>>} \cap disk
  BY <1>2
<1>14. \A e \in store \ store' : today > e.day + Retention
  BY <1>2
<1> QED
  BY <1>2, <1>4, <1>7, <1>8, <1>12, <1>13, <1>14, RunMoves

\* What decrypts a backup is uploaded no earlier than the backup.
LEMMA DescribeKeeps ==
    ASSUME BackupsInv, NEW j \in Jobs, UploadMetadata(j)
    PROVE  BackupsInv'
<1>1. BackupTypes /\ RunHolds(job[j], j, store, today, disk)
  BY DEF BackupsInv
<1>2. PICK r \in RunStates : r = job[j]
  BY <1>1 DEF BackupTypes
<1>3. PICK o : o = [kind |-> "metadata", of |-> j, day |-> today, key |-> r.key]
  OBVIOUS
<1>4. o \in Object /\ o.kind = "metadata" /\ o.day = today /\ o.key = r.key
  BY <1>1, <1>2, <1>3 DEF Object, ObjectKinds, RunStates, BackupTypes
<1>5. today' = today /\ disk' = disk /\ r.pc = "describe" /\ store' = store \cup {o}
  BY <1>2, <1>3 DEF UploadMetadata, Described
<1>6. store' \in SUBSET Object /\ IsFiniteSet(store')
  BY <1>4, <1>5, UploadedIs
<1>7. PICK x : x = [r EXCEPT !.pc = "list"]
  OBVIOUS
<1>8. x \in RunStates /\ x.pc = "list" /\ x.result = r.result /\ x.expired = r.expired
      /\ x.key = r.key /\ x.day = r.day
  BY <1>2, <1>7 DEF RunStates, JobStates
<1>9. job' = [job EXCEPT ![j] = x]
  BY <1>2, <1>7 DEF UploadMetadata, Become
<1>10. r.result = "none" /\ r.day <= today /\ (\A e \in r.expired : today > e.day + Retention)
       /\ Secured("backup", r, store, today)
  BY <1>1, <1>2, <1>5 DEF RunHolds
<1>11. Secured("backup", x, store', today)
  BY <1>5, <1>8, <1>10 DEF Secured
<1>12. Secured("metadata", x, store', today)
  <2>1. today >= r.day
    BY <1>1, <1>2, <1>10 DEF RunStates, BackupTypes
  <2> QED
    BY <1>4, <1>5, <1>8, <2>1 DEF Secured
<1>13. {<<"dump", j>>, <<"encrypted", j>>} \cap disk' # {} => x.pc # "idle" /\ x.result = "none"
  BY <1>8, <1>10
<1>14. RunHolds(x, j, store', today, disk')
  BY <1>8, <1>10, <1>11, <1>12, <1>13 DEF RunHolds
<1>15. \A i \in Jobs \ {j} : {<<"dump", i>>, <<"encrypted", i>>} \cap disk'
              \subseteq {<<"dump", i>>, <<"encrypted", i>>} \cap disk
  BY <1>5
<1>16. \A e \in store \ store' : today > e.day + Retention
  BY <1>5
<1> QED
  BY <1>5, <1>6, <1>8, <1>9, <1>14, <1>15, <1>16, RunMoves

\* A run that succeeds: what it uploaded is secured, and its files are gone.
LEMMA SuccessHolds ==
    ASSUME BackupsInv, NEW j \in Jobs, job[j].pc \in {"list", "delete"},
           NEW files, Ends(j, "success", files), NEW s \in SUBSET Object,
           \A o \in store \ s : today > o.day + Retention
    PROVE  \E x \in RunStates : /\ job' = [job EXCEPT ![j] = x]
                                /\ RunHolds(x, j, s, today, disk')
<1>1. BackupTypes /\ RunHolds(job[j], j, store, today, disk)
  BY DEF BackupsInv
<1>2. PICK r \in RunStates : r = job[j]
  BY <1>1 DEF BackupTypes
<1>3. PICK x : x = [[[r EXCEPT !.pc = "done"] EXCEPT !.result = "success"] EXCEPT !.expired = {}]
  OBVIOUS
<1>4. x \in RunStates /\ x.pc = "done" /\ x.result = "success" /\ x.expired = {}
      /\ x.key = r.key /\ x.day = r.day
  BY <1>2, <1>3 DEF RunStates, JobStates, Results
<1>5. job' = [job EXCEPT ![j] = x]
  BY <1>2, <1>3 DEF Ends
<1>6. {<<"dump", j>>, <<"encrypted", j>>} \cap disk' = {}
  BY DEF Ends, Removed
<1>7. RunHolds(r, j, s, today, disk)
  <2>1. store \in SUBSET Object /\ today \in 0 .. LastDay /\ today <= today
    BY <1>1 DEF BackupTypes
  <2>2. {<<"dump", j>>, <<"encrypted", j>>} \cap disk
           \subseteq {<<"dump", j>>, <<"encrypted", j>>} \cap disk
    OBVIOUS
  <2>3. RunHolds(r, j, store, today, disk)
    BY <1>1, <1>2
  <2> QED
    BY <2>1, <2>2, <2>3, RunGoesOn
<1>8. Secured("backup", r, s, today) /\ Secured("metadata", r, s, today) /\ r.day <= today
  BY <1>2, <1>7 DEF RunHolds
<1>9. Secured("backup", x, s, today) /\ Secured("metadata", x, s, today)
  BY <1>4, <1>8 DEF Secured
<1>10. RunHolds(x, j, s, today, disk')
  BY <1>4, <1>6, <1>8, <1>9 DEF RunHolds
<1> QED
  BY <1>4, <1>5, <1>10

\* What a run lists as expired is outlived, and stays so.
LEMMA ListKeepsBackups ==
    ASSUME BackupsInv, NEW j \in Jobs, ListExpired(j)
    PROVE  BackupsInv'
<1>1. BackupTypes /\ RunHolds(job[j], j, store, today, disk)
  BY DEF BackupsInv
<1>2. today' = today /\ store' = store /\ store' \in SUBSET Object /\ IsFiniteSet(store')
      /\ job[j].pc = "list"
  BY <1>1 DEF ListExpired, BackupTypes
<1>3. \A o \in store \ store' : today > o.day + Retention
  BY <1>2
<1>4. CASE Expired(today) = {}
  <2>1. Ends(j, "success", disk)
    BY <1>4 DEF ListExpired
  <2>2. PICK x \in RunStates : job' = [job EXCEPT ![j] = x] /\ RunHolds(x, j, store', today, disk')
    BY <1>2, <1>3, <2>1, SuccessHolds
  <2>3. disk \subseteq disk \cup {<<"torn dump", j>>, <<"torn encrypted", j>>}
    OBVIOUS
  <2>4. \A i \in Jobs \ {j} : {<<"dump", i>>, <<"encrypted", i>>} \cap disk'
              \subseteq {<<"dump", i>>, <<"encrypted", i>>} \cap disk
    BY <2>1, <2>3, OthersKeepFiles
  <2> QED
    BY <1>2, <1>3, <2>2, <2>4, RunMoves
<1>5. CASE Expired(today) # {}
  <2>1. PICK r \in RunStates : r = job[j]
    BY <1>1 DEF BackupTypes
  <2>2. PICK S : S = Expired(today)
    OBVIOUS
  <2>3. S \in SUBSET Object /\ \A o \in S : today > o.day + Retention
    <3>1. today \in Int /\ Retention \in Int /\ \A o \in Object : o.day \in Int
      BY <1>1, BackupsAssumption DEF BackupTypes, Object
    <3>2. \A o \in S : o \in Object /\ o.day < today - Retention
      BY <1>1, <2>2 DEF Expired, BackupTypes
    <3> QED
      BY <3>1, <3>2
  <2>4. PICK x : x = [[r EXCEPT !.pc = "delete"] EXCEPT !.expired = S]
    OBVIOUS
  <2>5. x \in RunStates /\ x.pc = "delete" /\ x.result = r.result /\ x.expired = S
        /\ x.key = r.key /\ x.day = r.day
    BY <2>1, <2>3, <2>4 DEF RunStates, JobStates
  <2>6. job' = [job EXCEPT ![j] = x] /\ disk' = disk
    BY <1>5, <2>1, <2>2, <2>4 DEF ListExpired
  <2>7. r.result = "none" /\ r.day <= today /\ Secured("backup", r, store, today)
        /\ Secured("metadata", r, store, today)
    BY <1>1, <1>2, <2>1 DEF RunHolds
  <2>8. Secured("backup", x, store', today) /\ Secured("metadata", x, store', today)
    BY <1>2, <2>5, <2>7 DEF Secured
  <2>9. RunHolds(x, j, store', today, disk')
    BY <2>3, <2>5, <2>7, <2>8 DEF RunHolds
  <2>10. \A i \in Jobs \ {j} : {<<"dump", i>>, <<"encrypted", i>>} \cap disk'
              \subseteq {<<"dump", i>>, <<"encrypted", i>>} \cap disk
    BY <2>6
  <2> QED
    BY <1>2, <1>3, <2>5, <2>6, <2>9, <2>10, RunMoves
<1> QED
  BY <1>4, <1>5

\* A run deletes only what it has listed.
LEMMA DeleteKeeps ==
    ASSUME BackupsInv, NEW j \in Jobs, DeleteExpired(j)
    PROVE  BackupsInv'
<1>1. BackupTypes /\ RunHolds(job[j], j, store, today, disk)
  BY DEF BackupsInv
<1>2. PICK gone \in SUBSET job[j].expired :
        today' = today /\ store' = store \ gone /\ job[j].pc = "delete" /\ Ends(j, "success", disk)
  BY DEF DeleteExpired
<1>3. store' \in SUBSET Object /\ IsFiniteSet(store')
  BY <1>1, <1>2, FS_Subset DEF BackupTypes
<1>4. \A o \in store \ store' : today > o.day + Retention
  BY <1>1, <1>2 DEF RunHolds
<1>5. PICK x \in RunStates : job' = [job EXCEPT ![j] = x] /\ RunHolds(x, j, store', today, disk')
  BY <1>2, <1>3, <1>4, SuccessHolds
<1>6. disk \subseteq disk \cup {<<"torn dump", j>>, <<"torn encrypted", j>>}
  OBVIOUS
<1>7. \A i \in Jobs \ {j} : {<<"dump", i>>, <<"encrypted", i>>} \cap disk'
            \subseteq {<<"dump", i>>, <<"encrypted", i>>} \cap disk
  BY <1>2, <1>6, OthersKeepFiles
<1> QED
  BY <1>2, <1>3, <1>4, <1>5, <1>7, RunMoves

\* The files of the recovery tests are no dumps.
LEMMA TestFiles ==
    ASSUME NEW t \in Tests, disk' \subseteq disk \cup {<<"download", t>>, <<"decrypted", t>>}
    PROVE  \A j \in Jobs : {<<"dump", j>>, <<"encrypted", j>>} \cap disk'
              \subseteq {<<"dump", j>>, <<"encrypted", j>>} \cap disk
<1>1. ASSUME NEW j \in Jobs, NEW y \in {<<"dump", j>>, <<"encrypted", j>>}
      PROVE  y \notin {<<"download", t>>, <<"decrypted", t>>}
  <2>1. <<"dump", j>> # <<"download", t>> /\ <<"encrypted", j>> # <<"download", t>>
        /\ <<"dump", j>> # <<"decrypted", t>> /\ <<"encrypted", j>> # <<"decrypted", t>>
    BY Zenon
  <2> QED
    BY <2>1
<1> QED
  BY <1>1

\* When the process dies, runs end unanswered and nothing is deleted.
LEMMA ProcessEndsKeeps ==
    ASSUME BackupsInv, ProcessEnds, UNCHANGED <<today, store>>,
           \A j \in Jobs : {<<"dump", j>>, <<"encrypted", j>>} \cap disk'
              \subseteq {<<"dump", j>>, <<"encrypted", j>>} \cap disk
    PROVE  BackupsInv'
<1>1. BackupTypes /\ \A j \in Jobs : RunHolds(job[j], j, store, today, disk)
  BY DEF BackupsInv
<1>2. job' = [j \in Jobs |-> [Died(job[j]) EXCEPT !.expired = {}]]
  BY DEF ProcessEnds
<1>3. ASSUME NEW j \in Jobs
      PROVE  job'[j] \in RunStates /\ RunHolds(job'[j], j, store, today, disk)
  <2>1. PICK r \in RunStates : r = job[j]
    BY <1>1 DEF BackupTypes
  <2>2. PICK d : d = Died(r)
    OBVIOUS
  <2>3. /\ d \in RunStates /\ d.result = r.result /\ d.key = r.key /\ d.day = r.day
        /\ IF r.pc \in {"idle", "done"} THEN d.pc = r.pc ELSE d.pc = "done"
    BY <2>1, <2>2 DEF Died, RunStates, JobStates
  <2>4. PICK x : x = [d EXCEPT !.expired = {}]
    OBVIOUS
  <2>5. x \in RunStates /\ x.result = d.result /\ x.key = d.key /\ x.day = d.day
        /\ x.pc = d.pc /\ x.expired = {}
    BY <2>3, <2>4 DEF RunStates
  <2>6. job'[j] = x
    BY <1>2, <2>1, <2>2, <2>4
  <2>7. RunHolds(r, j, store, today, disk)
    BY <1>1, <2>1
  <2>8. Secured("backup", x, store, today) <=> Secured("backup", r, store, today)
    BY <2>3, <2>5 DEF Secured
  <2>9. Secured("metadata", x, store, today) <=> Secured("metadata", r, store, today)
    BY <2>3, <2>5 DEF Secured
  <2>10. RunHolds(x, j, store, today, disk)
    BY <2>3, <2>5, <2>7, <2>8, <2>9 DEF RunHolds
  <2> QED
    BY <2>5, <2>6, <2>10
<1>4. BackupTypes'
  BY <1>1, <1>2, <1>3 DEF BackupTypes
<1>5. \A j \in Jobs : RunHolds(job'[j], j, store, today, disk')
  BY <1>3 DEF RunHolds
<1> QED
  BY <1>4, <1>5 DEF BackupsInv

\* A day more outlives more.
LEMMA DayKeeps ==
    ASSUME BackupsInv, DayPasses
    PROVE  BackupsInv'
<1>1. BackupTypes /\ \A j \in Jobs : RunHolds(job[j], j, store, today, disk)
  BY DEF BackupsInv
<1>2. today' = today + 1 /\ today < LastDay /\ UNCHANGED <<job, store, disk>>
  BY DEF DayPasses
<1>3. today' \in 0 .. LastDay /\ today \in 0 .. LastDay /\ today <= today'
  BY <1>1, <1>2, BackupsAssumption DEF BackupTypes
<1>4. BackupTypes'
  BY <1>1, <1>2, <1>3 DEF BackupTypes
<1>5. ASSUME NEW j \in Jobs
      PROVE  RunHolds(job[j], j, store, today', disk)
  <2>1. job[j] \in RunStates /\ store \in SUBSET Object /\ RunHolds(job[j], j, store, today, disk)
        /\ \A o \in store \ store : today' > o.day + Retention
    BY <1>1 DEF BackupTypes
  <2>2. {<<"dump", j>>, <<"encrypted", j>>} \cap disk
           \subseteq {<<"dump", j>>, <<"encrypted", j>>} \cap disk
    OBVIOUS
  <2> QED
    BY <1>3, <2>1, <2>2, RunGoesOn
<1> QED
  BY <1>2, <1>4, <1>5 DEF BackupsInv

\* A recovery test touches no run, no object and no dump.
LEMMA TestKeeps ==
    ASSUME BackupsInv, NEW t \in Tests,
           \/ GetLatestBackup(t) \/ GetBackupMetadata(t) \/ DownloadBackup(t)
           \/ DecryptBackup(t) \/ DecryptFails(t)
    PROVE  BackupsInv'
<1>0. CASE DecryptBackup(t)
  <2>1. disk' \subseteq disk \cup {<<"download", t>>, <<"decrypted", t>>}
    BY <1>0 DEF DecryptBackup, Deciphered
  <2>2. ProcessEnds /\ UNCHANGED <<today, store>>
    BY <1>0 DEF DecryptBackup
  <2> QED
    BY <2>1, <2>2, TestFiles, ProcessEndsKeeps
<1>1. BackupTypes /\ \A j \in Jobs : RunHolds(job[j], j, store, today, disk)
  BY DEF BackupsInv
<1> SUFFICES ASSUME ~DecryptBackup(t) PROVE BackupsInv'
  BY <1>0
<1>2. UNCHANGED <<job, store, today>>
      /\ disk' \subseteq disk \cup {<<"download", t>>, <<"decrypted", t>>}
  BY DEF GetLatestBackup, GetBackupMetadata, DownloadBackup, DecryptFails, Deciphered
<1>3. \A j \in Jobs : {<<"dump", j>>, <<"encrypted", j>>} \cap disk'
         \subseteq {<<"dump", j>>, <<"encrypted", j>>} \cap disk
  BY <1>2, TestFiles
<1>4. \A j \in Jobs : RunHolds(job[j], j, store, today, disk')
  BY <1>1, <1>3 DEF RunHolds
<1>5. BackupTypes'
  BY <1>1, <1>2 DEF BackupTypes
<1> QED
  BY <1>2, <1>4, <1>5 DEF BackupsInv

\* Every step of the backups keeps the invariant.
LEMMA BackupsStep ==
    ASSUME BackupsInv, [BackupsNext]_backupsVars
    PROVE  BackupsInv'
<1>1. ASSUME NEW j \in Jobs,
             \/ Dump(j) \/ EncryptBackup(j) \/ StoreFails(j) \/ UploadToS3(j)
             \/ UploadMetadata(j) \/ ListExpired(j) \/ DeleteExpired(j)
      PROVE  BackupsInv'
  BY <1>1, DumpKeeps, EncryptKeeps, StoreFailureKeeps, UploadKeeps, DescribeKeeps,
     ListKeepsBackups, DeleteKeeps
<1>2. ASSUME NEW t \in Tests,
             \/ GetLatestBackup(t) \/ GetBackupMetadata(t) \/ DownloadBackup(t)
             \/ DecryptBackup(t) \/ DecryptFails(t)
      PROVE  BackupsInv'
  BY <1>2, TestKeeps
<1>3. CASE Crash
  <2>1. ProcessEnds /\ UNCHANGED <<today, store, disk>>
    BY <1>3 DEF Crash
  <2> QED
    BY <2>1, ProcessEndsKeeps
<1>4. CASE DayPasses
  BY <1>4, DayKeeps
<1>5. CASE UNCHANGED backupsVars
  BY <1>5 DEF backupsVars, BackupsInv, BackupTypes, RunHolds, Secured
<1> QED
  BY <1>1, <1>2, <1>3, <1>4, <1>5 DEF BackupsNext

\* There is nothing in the store at first.
LEMMA BackupsStart ==
    ASSUME BackupsInit
    PROVE  BackupsInv
<1>1. PICK x : x = [pc |-> "idle", result |-> "none", key |-> 0, opens |-> FALSE, day |-> 0,
                  expired |-> {}]
  OBVIOUS
<1>2. 0 \in 0 .. LastDay
  BY BackupsAssumption
<1>3. x \in RunStates /\ x.pc = "idle" /\ x.result = "none" /\ x.expired = {} /\ x.day = 0
  BY <1>1, <1>2 DEF RunStates, JobStates, Results
<1>4. job = [j \in Jobs |-> x] /\ today = 0 /\ store = {} /\ disk = {}
  BY <1>1 DEF BackupsInit
<1>5. BackupTypes
  BY <1>2, <1>3, <1>4, FS_EmptySet DEF BackupTypes
<1>6. \A j \in Jobs : RunHolds(x, j, store, today, disk)
  BY <1>3, <1>4 DEF RunHolds
<1> QED
  BY <1>4, <1>5, <1>6 DEF BackupsInv

\* What a test may have left in clear: it has ended in the decryption.
TestFields == {"pc", "result", "key", "opens"}

ClearHolds(t) ==
    /\ TestFields \subseteq DOMAIN test[t]
    /\ test[t].pc # "done" => test[t].result = "none" /\ <<"decrypted", t>> \notin disk
    /\ test[t].result # "success"
    /\ <<"decrypted", t>> \in disk => test[t].opens

ClearInv == DOMAIN test = Tests /\ \A t \in Tests : ClearHolds(t)

\* Where a test is not touched nor its file, what it may have left stays so.
LEMMA ClearSame ==
    ASSUME ClearInv, NEW t \in Tests, test'[t] = test[t],
           <<"decrypted", t>> \in disk' => <<"decrypted", t>> \in disk
    PROVE  ClearHolds(t)'
  BY DEF ClearInv, ClearHolds

\* The runs of the backup leave the tests and their files alone.
LEMMA RunsLeaveTests ==
    ASSUME ClearInv, NEW j \in Jobs,
           \/ Dump(j) \/ EncryptBackup(j) \/ StoreFails(j) \/ UploadToS3(j)
           \/ UploadMetadata(j) \/ ListExpired(j) \/ DeleteExpired(j)
    PROVE  ClearInv'
<1>1. /\ test' = test
      /\ disk' \subseteq disk \cup {<<"dump", j>>, <<"torn dump", j>>,
                                    <<"encrypted", j>>, <<"torn encrypted", j>>}
  BY DEF Dump, EncryptBackup, StoreFails, UploadToS3, UploadMetadata, ListExpired,
         DeleteExpired, Ends, Become
<1>2. ASSUME NEW t \in Tests
      PROVE  <<"decrypted", t>> \notin {<<"dump", j>>, <<"torn dump", j>>,
                                        <<"encrypted", j>>, <<"torn encrypted", j>>}
  <2>1. /\ <<"decrypted", t>> # <<"dump", j>> /\ <<"decrypted", t>> # <<"torn dump", j>>
        /\ <<"decrypted", t>> # <<"encrypted", j>>
        /\ <<"decrypted", t>> # <<"torn encrypted", j>>
    BY Zenon
  <2> QED
    BY <2>1
<1>3. \A t \in Tests : ClearHolds(t)'
  BY <1>1, <1>2, ClearSame
<1> QED
  BY <1>1, <1>3 DEF ClearInv

\* A test that is answered, or goes on, and puts no clear text on the disk.
LEMMA TestMoves ==
    ASSUME ClearInv, NEW t \in Tests, NEW r, test' = [test EXCEPT ![t] = r],
           \A u \in Tests \ {t} : <<"decrypted", u>> \in disk' => <<"decrypted", u>> \in disk,
           TestFields \subseteq DOMAIN r,
           r.pc # "done" => r.result = "none" /\ <<"decrypted", t>> \notin disk',
           r.result # "success", <<"decrypted", t>> \in disk' => r.opens
    PROVE  ClearInv'
<1>1. DOMAIN test = Tests /\ DOMAIN test' = Tests /\ test'[t] = r
      /\ \A u \in Tests \ {t} : test'[u] = test[u]
  BY DEF ClearInv
<1>2. ASSUME NEW u \in Tests PROVE ClearHolds(u)'
  <2>1. CASE u = t
    BY <1>1, <2>1 DEF ClearHolds
  <2>2. CASE u # t
    BY <1>1, <2>2, ClearSame
  <2> QED
    BY <2>1, <2>2
<1> QED
  BY <1>1, <1>2 DEF ClearInv

\* The file of one test is not that of another, nor what it has downloaded.
LEMMA ClearFiles ==
    ASSUME NEW t \in Tests, NEW u \in Tests
    PROVE  <<"decrypted", u>> # <<"download", t>>
           /\ (u # t => <<"decrypted", u>> # <<"decrypted", t>>)
<1>1. <<"decrypted", u>> # <<"download", t>>
  BY Zenon
<1>2. u # t => <<"decrypted", u>> # <<"decrypted", t>>
  BY Zenon
<1> QED
  BY <1>1, <1>2

\* When the process dies, tests that were at work end without an answer.
LEMMA ClearAtEnd ==
    ASSUME ClearInv, ProcessEnds, NEW t \in Tests,
           <<"decrypted", t>> \in disk' =>
             <<"decrypted", t>> \in disk \/ (test[t].opens /\ test[t].pc \notin {"idle", "done"})
    PROVE  ClearHolds(t)'
<1>1. test'[t] = Died(test[t]) /\ ClearHolds(t)
  BY DEF ProcessEnds, ClearInv
<1>2. PICK r : r = test[t]
  OBVIOUS
<1>3. PICK d : d = Died(r)
  OBVIOUS
<1>4. d = IF r.pc \in {"idle", "done"} THEN r ELSE [r EXCEPT !.pc = "done"]
  BY <1>3 DEF Died
<1> QED
  BY <1>1, <1>2, <1>3, <1>4 DEF ClearHolds, TestFields

\* A test that is not over has left nothing in clear, and moves on or is answered.
LEMMA TestsKeepClear ==
    ASSUME ClearInv, NEW t \in Tests,
           \/ GetLatestBackup(t) \/ GetBackupMetadata(t) \/ DownloadBackup(t)
           \/ DecryptBackup(t) \/ DecryptFails(t)
    PROVE  ClearInv'
<1>1. PICK r : r = test[t]
  OBVIOUS
<1>2. TestFields \subseteq DOMAIN r
      /\ (r.pc # "done" => r.result = "none" /\ <<"decrypted", t>> \notin disk)
  BY <1>1 DEF ClearInv, ClearHolds
<1>3. CASE GetLatestBackup(t) \/ GetBackupMetadata(t) \/ DownloadBackup(t)
  <2>1. r.pc # "done" /\ (disk' = disk \/ disk' = disk \cup {<<"download", t>>})
    BY <1>1, <1>3 DEF GetLatestBackup, GetBackupMetadata, DownloadBackup
  <2>2. \A u \in Tests : <<"decrypted", u>> \in disk' => <<"decrypted", u>> \in disk
    BY <2>1, ClearFiles
  <2>3. \/ test' = [test EXCEPT ![t] = [[r EXCEPT !.pc = "done"] EXCEPT !.result = "failure"]]
        \/ \E k : test' = [test EXCEPT ![t] = [[r EXCEPT !.pc = "metadata"] EXCEPT !.key = k]]
        \/ test' = [test EXCEPT ![t] = [r EXCEPT !.pc = "download"]]
        \/ \E o : test' = [test EXCEPT ![t] = [[r EXCEPT !.pc = "decrypt"] EXCEPT !.opens = o]]
    <3>1. CASE GetLatestBackup(t)
      BY <1>1, <3>1 DEF GetLatestBackup, Answered
    <3>2. CASE GetBackupMetadata(t)
      BY <1>1, <3>2 DEF GetBackupMetadata, Answered
    <3>3. CASE DownloadBackup(t)
      BY <1>1, <3>3 DEF DownloadBackup, Answered
    <3> QED
      BY <1>3, <3>1, <3>2, <3>3
  <2>4. PICK x : /\ test' = [test EXCEPT ![t] = x] /\ TestFields \subseteq DOMAIN x
                 /\ x.pc # "done" => x.result = "none"
                 /\ x.result # "success"
    <3> DEFINE Fits(x) == /\ test' = [test EXCEPT ![t] = x] /\ TestFields \subseteq DOMAIN x
                          /\ x.pc # "done" => x.result = "none"
                          /\ x.result # "success"
    <3>1. CASE test' = [test EXCEPT ![t] = [[r EXCEPT !.pc = "done"] EXCEPT !.result = "failure"]]
      <4>1. PICK x : x = [[r EXCEPT !.pc = "done"] EXCEPT !.result = "failure"]
        OBVIOUS
      <4>2. Fits(x)
        BY <1>2, <3>1, <4>1 DEF TestFields
      <4> QED
        BY <4>2
    <3>2. ASSUME NEW k, test' = [test EXCEPT ![t] = [[r EXCEPT !.pc = "metadata"] EXCEPT !.key = k]]
          PROVE  \E x : Fits(x)
      <4>1. PICK x : x = [[r EXCEPT !.pc = "metadata"] EXCEPT !.key = k]
        OBVIOUS
      <4>2. Fits(x)
        BY <1>2, <2>1, <3>2, <4>1 DEF TestFields
      <4> QED
        BY <4>2
    <3>3. CASE test' = [test EXCEPT ![t] = [r EXCEPT !.pc = "download"]]
      <4>1. PICK x : x = [r EXCEPT !.pc = "download"]
        OBVIOUS
      <4>2. Fits(x)
        BY <1>2, <2>1, <3>3, <4>1 DEF TestFields
      <4> QED
        BY <4>2
    <3>4. ASSUME NEW o, test' = [test EXCEPT ![t] = [[r EXCEPT !.pc = "decrypt"] EXCEPT !.opens = o]]
          PROVE  \E x : Fits(x)
      <4>1. PICK x : x = [[r EXCEPT !.pc = "decrypt"] EXCEPT !.opens = o]
        OBVIOUS
      <4>2. Fits(x)
        BY <1>2, <2>1, <3>4, <4>1 DEF TestFields
      <4> QED
        BY <4>2
    <3> QED
      BY <2>3, <3>1, <3>2, <3>3, <3>4
  <2> QED
    BY <1>2, <2>1, <2>2, <2>4, TestMoves
<1>4. CASE DecryptBackup(t)
  <2>1. /\ r.pc = "decrypt" /\ ProcessEnds
        /\ disk' = disk \/ (disk' = disk \cup {<<"decrypted", t>>} /\ r.opens)
    BY <1>1, <1>4 DEF DecryptBackup, Deciphered
  <2>2. ASSUME NEW u \in Tests PROVE ClearHolds(u)'
    <3>1. <<"decrypted", u>> \in disk' =>
            <<"decrypted", u>> \in disk \/ (test[u].opens /\ test[u].pc \notin {"idle", "done"})
      BY <1>1, <2>1, ClearFiles
    <3> QED
      BY <2>1, <3>1, ClearAtEnd
  <2> QED
    BY <2>1, <2>2 DEF ClearInv, ProcessEnds
<1>5. CASE DecryptFails(t)
  <2>1. /\ r.pc = "decrypt"
        /\ test' = [test EXCEPT ![t] = [[r EXCEPT !.pc = "done"] EXCEPT !.result = "failure"]]
        /\ disk' \subseteq disk \/ (disk' \subseteq disk \cup {<<"decrypted", t>>} /\ r.opens)
    BY <1>1, <1>5 DEF DecryptFails, Deciphered, Answered
  <2>2. PICK x : x = [[r EXCEPT !.pc = "done"] EXCEPT !.result = "failure"]
    OBVIOUS
  <2>3. /\ test' = [test EXCEPT ![t] = x] /\ TestFields \subseteq DOMAIN x
        /\ x.pc = "done" /\ x.result = "failure" /\ x.opens = r.opens
    BY <1>2, <2>1, <2>2 DEF TestFields
  <2>4. \A u \in Tests \ {t} : <<"decrypted", u>> \in disk' => <<"decrypted", u>> \in disk
    BY <2>1, ClearFiles
  <2>5. <<"decrypted", t>> \in disk' => x.opens
    BY <1>2, <2>1, <2>3
  <2> QED
    BY <2>3, <2>4, <2>5, TestMoves
<1> QED
  BY <1>3, <1>4, <1>5

\* Every step of backups and tests.
LEMMA ClearStep ==
    ASSUME ClearInv, [BackupsNext]_backupsVars
    PROVE  ClearInv'
<1>1. ASSUME NEW j \in Jobs,
             \/ Dump(j) \/ EncryptBackup(j) \/ StoreFails(j) \/ UploadToS3(j)
             \/ UploadMetadata(j) \/ ListExpired(j) \/ DeleteExpired(j)
      PROVE  ClearInv'
  BY <1>1, RunsLeaveTests
<1>2. ASSUME NEW t \in Tests,
             \/ GetLatestBackup(t) \/ GetBackupMetadata(t) \/ DownloadBackup(t)
             \/ DecryptBackup(t) \/ DecryptFails(t)
      PROVE  ClearInv'
  BY <1>2, TestsKeepClear
<1>3. CASE Crash
  <2>1. ProcessEnds /\ disk' = disk
    BY <1>3 DEF Crash
  <2>2. \A t \in Tests : ClearHolds(t)'
    BY <2>1, ClearAtEnd
  <2> QED
    BY <2>1, <2>2 DEF ClearInv, ProcessEnds
<1>4. CASE DayPasses \/ UNCHANGED backupsVars
  BY <1>4 DEF DayPasses, backupsVars, ClearInv, ClearHolds
<1> QED
  BY <1>1, <1>2, <1>3, <1>4 DEF BackupsNext

(* Whatever steps fail, whichever runs overlap and whenever the process dies:  *)
(* a backup reported as done is in the store with the iv and salt of its       *)
(* cipher until its retention is over, a complete dump is on disk only while   *)
(* its run goes on or after the process died in it, and a recovery test leaves *)
(* clear text only where the configured password opened a backup               *)
(* (backup-service.js, recovery-test-service.js).                              *)
THEOREM BackupsAlwaysHold == BackupsSpec => []BackupsHold
<1>1. BackupsInit => BackupsInv
  BY BackupsStart
<1>2. BackupsInv /\ [BackupsNext]_backupsVars => BackupsInv'
  BY BackupsStep
<1>3. BackupsInit => ClearInv
  BY DEF BackupsInit, ClearInv, ClearHolds, TestFields
<1>4. ClearInv /\ [BackupsNext]_backupsVars => ClearInv'
  BY ClearStep
<1>5. BackupsInv /\ ClearInv => BackupsHold
  <2> SUFFICES ASSUME BackupsInv, ClearInv PROVE BackupsHold
    OBVIOUS
  <2>1. \A j \in Jobs : RunHolds(job[j], j, store, today, disk)
    BY DEF BackupsInv
  <2>2. ASSUME NEW j \in Jobs, job[j].result = "success"
        PROVE  \/ \E o, m \in store :
                    o.kind = "backup" /\ m.kind = "metadata" /\ {o.key, m.key} = {job[j].key}
               \/ today > job[j].day + Retention
    <3>1. Secured("backup", job[j], store, today) /\ Secured("metadata", job[j], store, today)
      BY <2>1, <2>2 DEF RunHolds
    <3>2. CASE today > job[j].day + Retention
      BY <3>2
    <3>3. ASSUME NEW o \in store, NEW m \in store, o.kind = "backup", m.kind = "metadata",
                 o.key = job[j].key, m.key = job[j].key
          PROVE  \E p, q \in store :
                    p.kind = "backup" /\ q.kind = "metadata" /\ {p.key, q.key} = {job[j].key}
      <4>1. {o.key, m.key} = {job[j].key}
        BY <3>3
      <4> QED
        BY <3>3, <4>1
    <3> QED
      BY <3>1, <3>2, <3>3 DEF Secured
  <2>3. DumpsAreRemoved
    BY <2>1 DEF RunHolds, DumpsAreRemoved
  <2>4. OnlyOpenedIsClear
    BY DEF ClearInv, ClearHolds, OnlyOpenedIsClear
  <2> QED
    BY <2>2, <2>3, <2>4 DEF SuccessIsKept, BackupsHold
<1> QED
  BY <1>1, <1>2, <1>3, <1>4, <1>5, PTL DEF BackupsSpec

-----------------------------------------------------------------------------
(* The event indexer and the historical rebuild.  What the index may lack    *)
(* behind the live cursor is known; for that to be inductive it has to hold  *)
(* of every ledger up to the last one stored, as a restart takes the cursor  *)
(* from there, and of the pages on their way, which are what follows the     *)
(* cursors.                                                                  *)

\* The order of the network: by ledger, and by position within a ledger.
Precedes(d, e) == d[1] < e[1] \/ (d[1] = e[1] /\ d[2] < e[2])

\* The network only appends: no event is of a ledger not yet closed.
ChainInOrder ==
    /\ \A i, j \in DOMAIN chain : i < j => Precedes(chain[i], chain[j])
    /\ \A i \in DOMAIN chain : chain[i][1] <= tip

\* An event that is there, that the rebuild is inserting, or that the index
\* lacks on account of a known loss.
Known(e) ==
    \/ e \in stored \/ e[1] \in cut \/ e \in abandoned
    \/ e \in ToSet(rebuildPage)

\* What the live worker does not ask for again, now or after a restart, which
\* takes the cursor from the last ledger stored.
Passed(e) ==
    \/ worker = "up" /\ Behind(e)
    \/ \E f \in stored : e[1] <= f[1]

\* Whatever is passed is known or on its way.
PassedIsKnown ==
    \A e \in ToSet(chain) : Passed(e) => Known(e) \/ e \in ToSet(batch)

\* The page on its way is what follows the cursor.
BatchIsNext ==
    batch # <<>> =>
        /\ \A e \in ToSet(batch) : cursor < e[1] /\ e[1] <= Last(batch)[1]
        /\ \A e \in ToSet(chain) :
              cursor < e[1] /\ e[1] <= Last(batch)[1]
                  => e \in ToSet(batch) \/ e[1] \in cut

\* The pages a rebuild has passed are stored.
RebuiltIsStored == \A i \in 1 .. rebuildCursor : chain[i] \in stored

\* The rebuild's page on its way is what follows its cursor, and all of its
\* last ledger is stored, in it or in a ledger it may have cut.
RebuildIsNext ==
    rebuildPage # <<>> =>
        /\ rebuildCursor + Len(rebuildPage) <= Len(chain)
        /\ \A i \in 1 .. Len(rebuildPage) : rebuildPage[i] = chain[rebuildCursor + i]
        /\ \A e \in ToSet(rebuildPage) : e[1] <= Last(rebuildPage)[1]
        /\ \A e \in ToSet(chain) :
              e[1] <= Last(rebuildPage)[1]
                  => e \in stored \/ e[1] \in cut \/ e \in ToSet(rebuildPage)

IndexerTyped ==
    /\ chain \in Seq(ChainEvents) /\ tip \in 0 .. MaxLedger
    /\ stored \subseteq ToSet(chain)
    /\ worker \in {"up", "down"} /\ cursor \in 0 .. tip
    /\ processingBatch = (batch # <<>>) /\ (worker = "down" => batch = <<>>)
    /\ batch \in Seq(ChainEvents) /\ ToSet(batch) \subseteq ToSet(chain)
    /\ rebuild \in {"off", "running", "done"} /\ rebuildCursor \in 0 .. Len(chain)
    /\ rebuildPage \in Seq(ChainEvents) /\ ToSet(rebuildPage) \subseteq ToSet(chain)
    /\ rebuild # "running" => rebuildPage = <<>>
    /\ crashes \in 0 .. MaxCrashes

IndexerInv ==
    /\ IndexerTyped
    /\ ChainInOrder
    /\ PassedIsKnown
    /\ BatchIsNext
    /\ RebuiltIsStored
    /\ RebuildIsNext

-----------------------------------------------------------------------------
\* The pages of the network.

\* At most n events from the beginning of a sequence: n of them, or all.
LEMMA FirstOfIs ==
    ASSUME NEW S, NEW s \in Seq(S), NEW n \in Nat
    PROVE  /\ FirstOf(s, n) \in Seq(S)
           /\ Len(FirstOf(s, n)) <= n /\ Len(FirstOf(s, n)) <= Len(s)
           /\ Len(FirstOf(s, n)) = n \/ Len(FirstOf(s, n)) = Len(s)
           /\ \A i \in 1 .. Len(FirstOf(s, n)) : FirstOf(s, n)[i] = s[i]
<1>1. IsFiniteSet({n, Len(s)})
  <2>1. IsFiniteSet({n})
    BY FS_Singleton
  <2>2. IsFiniteSet({n} \cup {Len(s)})
    BY <2>1, FS_AddElement
  <2>3. {n} \cup {Len(s)} = {n, Len(s)}
    OBVIOUS
  <2> QED
    BY <2>2, <2>3
<1>2. PICK m : m = Min({n, Len(s)})
  OBVIOUS
<1>3. m \in {n, Len(s)} /\ \A y \in {n, Len(s)} : m <= y
  <2>1. PICK both : both = {n, Len(s)}
    OBVIOUS
  <2>2. both # {} /\ \A x \in both : x \in Int
    BY <2>1
  <2>3. Min(both) \in both /\ \A y \in both : Min(both) <= y
    BY <1>1, <2>1, <2>2, LeastOf
  <2> QED
    BY <1>2, <2>1, <2>3
<1>4. m \in Nat /\ m <= n /\ m <= Len(s) /\ (m = n \/ m = Len(s))
  BY <1>3
<1>5. FirstOf(s, n) = SubSeq(s, 1, m)
  BY <1>2 DEF FirstOf
<1> QED
  BY <1>4, <1>5

\* A page is what follows a position of the network, n events or all of them.
PageAt(page, c, n) ==
    /\ page \in Seq(ChainEvents) /\ c + Len(page) <= Len(chain)
    /\ Len(page) = n \/ c + Len(page) = Len(chain)
    /\ \A i \in 1 .. Len(page) : page[i] = chain[c + i]

LEMMA PageIs ==
    ASSUME chain \in Seq(ChainEvents), NEW c \in 0 .. Len(chain), NEW n \in Nat \ {0},
           NEW page, page = FirstOf(AfterCursor(c), n)
    PROVE  PageAt(page, c, n)
<1>1. /\ AfterCursor(c) \in Seq(ChainEvents) /\ Len(AfterCursor(c)) = Len(chain) - c
      /\ \A i \in 1 .. Len(chain) - c : AfterCursor(c)[i] = chain[c + i]
  BY DEF AfterCursor
<1>2. /\ page \in Seq(ChainEvents)
      /\ Len(page) <= n /\ Len(page) <= Len(AfterCursor(c))
      /\ Len(page) = n \/ Len(page) = Len(AfterCursor(c))
      /\ \A i \in 1 .. Len(page) : page[i] = AfterCursor(c)[i]
  BY <1>1, FirstOfIs
<1> QED
  BY <1>1, <1>2 DEF PageAt

\* The members of a page, and its last event.
PageHolds(page, c) ==
    /\ \A i \in c + 1 .. c + Len(page) : chain[i] \in ToSet(page)
    /\ \A e \in ToSet(page) : \E i \in c + 1 .. c + Len(page) : e = chain[i]
    /\ page # <<>> => Len(page) \in Nat \ {0} /\ Last(page) = chain[c + Len(page)]

LEMMA PageHas ==
    ASSUME chain \in Seq(ChainEvents), NEW c \in 0 .. Len(chain), NEW n \in Nat \ {0},
           NEW page, page = FirstOf(AfterCursor(c), n)
    PROVE  PageHolds(page, c)
<1>1. /\ page \in Seq(ChainEvents) /\ c + Len(page) <= Len(chain)
      /\ \A i \in 1 .. Len(page) : page[i] = chain[c + i]
  <2>1. PageAt(page, c, n)
    BY PageIs
  <2> QED
    BY <2>1 DEF PageAt
<1>2. ASSUME NEW i \in c + 1 .. c + Len(page) PROVE chain[i] \in ToSet(page)
  <2>1. i - c \in 1 .. Len(page) /\ chain[i] = page[i - c]
    BY <1>1
  <2> QED
    BY <1>1, <2>1 DEF ToSet
<1>3. ASSUME NEW e \in ToSet(page)
      PROVE  \E i \in c + 1 .. c + Len(page) : e = chain[i]
  <2>1. PICK j \in 1 .. Len(page) : e = page[j]
    BY <1>1 DEF ToSet
  <2>2. c + j \in c + 1 .. c + Len(page) /\ e = chain[c + j]
    BY <1>1, <2>1
  <2> QED
    BY <2>2
<1>4. ASSUME page # <<>>
      PROVE  Len(page) \in Nat \ {0} /\ Last(page) = chain[c + Len(page)]
  <2>1. Len(page) \in Nat \ {0}
    BY <1>1, <1>4
  <2> QED
    BY <1>1, <2>1 DEF Last
<1> QED
  BY <1>2, <1>3, <1>4 DEF PageHolds

\* Later events are of no earlier ledgers.
LEMMA LaterLedgers ==
    ASSUME chain \in Seq(ChainEvents), ChainInOrder,
           NEW i \in DOMAIN chain, NEW j \in DOMAIN chain, i <= j
    PROVE  chain[i][1] <= chain[j][1]
<1>1. chain[i] \in ChainEvents /\ chain[j] \in ChainEvents
  OBVIOUS
<1>2. chain[i][1] \in Nat /\ chain[j][1] \in Nat
  BY <1>1, IndexerAssumption DEF ChainEvents
<1>3. CASE i = j
  BY <1>2, <1>3
<1>4. CASE i < j
  BY <1>2, <1>4 DEF ChainInOrder, Precedes
<1> QED
  BY <1>3, <1>4

\* What a page's last ledger has is behind the page, in it, or in a ledger the
\* page cut.
LEMMA PageCuts ==
    ASSUME chain \in Seq(ChainEvents), ChainInOrder,
           NEW c \in 0 .. Len(chain), NEW n \in Nat \ {0},
           NEW page, page = FirstOf(AfterCursor(c), n), page # <<>>
    PROVE  /\ \A e \in ToSet(page) : e[1] <= Last(page)[1]
           /\ \A i \in DOMAIN chain :
                 chain[i][1] <= Last(page)[1]
                   => i <= c \/ chain[i] \in ToSet(page) \/ chain[i][1] \in CutBy(page, n)
<1>1. /\ page \in Seq(ChainEvents) /\ c + Len(page) <= Len(chain)
      /\ Len(page) = n \/ c + Len(page) = Len(chain)
  <2>1. PageAt(page, c, n)
    BY PageIs
  <2> QED
    BY <2>1 DEF PageAt
<1>2. /\ \A i \in c + 1 .. c + Len(page) : chain[i] \in ToSet(page)
      /\ \A e \in ToSet(page) : \E i \in c + 1 .. c + Len(page) : e = chain[i]
      /\ Len(page) \in Nat \ {0} /\ Last(page) = chain[c + Len(page)]
  <2>1. PageHolds(page, c)
    BY PageHas
  <2> QED
    BY <2>1 DEF PageHolds
<1>3. PICK l \in DOMAIN chain : l = c + Len(page)
  BY <1>1, <1>2
<1>4. ASSUME NEW e \in ToSet(page) PROVE e[1] <= Last(page)[1]
  <2>1. PICK i \in c + 1 .. c + Len(page) : e = chain[i]
    BY <1>2
  <2>2. i \in DOMAIN chain /\ i <= l
    BY <1>1, <1>3
  <2> QED
    BY <1>2, <1>3, <2>1, <2>2, LaterLedgers
<1>5. ASSUME NEW i \in DOMAIN chain, chain[i][1] <= Last(page)[1], i > c,
             chain[i] \notin ToSet(page)
      PROVE  chain[i][1] \in CutBy(page, n)
  <2>1. i > l
    BY <1>1, <1>2, <1>3, <1>5
  <2>2. Len(page) = n
    BY <1>1, <1>3, <2>1
  <2>3. chain[l][1] <= chain[i][1]
    BY <2>1, LaterLedgers
  <2>4. chain[i] \in ChainEvents /\ chain[l] \in ChainEvents
    OBVIOUS
  <2>5. chain[i][1] \in Nat /\ chain[l][1] \in Nat
    BY <2>4, IndexerAssumption DEF ChainEvents
  <2>6. Last(page) = chain[l]
    BY <1>2, <1>3
  <2>7. chain[i][1] = Last(page)[1]
    BY <1>5, <2>3, <2>5, <2>6
  <2> QED
    BY <2>2, <2>7 DEF CutBy
<1>6. ASSUME NEW i \in DOMAIN chain, chain[i][1] <= Last(page)[1]
      PROVE  i <= c \/ chain[i] \in ToSet(page) \/ chain[i][1] \in CutBy(page, n)
  BY <1>5, <1>6
<1> QED
  BY <1>4, <1>6

\* The position before a ledger divides the network at it.
LEMMA LedgerDivides ==
    ASSUME chain \in Seq(ChainEvents), ChainInOrder, NEW l \in Nat
    PROVE  /\ BeforeLedger(l) \in 0 .. Len(chain)
           /\ \A i \in DOMAIN chain : i <= BeforeLedger(l) => chain[i][1] < l
           /\ \A i \in DOMAIN chain : i > BeforeLedger(l) => chain[i][1] >= l
<1> DEFINE S == {i \in DOMAIN chain : chain[i][1] < l} \cup {0}
<1>1. IsFiniteSet(S)
  <2>1. IsFiniteSet(0 .. Len(chain))
    BY FS_Interval
  <2>2. S \subseteq 0 .. Len(chain)
    OBVIOUS
  <2> QED
    BY <2>1, <2>2, FS_Subset
<1>2. Max(S) \in S /\ \A y \in S : y <= Max(S)
  <2>1. S # {} /\ \A x \in S : x \in Int
    OBVIOUS
  <2> HIDE DEF S
  <2> QED
    BY <1>1, <2>1, GreatestOf
<1>3. PICK b : b = Max(S)
  OBVIOUS
<1>4. b = BeforeLedger(l)
  BY <1>3 DEF BeforeLedger
<1>5. b \in 0 .. Len(chain)
  BY <1>2, <1>3
<1>6. ASSUME NEW i \in DOMAIN chain, i <= b PROVE chain[i][1] < l
  <2>1. b \in DOMAIN chain /\ chain[b][1] < l
    BY <1>2, <1>3, <1>5, <1>6
  <2>2. chain[i][1] <= chain[b][1]
    BY <1>6, <2>1, LaterLedgers
  <2>3. chain[i] \in ChainEvents /\ chain[b] \in ChainEvents
    BY <2>1
  <2>4. chain[i][1] \in Nat /\ chain[b][1] \in Nat
    BY <2>3, IndexerAssumption DEF ChainEvents
  <2> QED
    BY <2>1, <2>2, <2>4
<1>7. ASSUME NEW i \in DOMAIN chain, i > b PROVE chain[i][1] >= l
  <2>1. i \notin S
    <3> HIDE DEF S
    <3> QED
      BY <1>2, <1>3, <1>5, <1>7
  <2>2. chain[i] \in ChainEvents
    OBVIOUS
  <2>3. chain[i][1] \in Nat
    BY <2>2, IndexerAssumption DEF ChainEvents
  <2> QED
    BY <2>1, <2>3
<1> QED
  BY <1>4, <1>5, <1>6, <1>7

\* An event of the network has a ledger, closed already, and a position in it.
LEMMA EventInChain ==
    ASSUME IndexerTyped, ChainInOrder, NEW e \in ToSet(chain)
    PROVE  /\ e \in ChainEvents /\ e[1] \in Nat /\ e[1] <= tip
           /\ \E i \in DOMAIN chain : e = chain[i]
<1>1. chain \in Seq(ChainEvents)
  BY DEF IndexerTyped
<1>2. PICK i \in DOMAIN chain : e = chain[i]
  BY DEF ToSet
<1>3. e \in ChainEvents
  BY <1>1, <1>2
<1>4. e[1] \in Nat
  BY <1>3, IndexerAssumption DEF ChainEvents
<1> QED
  BY <1>2, <1>3, <1>4 DEF ChainInOrder

-----------------------------------------------------------------------------
\* One lemma for each action.

\* A ledger closes: its events follow all others and are nobody's yet.
LEMMA CloseLedgerKeeps ==
    ASSUME IndexerInv, NEW n \in 0 .. PerLedger, CloseLedger(n)
    PROVE  IndexerInv'
<1>1. /\ IndexerTyped /\ ChainInOrder /\ PassedIsKnown /\ BatchIsNext
      /\ RebuiltIsStored /\ RebuildIsNext
  BY DEF IndexerInv
<1>2. /\ tip < MaxLedger /\ tip' = tip + 1
      /\ chain' = chain \o [i \in 1 .. n |-> <<tip + 1, i>>]
      /\ UNCHANGED <<stored, worker, cursor, processingBatch, batch>>
      /\ UNCHANGED <<rebuild, rebuildCursor, rebuildPage, crashes, cut, abandoned>>
  BY DEF CloseLedger, liveVars, rebuildVars, lossVars
<1>3. /\ chain \in Seq(ChainEvents) /\ tip \in Nat /\ MaxLedger \in Nat /\ PerLedger \in Nat
      /\ cursor \in 0 .. tip /\ stored \subseteq ToSet(chain) /\ batch \in Seq(ChainEvents)
      /\ ToSet(batch) \subseteq ToSet(chain) /\ rebuildCursor \in 0 .. Len(chain)
  BY <1>1, IndexerAssumption DEF IndexerTyped
<1> DEFINE closed == [i \in 1 .. n |-> <<tip + 1, i>>]
<1>4. closed \in Seq(ChainEvents) /\ Len(closed) = n
  <2>1. \A i \in 1 .. n : <<tip + 1, i>> \in ChainEvents
    BY <1>2, <1>3 DEF ChainEvents
  <2> QED
    BY <2>1
<1>5. \A i \in 1 .. n : closed[i] = <<tip + 1, i>>
  OBVIOUS
<1> HIDE DEF closed
<1>6. /\ chain' \in Seq(ChainEvents) /\ Len(chain') = Len(chain) + n
      /\ \A i \in 1 .. Len(chain) : chain'[i] = chain[i]
      /\ \A i \in Len(chain) + 1 .. Len(chain) + n : chain'[i] = closed[i - Len(chain)]
  BY <1>2, <1>3, <1>4 DEF closed
<1>7. \A i \in Len(chain) + 1 .. Len(chain) + n :
          chain'[i][1] = tip + 1 /\ chain'[i][2] = i - Len(chain)
  <2> SUFFICES ASSUME NEW i \in Len(chain) + 1 .. Len(chain) + n
               PROVE  chain'[i][1] = tip + 1 /\ chain'[i][2] = i - Len(chain)
    OBVIOUS
  <2>1. i - Len(chain) \in 1 .. n
    BY <1>3
  <2>2. chain'[i] = closed[i - Len(chain)]
    BY <1>6
  <2>3. closed[i - Len(chain)] = <<tip + 1, i - Len(chain)>>
    BY <2>1, <1>5
  <2> QED
    BY ONLY <2>2, <2>3
<1>8. ToSet(chain) \subseteq ToSet(chain')
  BY <1>3, <1>6 DEF ToSet
<1>9. \A e \in ToSet(chain') : e \in ToSet(chain) \/ e[1] = tip + 1
  <2> SUFFICES ASSUME NEW i \in DOMAIN chain'
               PROVE  chain'[i] \in ToSet(chain) \/ chain'[i][1] = tip + 1
    BY DEF ToSet
  <2>1. CASE i \in 1 .. Len(chain)
    BY <1>3, <1>6, <2>1 DEF ToSet
  <2>2. CASE i \in Len(chain) + 1 .. Len(chain) + n
    BY <1>7, <2>2
  <2> QED
    BY <1>3, <1>6, <2>1, <2>2
<1>10. \A e \in ToSet(chain) : e[1] \in Nat /\ e[1] <= tip
  BY <1>1, EventInChain
<1>11. IndexerTyped'
  <2>1. tip' \in 0 .. MaxLedger /\ cursor' \in 0 .. tip'
    BY <1>2, <1>3
  <2>2. rebuildCursor' \in 0 .. Len(chain')
    BY <1>2, <1>3, <1>6
  <2>3. stored' \subseteq ToSet(chain') /\ ToSet(batch') \subseteq ToSet(chain')
    BY <1>2, <1>3, <1>8
  <2>4. ToSet(rebuildPage) \subseteq ToSet(chain')
    BY <1>1, <1>8 DEF IndexerTyped
  <2> QED
    BY <1>1, <1>2, <1>6, <2>1, <2>2, <2>3, <2>4 DEF IndexerTyped
<1>12. ChainInOrder'
  <2>1. ASSUME NEW i \in DOMAIN chain' PROVE chain'[i][1] <= tip'
    <3>1. CASE i \in 1 .. Len(chain)
      <4>1. chain'[i] \in ToSet(chain)
        BY <1>3, <1>6, <3>1 DEF ToSet
      <4> QED
        BY <4>1, <1>2, <1>3, <1>10
    <3>2. CASE i \in Len(chain) + 1 .. Len(chain) + n
      BY <1>2, <1>3, <1>7, <3>2
    <3> QED
      BY <1>3, <1>6, <3>1, <3>2
  <2>2. ASSUME NEW i \in DOMAIN chain', NEW j \in DOMAIN chain', i < j
        PROVE  Precedes(chain'[i], chain'[j])
    <3>1. CASE j \in 1 .. Len(chain)
      <4>1. i \in 1 .. Len(chain)
        BY <1>3, <1>6, <2>2, <3>1
      <4> QED
        BY <1>1, <1>3, <1>6, <2>2, <3>1, <4>1 DEF ChainInOrder
    <3>2. CASE i \in 1 .. Len(chain) /\ j \in Len(chain) + 1 .. Len(chain) + n
      <4>1. chain'[i] \in ToSet(chain)
        <5>1. chain'[i] = chain[i] /\ i \in DOMAIN chain
          BY <1>3, <1>6, <3>2
        <5> QED
          BY <5>1 DEF ToSet
      <4>2. chain'[i][1] < chain'[j][1]
        <5>1. chain'[i][1] \in Nat /\ chain'[i][1] <= tip
          BY <4>1, <1>10
        <5>2. chain'[j][1] = tip + 1
          BY <1>7, <3>2
        <5> QED
          BY ONLY <1>3, <5>1, <5>2
      <4> QED
        BY <4>2 DEF Precedes
    <3>3. CASE i \in Len(chain) + 1 .. Len(chain) + n /\ j \in Len(chain) + 1 .. Len(chain) + n
      BY <1>3, <1>7, <2>2, <3>3 DEF Precedes
    <3> QED
      BY <1>3, <1>6, <2>2, <3>1, <3>2, <3>3
  <2> QED
    BY <2>1, <2>2 DEF ChainInOrder
<1>13. PassedIsKnown'
  <2> SUFFICES ASSUME NEW e \in ToSet(chain'), Passed(e)'
               PROVE  Known(e)' \/ e \in ToSet(batch')
    BY DEF PassedIsKnown
  <2>1. Passed(e)
    BY <1>2 DEF Passed, Behind
  <2>2. e[1] # tip + 1
    <3>1. CASE worker = "up" /\ Behind(e)
      BY <1>3, <3>1 DEF Behind
    <3>2. ASSUME NEW f \in stored, e[1] <= f[1] PROVE e[1] # tip + 1
      BY <1>3, <1>10, <3>2
    <3> QED
      BY <2>1, <3>1, <3>2 DEF Passed
  <2>3. Known(e) \/ e \in ToSet(batch)
    BY <1>1, <1>9, <2>1, <2>2 DEF PassedIsKnown
  <2> QED
    BY <2>3, <1>2 DEF Known
<1>14. BatchIsNext'
  <2> SUFFICES ASSUME batch # <<>>
               PROVE  /\ \A e \in ToSet(batch) : cursor < e[1] /\ e[1] <= Last(batch)[1]
                      /\ \A e \in ToSet(chain') :
                            cursor < e[1] /\ e[1] <= Last(batch)[1]
                              => e \in ToSet(batch) \/ e[1] \in cut
    BY <1>2 DEF BatchIsNext
  <2>1. Last(batch) \in ToSet(batch)
    BY <1>3 DEF Last, ToSet
  <2>2. Last(batch)[1] \in Nat /\ Last(batch)[1] <= tip
    BY <2>1, <1>3, <1>10
  <2>3. \A e \in ToSet(chain') : e[1] <= Last(batch)[1] => e \in ToSet(chain)
    BY <2>2, <1>3, <1>9
  <2> QED
    BY <1>1, <2>3 DEF BatchIsNext
<1>15. RebuiltIsStored'
  BY <1>1, <1>2, <1>3, <1>6 DEF RebuiltIsStored
<1>16. RebuildIsNext'
  <2> SUFFICES ASSUME rebuildPage # <<>>
               PROVE  /\ rebuildCursor + Len(rebuildPage) <= Len(chain')
                      /\ \A i \in 1 .. Len(rebuildPage) :
                            rebuildPage[i] = chain'[rebuildCursor + i]
                      /\ \A e \in ToSet(rebuildPage) : e[1] <= Last(rebuildPage)[1]
                      /\ \A e \in ToSet(chain') :
                            e[1] <= Last(rebuildPage)[1]
                                => e \in stored \/ e[1] \in cut \/ e \in ToSet(rebuildPage)
    BY <1>2 DEF RebuildIsNext
  <2>1. rebuildPage \in Seq(ChainEvents) /\ ToSet(rebuildPage) \subseteq ToSet(chain)
    BY <1>1 DEF IndexerTyped
  <2>2. Last(rebuildPage) \in ToSet(rebuildPage)
    BY <2>1 DEF Last, ToSet
  <2>3. Last(rebuildPage)[1] \in Nat /\ Last(rebuildPage)[1] <= tip
    BY <2>1, <2>2, <1>10
  <2>4. \A e \in ToSet(chain') : e[1] <= Last(rebuildPage)[1] => e \in ToSet(chain)
    BY <2>3, <1>3, <1>9
  <2>5. /\ rebuildCursor + Len(rebuildPage) <= Len(chain)
        /\ \A i \in 1 .. Len(rebuildPage) : rebuildPage[i] = chain[rebuildCursor + i]
    BY <1>1 DEF RebuildIsNext
  <2>6. rebuildCursor + Len(rebuildPage) <= Len(chain')
    BY <2>1, <2>5, <1>3, <1>6
  <2>7. ASSUME NEW i \in 1 .. Len(rebuildPage)
        PROVE  rebuildPage[i] = chain'[rebuildCursor + i]
    <3>1. rebuildCursor + i \in 1 .. Len(chain)
      BY <2>1, <2>5, <1>3
    <3> QED
      BY <2>5, <3>1, <1>6
  <2> QED
    BY <1>1, <2>4, <2>6, <2>7 DEF RebuildIsNext
<1> QED
  BY <1>11, <1>12, <1>13, <1>14, <1>15, <1>16 DEF IndexerInv

\* The worker starts: all up to its new cursor was passed by something stored.
LEMMA StartWorkerKeeps ==
    ASSUME IndexerInv, StartWorker
    PROVE  IndexerInv'
<1>1. /\ IndexerTyped /\ ChainInOrder /\ PassedIsKnown /\ BatchIsNext
      /\ RebuiltIsStored /\ RebuildIsNext
  BY DEF IndexerInv
<1>2. /\ worker = "down" /\ worker' = "up" /\ cursor' = LastIndexed(stored)
      /\ processingBatch' = FALSE /\ batch' = <<>>
      /\ UNCHANGED <<chain, tip, stored, rebuild, rebuildCursor, rebuildPage, crashes, cut, abandoned>>
  BY DEF StartWorker, rebuildVars, lossVars
<1>3. batch = <<>> /\ tip \in Nat /\ stored \subseteq ToSet(chain) /\ chain \in Seq(ChainEvents)
  BY <1>1, <1>2 DEF IndexerTyped
<1>4. \A e \in stored : e[1] \in Nat /\ e[1] <= tip
  BY <1>1, <1>3, EventInChain
<1>5. /\ cursor' \in 0 .. tip
      /\ stored = {} => cursor' = 0
      /\ stored # {} => \E f \in stored : cursor' = f[1]
  <2>1. CASE stored = {}
    BY <1>2, <1>3, <2>1 DEF LastIndexed
  <2>2. CASE stored # {}
    <3> DEFINE S == {e[1] : e \in stored}
    <3>1. S \subseteq 0 .. tip
      BY <1>3, <1>4
    <3>2. IsFiniteSet(0 .. tip)
      BY <1>3, FS_Interval
    <3>3. S # {} /\ \A x \in S : x \in Int
      BY <1>4, <2>2
    <3>4. cursor' = Max(S)
      BY <1>2, <2>2 DEF LastIndexed
    <3>5. Max(S) \in S
      <4> HIDE DEF S
      <4>1. IsFiniteSet(S)
        BY <3>1, <3>2, FS_Subset
      <4> QED
        BY <4>1, <3>3, GreatestOf
    <3> QED
      BY <2>2, <3>1, <3>4, <3>5
  <2> QED
    BY <2>1, <2>2
<1>6. IndexerTyped'
  <2>1. ToSet(batch') = {} /\ batch' \in Seq(ChainEvents)
    BY <1>2 DEF ToSet
  <2> QED
    BY <1>1, <1>2, <1>5, <2>1 DEF IndexerTyped
<1>7. ChainInOrder'
  BY <1>1, <1>2 DEF ChainInOrder
<1>8. PassedIsKnown'
  <2> SUFFICES ASSUME NEW e \in ToSet(chain), Passed(e)'
               PROVE  Known(e)
    BY <1>2 DEF PassedIsKnown, Known
  <2>1. e[1] \in Nat /\ e \in ChainEvents
    BY <1>1, EventInChain
  <2>2. \E f \in stored : e[1] <= f[1]
    <3>1. CASE e[1] <= cursor'
      <4>1. e[1] # 0
        BY <2>1, IndexerAssumption DEF ChainEvents
      <4> QED
        BY <1>5, <2>1, <3>1, <4>1
    <3>2. CASE \E f \in stored : e[1] <= f[1]
      BY <3>2
    <3> QED
      BY <1>2, <3>1, <3>2 DEF Passed, Behind
  <2>3. Passed(e)
    BY <2>2 DEF Passed
  <2>4. e \notin ToSet(batch)
    BY <1>3 DEF ToSet
  <2> QED
    BY <1>1, <2>3, <2>4 DEF PassedIsKnown
<1>9. BatchIsNext' /\ RebuiltIsStored' /\ RebuildIsNext'
  BY <1>1, <1>2 DEF BatchIsNext, RebuiltIsStored, RebuildIsNext
<1> QED
  BY <1>6, <1>7, <1>8, <1>9 DEF IndexerInv

\* The worker is killed: what it had fetched is abandoned, so still known.
LEMMA KillWorkerKeeps ==
    ASSUME IndexerInv, KillWorker
    PROVE  IndexerInv'
<1>1. /\ IndexerTyped /\ ChainInOrder /\ PassedIsKnown /\ BatchIsNext
      /\ RebuiltIsStored /\ RebuildIsNext
  BY DEF IndexerInv
<1>2. /\ worker' = "down" /\ crashes < MaxCrashes /\ crashes' = crashes + 1
      /\ abandoned' = abandoned \cup ToSet(batch)
      /\ processingBatch' = FALSE /\ batch' = <<>>
      /\ UNCHANGED <<chain, tip, stored, cursor, rebuild, rebuildCursor, rebuildPage, cut>>
  BY DEF KillWorker, rebuildVars
<1>3. IndexerTyped'
  <2>1. ToSet(batch') = {} /\ batch' \in Seq(ChainEvents)
    BY <1>2 DEF ToSet
  <2>2. crashes' \in 0 .. MaxCrashes
    BY <1>1, <1>2, IndexerAssumption DEF IndexerTyped
  <2> QED
    BY <1>1, <1>2, <2>1, <2>2 DEF IndexerTyped
<1>4. PassedIsKnown'
  BY <1>1, <1>2 DEF PassedIsKnown, Passed, Known
<1>5. ChainInOrder' /\ BatchIsNext' /\ RebuiltIsStored' /\ RebuildIsNext'
  BY <1>1, <1>2 DEF ChainInOrder, BatchIsNext, RebuiltIsStored, RebuildIsNext
<1> QED
  BY <1>3, <1>4, <1>5 DEF IndexerInv

\* A page is fetched, or none: it is what follows the cursor, up to a ledger it
\* may have cut.
LEMMA FetchKeeps ==
    ASSUME IndexerInv, NEW answered \in BOOLEAN, Fetch(answered)
    PROVE  IndexerInv'
<1>1. /\ IndexerTyped /\ ChainInOrder /\ PassedIsKnown /\ BatchIsNext
      /\ RebuiltIsStored /\ RebuildIsNext
  BY DEF IndexerInv
<1>2. PICK page :
        /\ page = IF answered
                  THEN FirstOf(AfterCursor(BeforeLedger(StartLedger(cursor))), BatchSize)
                  ELSE <<>>
        /\ worker = "up" /\ ~processingBatch /\ batch' = page
        /\ processingBatch' = (page # <<>>)
        /\ cut' = CutBy(page, BatchSize)
        /\ UNCHANGED <<chain, tip, stored, worker, cursor, rebuild, rebuildCursor, rebuildPage>>
        /\ UNCHANGED <<crashes, abandoned>>
  BY DEF Fetch, BusyAfter, rebuildVars
<1>3. /\ batch = <<>> /\ cursor \in Nat /\ chain \in Seq(ChainEvents)
      /\ BatchSize \in Nat \ {0}
  <2>1. processingBatch = (batch # <<>>)
    BY <1>1 DEF IndexerTyped
  <2>2. batch = <<>>
    BY <1>2, <2>1, Zenon
  <2> QED
    BY <1>1, <2>2, IndexerAssumption DEF IndexerTyped
<1>4. cut \subseteq cut'
  BY <1>2 DEF CutBy
<1>5. PICK b : b = BeforeLedger(StartLedger(cursor))
  OBVIOUS
<1>6. /\ b \in 0 .. Len(chain)
      /\ \A i \in DOMAIN chain : i <= b => chain[i][1] < cursor + 1
      /\ \A i \in DOMAIN chain : i > b => chain[i][1] >= cursor + 1
  <2>1. cursor + 1 \in Nat /\ StartLedger(cursor) = cursor + 1
    BY <1>3 DEF StartLedger
  <2> QED
    BY <1>1, <1>3, <1>5, <2>1, LedgerDivides
<1>7. /\ page \in Seq(ChainEvents) /\ ToSet(page) \subseteq ToSet(chain)
      /\ \A e \in ToSet(page) : cursor < e[1]
  <2>1. CASE answered
    <3>1. page = FirstOf(AfterCursor(b), BatchSize)
      BY <1>2, <1>5, <2>1
    <3>p. PageAt(page, b, BatchSize)
      BY <3>1, <1>3, <1>6, PageIs
    <3>2. page \in Seq(ChainEvents) /\ b + Len(page) <= Len(chain)
      BY <3>p DEF PageAt
    <3>3. \A e \in ToSet(page) : \E i \in b + 1 .. b + Len(page) : e = chain[i]
      <4> SUFFICES ASSUME NEW j \in DOMAIN page
                   PROVE  \E i \in b + 1 .. b + Len(page) : page[j] = chain[i]
        BY DEF ToSet
      <4>1. \A i \in 1 .. Len(page) : page[i] = chain[b + i]
        BY <3>p DEF PageAt
      <4>2. j \in 1 .. Len(page) /\ b \in Nat
        BY <3>2, <1>6
      <4>3. b + j \in b + 1 .. b + Len(page)
        BY <4>2
      <4>4. page[j] = chain[b + j]
        BY <4>1, <4>2
      <4> QED
        BY <4>3, <4>4
    <3>4. \A i \in b + 1 .. b + Len(page) :
              i \in DOMAIN chain /\ i > b /\ chain[i] \in ToSet(chain)
      BY <3>2, <1>3, <1>6 DEF ToSet
    <3>5. \A i \in b + 1 .. b + Len(page) : cursor < chain[i][1]
      <4> SUFFICES ASSUME NEW i \in b + 1 .. b + Len(page) PROVE cursor < chain[i][1]
        OBVIOUS
      <4>1. chain[i] \in ToSet(chain) /\ chain[i][1] >= cursor + 1
        BY <1>6, <3>4
      <4>2. chain[i][1] \in Nat
        BY <1>1, <4>1, EventInChain
      <4> QED
        BY <4>1, <4>2, <1>3
    <3> QED
      BY <3>2, <3>3, <3>4, <3>5
  <2>2. CASE ~answered
    BY <1>2, <2>2 DEF ToSet
  <2> QED
    BY <2>1, <2>2
<1>8. IndexerTyped'
  BY <1>1, <1>2, <1>7 DEF IndexerTyped
<1>9. ChainInOrder' /\ RebuiltIsStored' /\ RebuildIsNext'
  BY <1>1, <1>2, <1>4 DEF ChainInOrder, RebuiltIsStored, RebuildIsNext
<1>10. PassedIsKnown'
  <2> SUFFICES ASSUME NEW e \in ToSet(chain), Passed(e)'
               PROVE  Known(e)'
    BY <1>2 DEF PassedIsKnown
  <2>1. Passed(e)
    BY <1>2 DEF Passed, Behind
  <2>2. e \notin ToSet(batch)
    BY <1>3 DEF ToSet
  <2>3. Known(e)
    BY <1>1, <2>1, <2>2 DEF PassedIsKnown
  <2> QED
    BY <2>3, <1>2, <1>4 DEF Known
<1>11. BatchIsNext'
  <2> SUFFICES ASSUME page # <<>>
               PROVE  /\ \A e \in ToSet(page) : cursor < e[1] /\ e[1] <= Last(page)[1]
                      /\ \A e \in ToSet(chain) :
                            cursor < e[1] /\ e[1] <= Last(page)[1]
                              => e \in ToSet(page) \/ e[1] \in cut'
    BY <1>2 DEF BatchIsNext
  <2>1. page = FirstOf(AfterCursor(b), BatchSize)
    BY <1>2, <1>5
  <2>2. \A e \in ToSet(page) : e[1] <= Last(page)[1]
    BY <1>1, <1>3, <1>6, <2>1, PageCuts
  <2>3. \A i \in DOMAIN chain :
            chain[i][1] <= Last(page)[1]
              => i <= b \/ chain[i] \in ToSet(page) \/ chain[i][1] \in CutBy(page, BatchSize)
    BY <1>1, <1>3, <1>6, <2>1, PageCuts
  <2>4. ASSUME NEW e \in ToSet(chain), cursor < e[1], e[1] <= Last(page)[1]
        PROVE  e \in ToSet(page) \/ e[1] \in cut'
    <3>1. PICK i \in DOMAIN chain : e = chain[i]
      BY DEF ToSet
    <3>2. e[1] \in Nat
      BY <1>1, EventInChain
    <3>3. ~ (i <= b)
      BY <1>3, <1>6, <2>4, <3>1, <3>2
    <3> QED
      BY <1>2, <2>3, <2>4, <3>1, <3>3
  <2> QED
    BY <1>7, <2>2, <2>4
<1> QED
  BY <1>8, <1>9, <1>10, <1>11 DEF IndexerInv

\* A document of the insertMany arrives: all of its ledger is known or on its
\* way with it.
LEMMA InsertOneKeeps ==
    ASSUME IndexerInv, NEW d \in ChainEvents, InsertOne(d)
    PROVE  IndexerInv'
<1>1. /\ IndexerTyped /\ ChainInOrder /\ PassedIsKnown /\ BatchIsNext
      /\ RebuiltIsStored /\ RebuildIsNext
  BY DEF IndexerInv
<1>2. /\ d \in ToSet(batch) /\ stored' = stored \cup {d}
      /\ UNCHANGED <<chain, tip, worker, cursor, processingBatch, batch>>
      /\ UNCHANGED <<rebuild, rebuildCursor, rebuildPage, crashes, cut, abandoned>>
  BY DEF InsertOne, liveVars, rebuildVars, lossVars
<1>3. /\ batch # <<>> /\ d \in ToSet(chain) /\ cursor \in Nat
      /\ worker = "up" /\ batch \in Seq(ChainEvents) /\ ToSet(batch) \subseteq ToSet(chain)
  <2>1. batch # <<>>
    BY <1>2 DEF ToSet
  <2> QED
    BY <1>1, <1>2, <2>1 DEF IndexerTyped
<1>4. Last(batch)[1] \in Nat /\ d[1] \in Nat /\ d[1] <= Last(batch)[1]
  <2>1. Last(batch) \in ToSet(batch)
    BY <1>3 DEF Last, ToSet
  <2>2. Last(batch)[1] \in Nat /\ d[1] \in Nat
    BY <2>1, <1>1, <1>3, EventInChain
  <2> QED
    BY <2>2, <1>1, <1>2, <1>3 DEF BatchIsNext
<1>5. IndexerTyped'
  BY <1>1, <1>2, <1>3 DEF IndexerTyped
<1>6. ChainInOrder' /\ BatchIsNext' /\ RebuiltIsStored' /\ RebuildIsNext'
  BY <1>1, <1>2 DEF ChainInOrder, BatchIsNext, RebuiltIsStored, RebuildIsNext
<1>7. PassedIsKnown'
  <2> SUFFICES ASSUME NEW e \in ToSet(chain), Passed(e)'
               PROVE  Known(e)' \/ e \in ToSet(batch)
    BY <1>2 DEF PassedIsKnown
  <2>1. e[1] \in Nat
    BY <1>1, EventInChain
  <2>2. CASE Passed(e)
    <3>1. Known(e) \/ e \in ToSet(batch)
      BY <1>1, <2>2 DEF PassedIsKnown
    <3> QED
      BY <3>1, <1>2 DEF Known
  <2>3. CASE ~Passed(e)
    <3>1. e[1] <= d[1] /\ ~ (worker = "up" /\ e[1] <= cursor)
      BY <1>2, <2>3 DEF Passed, Behind
    <3>2. cursor < e[1] /\ e[1] <= Last(batch)[1]
      BY <3>1, <1>3, <1>4, <2>1
    <3>3. e \in ToSet(batch) \/ e[1] \in cut
      BY <1>1, <1>3, <3>2 DEF BatchIsNext
    <3> QED
      BY <3>3, <1>2 DEF Known
  <2> QED
    BY <2>2, <2>3
<1> QED
  BY <1>5, <1>6, <1>7 DEF IndexerInv

\* The cursor moves on to the page's last ledger, all of which is known by now.
LEMMA InsertedKeeps ==
    ASSUME IndexerInv, Inserted
    PROVE  IndexerInv'
<1>1. /\ IndexerTyped /\ ChainInOrder /\ PassedIsKnown /\ BatchIsNext
      /\ RebuiltIsStored /\ RebuildIsNext
  BY DEF IndexerInv
<1>2. /\ batch # <<>> /\ ToSet(batch) \subseteq stored /\ cursor' = Last(batch)[1]
      /\ batch' = <<>> /\ processingBatch' = FALSE
      /\ UNCHANGED <<chain, tip, stored, worker, rebuild, rebuildCursor, rebuildPage>>
      /\ UNCHANGED <<crashes, cut, abandoned>>
  BY DEF Inserted, BusyAfter, rebuildVars, lossVars
<1>3. /\ cursor \in Nat /\ tip \in Nat /\ worker = "up"
      /\ batch \in Seq(ChainEvents) /\ ToSet(batch) \subseteq ToSet(chain)
  BY <1>1, <1>2 DEF IndexerTyped
<1>4. Last(batch)[1] \in Nat /\ Last(batch)[1] <= tip
  <2>1. Last(batch) \in ToSet(batch)
    BY <1>2, <1>3 DEF Last, ToSet
  <2> QED
    BY <2>1, <1>1, <1>3, EventInChain
<1>5. IndexerTyped'
  <2>1. ToSet(batch') = {} /\ batch' \in Seq(ChainEvents)
    BY <1>2 DEF ToSet
  <2>2. cursor' \in 0 .. tip
    BY <1>2, <1>3, <1>4
  <2> QED
    BY <1>1, <1>2, <2>1, <2>2 DEF IndexerTyped
<1>6. ChainInOrder' /\ BatchIsNext' /\ RebuiltIsStored' /\ RebuildIsNext'
  BY <1>1, <1>2 DEF ChainInOrder, BatchIsNext, RebuiltIsStored, RebuildIsNext
<1>7. PassedIsKnown'
  <2> SUFFICES ASSUME NEW e \in ToSet(chain), Passed(e)'
               PROVE  Known(e)
    BY <1>2 DEF PassedIsKnown, Known
  <2>1. e[1] \in Nat
    BY <1>1, EventInChain
  <2>2. CASE Passed(e)
    <3>1. Known(e) \/ e \in ToSet(batch)
      BY <1>1, <2>2 DEF PassedIsKnown
    <3> QED
      BY <3>1, <1>2 DEF Known
  <2>3. CASE ~Passed(e)
    <3>1. cursor < e[1] /\ e[1] <= Last(batch)[1]
      BY <1>2, <1>3, <2>1, <2>3 DEF Passed, Behind
    <3>2. e \in ToSet(batch) \/ e[1] \in cut
      BY <1>1, <1>2, <3>1 DEF BatchIsNext
    <3> QED
      BY <3>2, <1>2 DEF Known
  <2> QED
    BY <2>2, <2>3
<1> QED
  BY <1>5, <1>6, <1>7 DEF IndexerInv

\* The insertMany fails: what of the page is not stored is abandoned.
LEMMA InsertFailsKeeps ==
    ASSUME IndexerInv, InsertFails
    PROVE  IndexerInv'
<1>1. /\ IndexerTyped /\ ChainInOrder /\ PassedIsKnown /\ BatchIsNext
      /\ RebuiltIsStored /\ RebuildIsNext
  BY DEF IndexerInv
<1>2. /\ batch' = <<>> /\ processingBatch' = FALSE
      /\ abandoned' = abandoned \cup (ToSet(batch) \ stored)
      /\ UNCHANGED <<chain, tip, stored, worker, cursor, rebuild, rebuildCursor, rebuildPage>>
      /\ UNCHANGED <<crashes, cut>>
  BY DEF InsertFails, BusyAfter, rebuildVars
<1>3. IndexerTyped'
  <2>1. ToSet(batch') = {} /\ batch' \in Seq(ChainEvents)
    BY <1>2 DEF ToSet
  <2> QED
    BY <1>1, <1>2, <2>1 DEF IndexerTyped
<1>4. PassedIsKnown'
  BY <1>1, <1>2 DEF PassedIsKnown, Passed, Behind, Known
<1>5. ChainInOrder' /\ BatchIsNext' /\ RebuiltIsStored' /\ RebuildIsNext'
  BY <1>1, <1>2 DEF ChainInOrder, BatchIsNext, RebuiltIsStored, RebuildIsNext
<1> QED
  BY <1>3, <1>4, <1>5 DEF IndexerInv

\* The rebuild starts, with no page on its way.
LEMMA StartRebuildKeeps ==
    ASSUME IndexerInv, StartRebuild
    PROVE  IndexerInv'
<1>1. /\ IndexerTyped /\ ChainInOrder /\ PassedIsKnown /\ BatchIsNext
      /\ RebuiltIsStored /\ RebuildIsNext
  BY DEF IndexerInv
<1>2. /\ rebuild = "off" /\ rebuild' = "running" /\ rebuildCursor' = 0
      /\ UNCHANGED <<chain, tip, stored, worker, cursor, processingBatch, batch>>
      /\ UNCHANGED <<rebuildPage, crashes, cut, abandoned>>
  BY DEF StartRebuild, liveVars, lossVars
<1>3. rebuildPage = <<>> /\ chain \in Seq(ChainEvents)
  BY <1>1, <1>2 DEF IndexerTyped
<1>4. IndexerTyped'
  BY <1>1, <1>2, <1>3 DEF IndexerTyped
<1>5. ChainInOrder' /\ BatchIsNext' /\ RebuiltIsStored' /\ RebuildIsNext'
  BY <1>1, <1>2, <1>3 DEF ChainInOrder, BatchIsNext, RebuiltIsStored, RebuildIsNext
<1>6. PassedIsKnown'
  BY <1>1, <1>2 DEF PassedIsKnown, Passed, Behind, Known
<1> QED
  BY <1>4, <1>5, <1>6 DEF IndexerInv

\* The rebuild has a page: it follows what the rebuild has stored.
LEMMA RebuildFetchKeeps ==
    ASSUME IndexerInv, RebuildFetch
    PROVE  IndexerInv'
<1>1. /\ IndexerTyped /\ ChainInOrder /\ PassedIsKnown /\ BatchIsNext
      /\ RebuiltIsStored /\ RebuildIsNext
  BY DEF IndexerInv
<1>2. PICK page :
        /\ page = FirstOf(AfterCursor(rebuildCursor), RebuildSize) /\ page # <<>>
        /\ rebuild = "running" /\ rebuildPage = <<>> /\ rebuildPage' = page
        /\ cut' = CutBy(page, RebuildSize)
        /\ UNCHANGED <<chain, tip, stored, worker, cursor, processingBatch, batch>>
        /\ UNCHANGED <<rebuild, rebuildCursor, crashes, abandoned>>
  BY DEF RebuildFetch, liveVars
<1>3. /\ chain \in Seq(ChainEvents) /\ rebuildCursor \in 0 .. Len(chain)
      /\ RebuildSize \in Nat \ {0}
  BY <1>1, IndexerAssumption DEF IndexerTyped
<1>4. cut \subseteq cut'
  BY <1>2 DEF CutBy
<1>5. /\ page \in Seq(ChainEvents) /\ rebuildCursor + Len(page) <= Len(chain)
      /\ \A i \in 1 .. Len(page) : page[i] = chain[rebuildCursor + i]
  <2>1. PageAt(page, rebuildCursor, RebuildSize)
    BY <1>2, <1>3, PageIs
  <2> QED
    BY <2>1 DEF PageAt
<1>6. ToSet(page) \subseteq ToSet(chain)
  <2> SUFFICES ASSUME NEW j \in DOMAIN page PROVE page[j] \in ToSet(chain)
    BY DEF ToSet
  <2>1. j \in 1 .. Len(page)
    BY <1>5
  <2>2. rebuildCursor + j \in DOMAIN chain /\ page[j] = chain[rebuildCursor + j]
    BY <1>3, <1>5, <2>1
  <2> QED
    BY <2>2 DEF ToSet
<1>7. IndexerTyped'
  BY <1>1, <1>2, <1>5, <1>6 DEF IndexerTyped
<1>8. ChainInOrder' /\ RebuiltIsStored'
  BY <1>1, <1>2 DEF ChainInOrder, RebuiltIsStored
<1>9. BatchIsNext'
  BY <1>1, <1>2, <1>4 DEF BatchIsNext
<1>10. PassedIsKnown'
  <2> SUFFICES ASSUME NEW e \in ToSet(chain), Passed(e)'
               PROVE  Known(e)' \/ e \in ToSet(batch)
    BY <1>2 DEF PassedIsKnown
  <2>1. Passed(e)
    BY <1>2 DEF Passed, Behind
  <2>2. Known(e) \/ e \in ToSet(batch)
    BY <1>1, <2>1 DEF PassedIsKnown
  <2>3. e \notin ToSet(rebuildPage)
    BY <1>2 DEF ToSet
  <2> QED
    BY <1>2, <1>4, <2>2, <2>3 DEF Known
<1>11. RebuildIsNext'
  <2>1. \A e \in ToSet(page) : e[1] <= Last(page)[1]
    BY <1>1, <1>2, <1>3, PageCuts
  <2>2. \A i \in DOMAIN chain :
            chain[i][1] <= Last(page)[1]
              => i <= rebuildCursor \/ chain[i] \in ToSet(page)
                   \/ chain[i][1] \in CutBy(page, RebuildSize)
    BY <1>1, <1>2, <1>3, PageCuts
  <2>3. ASSUME NEW e \in ToSet(chain), e[1] <= Last(page)[1]
        PROVE  e \in stored \/ e[1] \in cut' \/ e \in ToSet(page)
    <3>1. PICK i \in DOMAIN chain : e = chain[i]
      BY DEF ToSet
    <3>2. i <= rebuildCursor => e \in stored
      BY <1>1, <1>3, <3>1 DEF RebuiltIsStored
    <3> QED
      BY <1>2, <2>2, <2>3, <3>1, <3>2
  <2> QED
    BY <1>2, <1>5, <2>1, <2>3 DEF RebuildIsNext
<1> QED
  BY <1>7, <1>8, <1>9, <1>10, <1>11 DEF IndexerInv

\* A document of the rebuild's page arrives: all of its ledger is stored, in a
\* cut ledger or on its way with it.
LEMMA RebuildOneKeeps ==
    ASSUME IndexerInv, NEW d \in ChainEvents, RebuildOne(d)
    PROVE  IndexerInv'
<1>1. /\ IndexerTyped /\ ChainInOrder /\ PassedIsKnown /\ BatchIsNext
      /\ RebuiltIsStored /\ RebuildIsNext
  BY DEF IndexerInv
<1>2. /\ d \in ToSet(rebuildPage) /\ stored' = stored \cup {d}
      /\ UNCHANGED <<chain, tip, worker, cursor, processingBatch, batch>>
      /\ UNCHANGED <<rebuild, rebuildCursor, rebuildPage, crashes, cut, abandoned>>
  BY DEF RebuildOne, liveVars, rebuildVars, lossVars
<1>3. /\ rebuildPage # <<>> /\ d \in ToSet(chain)
      /\ rebuildPage \in Seq(ChainEvents) /\ ToSet(rebuildPage) \subseteq ToSet(chain)
  <2>1. rebuildPage # <<>>
    BY <1>2 DEF ToSet
  <2> QED
    BY <1>1, <1>2, <2>1 DEF IndexerTyped
<1>4. Last(rebuildPage)[1] \in Nat /\ d[1] \in Nat /\ d[1] <= Last(rebuildPage)[1]
  <2>1. Last(rebuildPage) \in ToSet(rebuildPage)
    BY <1>3 DEF Last, ToSet
  <2>2. Last(rebuildPage)[1] \in Nat /\ d[1] \in Nat
    BY <2>1, <1>1, <1>3, EventInChain
  <2> QED
    BY <2>2, <1>1, <1>2, <1>3 DEF RebuildIsNext
<1>5. IndexerTyped'
  BY <1>1, <1>2, <1>3 DEF IndexerTyped
<1>6. ChainInOrder' /\ BatchIsNext' /\ RebuiltIsStored'
  BY <1>1, <1>2 DEF ChainInOrder, BatchIsNext, RebuiltIsStored
<1>7. RebuildIsNext'
  BY <1>1, <1>2 DEF RebuildIsNext
<1>8. PassedIsKnown'
  <2> SUFFICES ASSUME NEW e \in ToSet(chain), Passed(e)'
               PROVE  Known(e)' \/ e \in ToSet(batch)
    BY <1>2 DEF PassedIsKnown
  <2>1. e[1] \in Nat
    BY <1>1, EventInChain
  <2>2. CASE Passed(e)
    <3>1. Known(e) \/ e \in ToSet(batch)
      BY <1>1, <2>2 DEF PassedIsKnown
    <3> QED
      BY <3>1, <1>2 DEF Known
  <2>3. CASE ~Passed(e)
    <3>1. e[1] <= d[1]
      BY <1>2, <2>3 DEF Passed, Behind
    <3>2. e[1] <= Last(rebuildPage)[1]
      BY <3>1, <1>4, <2>1
    <3>3. e \in stored \/ e[1] \in cut \/ e \in ToSet(rebuildPage)
      BY <1>1, <1>3, <3>2 DEF RebuildIsNext
    <3> QED
      BY <3>3, <1>2 DEF Known
  <2> QED
    BY <2>2, <2>3
<1> QED
  BY <1>5, <1>6, <1>7, <1>8 DEF IndexerInv

\* The rebuild's page is stored whole, and its last event found again.
LEMMA RebuildInsertedKeeps ==
    ASSUME IndexerInv, RebuildInserted
    PROVE  IndexerInv'
<1>1. /\ IndexerTyped /\ ChainInOrder /\ PassedIsKnown /\ BatchIsNext
      /\ RebuiltIsStored /\ RebuildIsNext
  BY DEF IndexerInv
<1>2. PICK page :
        /\ page = rebuildPage /\ page # <<>> /\ ToSet(page) \subseteq stored
        /\ rebuildCursor' = CHOOSE i \in DOMAIN chain : chain[i] = Last(page)
        /\ rebuildPage' = <<>>
        /\ UNCHANGED <<chain, tip, stored, worker, cursor, processingBatch, batch, rebuild>>
        /\ UNCHANGED <<crashes, cut, abandoned>>
  BY DEF RebuildInserted, liveVars, lossVars
<1>3. /\ chain \in Seq(ChainEvents) /\ rebuildCursor \in 0 .. Len(chain)
      /\ page \in Seq(ChainEvents)
  BY <1>1, <1>2 DEF IndexerTyped
<1>4. /\ rebuildCursor + Len(page) <= Len(chain)
      /\ \A i \in 1 .. Len(page) : page[i] = chain[rebuildCursor + i]
  BY <1>1, <1>2 DEF RebuildIsNext
<1>5. rebuildCursor' = rebuildCursor + Len(page)
  <2>1. PICK l \in DOMAIN chain : l = rebuildCursor + Len(page)
    BY <1>2, <1>3, <1>4
  <2>2. Last(page) = chain[l]
    BY <1>2, <1>3, <1>4, <2>1 DEF Last
  <2>3. PICK i : i = rebuildCursor' /\ i \in DOMAIN chain /\ chain[i] = chain[l]
    BY <1>2, <2>2
  <2>4. ~ Precedes(chain[i], chain[i])
    <3>1. chain[i] \in ChainEvents
      BY <1>3, <2>3
    <3>2. chain[i][1] \in Nat /\ chain[i][2] \in Nat
      BY <3>1, IndexerAssumption DEF ChainEvents
    <3> QED
      BY <3>2 DEF Precedes
  <2>5. ~ (i < l) /\ ~ (l < i)
    BY <1>1, <2>3, <2>4 DEF ChainInOrder
  <2> QED
    BY <1>3, <2>1, <2>3, <2>5
<1>6. RebuiltIsStored'
  <2> SUFFICES ASSUME NEW i \in 1 .. rebuildCursor + Len(page)
               PROVE  chain[i] \in stored
    BY <1>2, <1>5 DEF RebuiltIsStored
  <2>1. CASE i <= rebuildCursor
    BY <1>1, <1>3, <2>1 DEF RebuiltIsStored
  <2>2. CASE i > rebuildCursor
    <3>1. i - rebuildCursor \in DOMAIN page /\ page[i - rebuildCursor] = chain[i]
      BY <1>3, <1>4, <2>2
    <3> QED
      BY <3>1, <1>2 DEF ToSet
  <2> QED
    BY <1>3, <1>4, <2>1, <2>2
<1>7. IndexerTyped'
  <2>1. rebuildCursor' \in 0 .. Len(chain)
    BY <1>3, <1>4, <1>5
  <2>2. ToSet(rebuildPage') = {} /\ rebuildPage' \in Seq(ChainEvents)
    BY <1>2 DEF ToSet
  <2> QED
    BY <1>1, <1>2, <2>1, <2>2 DEF IndexerTyped
<1>8. PassedIsKnown'
  <2> SUFFICES ASSUME NEW e \in ToSet(chain), Passed(e)'
               PROVE  Known(e)' \/ e \in ToSet(batch)
    BY <1>2 DEF PassedIsKnown
  <2>1. Passed(e)
    BY <1>2 DEF Passed, Behind
  <2>2. Known(e) \/ e \in ToSet(batch)
    BY <1>1, <2>1 DEF PassedIsKnown
  <2> QED
    BY <1>2, <2>2 DEF Known
<1>9. ChainInOrder' /\ BatchIsNext' /\ RebuildIsNext'
  BY <1>1, <1>2 DEF ChainInOrder, BatchIsNext, RebuildIsNext
<1> QED
  BY <1>6, <1>7, <1>8, <1>9 DEF IndexerInv

\* The rebuild's page is given up: what of it is not stored is abandoned.
LEMMA RebuildAbandonsKeeps ==
    ASSUME IndexerInv, RebuildFails \/ KillRebuild
    PROVE  IndexerInv'
<1>1. /\ IndexerTyped /\ ChainInOrder /\ PassedIsKnown /\ BatchIsNext
      /\ RebuiltIsStored /\ RebuildIsNext
  BY DEF IndexerInv
<1>2. /\ rebuildPage' = <<>> /\ rebuild' \in {rebuild, "off"}
      /\ abandoned' = abandoned \cup (ToSet(rebuildPage) \ stored)
      /\ UNCHANGED <<chain, tip, stored, worker, cursor, processingBatch, batch>>
      /\ UNCHANGED <<rebuildCursor, crashes, cut>>
  BY DEF RebuildFails, KillRebuild, RebuildAbandons, liveVars
<1>3. IndexerTyped'
  <2>1. ToSet(rebuildPage') = {} /\ rebuildPage' \in Seq(ChainEvents)
    BY <1>2 DEF ToSet
  <2> QED
    BY <1>1, <1>2, <2>1 DEF IndexerTyped
<1>4. PassedIsKnown'
  BY <1>1, <1>2 DEF PassedIsKnown, Passed, Behind, Known
<1>5. ChainInOrder' /\ BatchIsNext' /\ RebuiltIsStored' /\ RebuildIsNext'
  BY <1>1, <1>2 DEF ChainInOrder, BatchIsNext, RebuiltIsStored, RebuildIsNext
<1> QED
  BY <1>3, <1>4, <1>5 DEF IndexerInv

\* Every step, and every stutter, keeps the invariant.
LEMMA IndexerStep ==
    ASSUME IndexerInv, [IndexerNext]_indexerVars
    PROVE  IndexerInv'
<1>1. CASE IndexerNext
  <2>1. ASSUME RebuildEnds PROVE IndexerInv'
    <3>1. /\ UNCHANGED <<chain, tip, stored, worker, cursor, processingBatch, batch>>
          /\ UNCHANGED <<rebuildCursor, rebuildPage, crashes, cut, abandoned>>
          /\ rebuild' = "done" /\ rebuildPage = <<>>
      BY <2>1 DEF RebuildEnds, liveVars, lossVars
    <3>2. /\ IndexerTyped /\ ChainInOrder /\ PassedIsKnown /\ BatchIsNext
          /\ RebuiltIsStored /\ RebuildIsNext
      BY DEF IndexerInv
    <3>3. IndexerTyped'
      BY <3>1, <3>2 DEF IndexerTyped
    <3>4. ChainInOrder' /\ BatchIsNext' /\ RebuiltIsStored' /\ RebuildIsNext'
      BY <3>1, <3>2 DEF ChainInOrder, BatchIsNext, RebuiltIsStored, RebuildIsNext
    <3>5. PassedIsKnown'
      BY <3>1, <3>2 DEF PassedIsKnown, Passed, Behind, Known
    <3> QED
      BY <3>3, <3>4, <3>5 DEF IndexerInv
  <2>2. ASSUME \E n \in 0 .. PerLedger : CloseLedger(n) PROVE IndexerInv'
    BY <2>2, CloseLedgerKeeps
  <2>3. ASSUME \E answered \in BOOLEAN : Fetch(answered) PROVE IndexerInv'
    BY <2>3, FetchKeeps
  <2>4. ASSUME \E e \in ChainEvents : InsertOne(e) PROVE IndexerInv'
    BY <2>4, InsertOneKeeps
  <2>5. ASSUME \E e \in ChainEvents : RebuildOne(e) PROVE IndexerInv'
    BY <2>5, RebuildOneKeeps
  <2>6. ASSUME RebuildFails \/ KillRebuild PROVE IndexerInv'
    BY <2>6, RebuildAbandonsKeeps
  <2> QED
    BY <1>1, <2>1, <2>2, <2>3, <2>4, <2>5, <2>6, StartWorkerKeeps, KillWorkerKeeps,
       InsertedKeeps, InsertFailsKeeps, StartRebuildKeeps, RebuildFetchKeeps,
       RebuildInsertedKeeps DEF IndexerNext
<1>2. CASE UNCHANGED indexerVars
  <2>1. /\ UNCHANGED <<chain, tip, stored, worker, cursor, processingBatch, batch>>
        /\ UNCHANGED <<rebuild, rebuildCursor, rebuildPage, crashes, cut, abandoned>>
    BY <1>2 DEF indexerVars, liveVars, rebuildVars, lossVars
  <2>2. /\ IndexerTyped /\ ChainInOrder /\ PassedIsKnown /\ BatchIsNext
        /\ RebuiltIsStored /\ RebuildIsNext
    BY DEF IndexerInv
  <2>3. IndexerTyped' /\ ChainInOrder' /\ BatchIsNext' /\ RebuiltIsStored' /\ RebuildIsNext'
    BY <2>1, <2>2 DEF IndexerTyped, ChainInOrder, BatchIsNext, RebuiltIsStored, RebuildIsNext
  <2>4. PassedIsKnown'
    BY <2>1, <2>2 DEF PassedIsKnown, Passed, Behind, Known
  <2> QED
    BY <2>3, <2>4 DEF IndexerInv
<1> QED
  BY <1>1, <1>2

\* Whatever the node, the database and the worker fail at, and whatever pages
\* they use: the live index lacks only what a cut ledger or an abandoned batch
\* cost it and what a rebuild is just inserting, and a finished rebuild lacks
\* nothing (event-indexer.js:18-109, historical-indexer-worker.js:31-88).
THEOREM IndexAlwaysHolds == IndexerSpec => []IndexHolds
<1>1. IndexerInit => IndexerInv
  <2> SUFFICES ASSUME IndexerInit PROVE IndexerInv
    OBVIOUS
  <2>1. /\ chain = <<>> /\ tip = 0 /\ stored = {} /\ worker = "down" /\ cursor = 0
        /\ processingBatch = FALSE /\ batch = <<>> /\ rebuild = "off"
        /\ rebuildCursor = 0 /\ rebuildPage = <<>> /\ crashes = 0 /\ cut = {} /\ abandoned = {}
    BY DEF IndexerInit
  <2>2. ToSet(chain) = {} /\ ToSet(batch) = {} /\ ToSet(rebuildPage) = {} /\ Len(chain) = 0 /\ DOMAIN chain = {}
    BY <2>1 DEF ToSet
  <2>3. IndexerTyped
    <3>1. /\ chain \in Seq(ChainEvents) /\ batch \in Seq(ChainEvents)
          /\ rebuildPage \in Seq(ChainEvents)
          /\ tip \in 0 .. MaxLedger /\ cursor \in 0 .. tip
          /\ rebuildCursor \in 0 .. Len(chain) /\ crashes \in 0 .. MaxCrashes
      BY <2>1, <2>2, IndexerAssumption
    <3>2. processingBatch = (batch # <<>>)
      BY <2>1
    <3> QED
      BY <2>1, <2>2, <3>1, <3>2 DEF IndexerTyped
  <2>4. ChainInOrder /\ PassedIsKnown /\ BatchIsNext /\ RebuiltIsStored /\ RebuildIsNext
    BY <2>1, <2>2 DEF ChainInOrder, PassedIsKnown, BatchIsNext, RebuiltIsStored, RebuildIsNext
  <2> QED
    BY <2>3, <2>4 DEF IndexerInv
<1>2. IndexerInv /\ [IndexerNext]_indexerVars => IndexerInv'
  BY IndexerStep
<1>3. IndexerInv => IndexHolds
  <2> SUFFICES ASSUME IndexerInv PROVE IndexHolds
    OBVIOUS
  <2>1. /\ IndexerTyped /\ ChainInOrder /\ PassedIsKnown /\ BatchIsNext
        /\ RebuiltIsStored /\ RebuildIsNext
    BY DEF IndexerInv
  <2>2. RebuildIsComplete
    BY <2>1 DEF RebuiltIsStored, RebuildIsComplete
  <2>3. LossesAreKnown
    <3> SUFFICES ASSUME NEW e \in ToSet(chain), worker = "up", Behind(e)
                 PROVE  Known(e)
      BY DEF LossesAreKnown, Known
    <3>1. Known(e) \/ e \in ToSet(batch)
      BY <2>1 DEF PassedIsKnown, Passed
    <3>2. e \notin ToSet(batch)
      <4> SUFFICES ASSUME e \in ToSet(batch) PROVE FALSE
        OBVIOUS
      <4>1. batch # <<>>
        BY DEF ToSet
      <4>2. cursor < e[1] /\ e[1] <= cursor
        BY <2>1, <4>1 DEF BatchIsNext, Behind
      <4>3. e[1] \in Nat /\ cursor \in Nat
        BY <2>1, EventInChain DEF IndexerTyped
      <4> QED
        BY <4>2, <4>3
    <3> QED
      BY <3>1, <3>2
  <2> QED
    BY <2>2, <2>3 DEF IndexHolds
<1> QED
  BY <1>1, <1>2, <1>3, PTL DEF IndexerSpec

=============================================================================
