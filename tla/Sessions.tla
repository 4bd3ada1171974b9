------------------------------ MODULE Sessions -------------------------------
(***************************************************************************)
(* Accounts and sessions: server/routes/auth-routes.js over                *)
(* server/services/sep10-challenge-service.js, server/middleware/auth.js,  *)
(* server/config/passport-config.js and the User and RefreshToken models,  *)
(* with the wallet side of client/src/services/authService.js.             *)
(*                                                                         *)
(* A sign-in registers the wallet, fetches a challenge, signs it and posts *)
(* it, perhaps twice.  The challenges live in the memory of the server.    *)
(* An account is found before it is created, with awaits between; only the *)
(* unique indexes of MongoDB, which is external, see both ends.  The OAuth  *)
(* strategies are taken as registered: initPassport does that for the keys *)
(* it is given, but the application never calls it.                        *)
(***************************************************************************)
EXTENDS Integers, FiniteSets

CONSTANTS
    Wallets,        \* Stellar accounts
    Profiles,       \* Google and GitHub profiles
    EmailOf,        \* the email of each profile
    Users,          \* ids of user documents
    SignIns,        \* sign-ins of wallets, by the client
    Posts,          \* times a client posts one signed challenge
    Claims          \* OAuth callbacks and requests to link a wallet

ASSUME SessionsAssumption == Posts \in Nat \ {0}

VARIABLES
    account,        \* the user documents
    signIn,         \* where each sign-in is
    challenge,      \* the challenge of each sign-in in the server's store
    post,           \* where each posted login is, and the user it found
    live,           \* the posts whose refresh token is stored and not revoked
    access,         \* users somebody holds an access token of, not yet expired
    claim           \* where each callback or link request is

sessionsVars == <<account, signIn, challenge, post, live, access, claim>>

Emails == {EmailOf[p] : p \in Profiles}
PostIds == SignIns \X (1 .. Posts)

\* A document with neither key nor profile is not there.
Account == [key : SUBSET Wallets, social : SUBSET Profiles,
            email : SUBSET Emails, active : BOOLEAN]
NoAccount == [key |-> {}, social |-> {}, email |-> {}, active |-> TRUE]
Exists(u) == account[u] # NoAccount

\* The identities that the indexes of the collection keep unique.
Identities(a) == a.key \cup a.social \cup a.email

-----------------------------------------------------------------------------
(* A faulty variant: what the checks must notice. *)

UniqueByLookup(u, a) == TRUE

-----------------------------------------------------------------------------
(* The store of accounts. *)

\* unique: true on publicKey, email, googleId and githubId.
Unique(u, a) ==
    \A v \in Users \ {u} : Identities(account[v]) \cap Identities(a) = {}

Save(u, a) == Unique(u, a) /\ account' = [account EXCEPT ![u] = a]
With(w) == {u \in Users : w \in Identities(account[u])}
Unused == {u \in Users : ~Exists(u)}

\* An administrator suspends an account; no code of the repository does.
Suspend(u) ==
    /\ Exists(u) /\ account[u].active
    /\ account' = [account EXCEPT ![u].active = FALSE]
    /\ UNCHANGED <<signIn, challenge, post, live, access, claim>>

-----------------------------------------------------------------------------
(* Access tokens. *)

\* generateAccessToken signs the id of the user, good until it expires.
Grant(us) == access' = access \cup us
ExpireAccess(u) ==
    /\ u \in access
    /\ access' = access \ {u}
    /\ UNCHANGED <<account, signIn, challenge, post, live, claim>>

\* authenticate loads the user of the token and wants it active.
Authenticated(u) == u \in access /\ Exists(u) /\ account[u].active

-----------------------------------------------------------------------------
(* Signing in. *)

At(s, l) == signIn' = [signIn EXCEPT ![s].pc = l]

\* registerAndAuthenticate connects the wallet and posts /register, which
\* first looks for the key: a 409 is as good as a registration.
Connect(s, w) ==
    /\ signIn[s].pc = "idle"
    /\ signIn' = [signIn EXCEPT ![s] = [wallet |-> {w},
                    pc |-> IF With(w) = {} THEN "creating" ELSE "registered"]]
    /\ UNCHANGED <<account, challenge, post, live, access, claim>>

\* /register saves the new user and answers with data.token, where the client
\* wants data.accessToken: it rejects the registration that succeeded.  A key
\* taken meanwhile is a 409 again.
Register(s, w) ==
    /\ signIn[s].pc = "creating" /\ signIn[s].wallet = {w}
    /\ LET new == [NoAccount EXCEPT !.key = {w}]
       IN  \/ /\ With(w) # {}
              /\ At(s, "registered")
              /\ UNCHANGED <<account, access>>
           \/ \E u \in Unused : Save(u, new) /\ At(s, "rejected") /\ Grant({u})
           \/ At(s, "failed") /\ UNCHANGED <<account, access>>
    /\ UNCHANGED <<challenge, post, live, claim>>

\* generateChallenge files the challenge under a fresh random token.
GetChallenge(s) ==
    /\ signIn[s].pc = "registered"
    /\ challenge' = [challenge EXCEPT ![s] = "fresh"]
    /\ At(s, "challenged")
    /\ UNCHANGED <<account, post, live, access, claim>>

\* The wallet's owner signs, or declines.
SignChallenge(s) ==
    /\ signIn[s].pc = "challenged"
    /\ \E l \in {"signed", "failed"} : At(s, l)
    /\ UNCHANGED <<account, challenge, post, live, access, claim>>

\* verifyChallenge runs without an await: found, unused, in time and signed by
\* both, the challenge is used up.
VerifyChallenge(x) ==
    IF challenge[x[1]] = "fresh"
    THEN /\ post' = [post EXCEPT ![x].pc = "verified"]
         /\ challenge' = [challenge EXCEPT ![x[1]] = "used"]
    ELSE post' = [post EXCEPT ![x].pc = "done"] /\ UNCHANGED challenge

PostLogin(x) ==
    /\ signIn[x[1]].pc = "signed" /\ post[x].pc = "idle"
    /\ VerifyChallenge(x)
    /\ UNCHANGED <<account, signIn, live, access, claim>>

\* findByPublicKey, and an account that is active.
FindUser(x) ==
    LET found == {u \in With(CHOOSE w \in signIn[x[1]].wallet : TRUE) :
                    account[u].active}
    IN  /\ post[x].pc = "verified"
        /\ post' = [post EXCEPT ![x] = [user |-> found,
                            pc |-> IF found = {} THEN "done" ELSE "found"]]
        /\ UNCHANGED <<account, signIn, challenge, live, access, claim>>

\* updateLastLogin, an access token, and the hash of a random refresh token:
\* createRefreshToken; a failure leaves the challenge used.
CreateRefreshToken(x) ==
    /\ post[x].pc = "found"
    /\ \/ live' = live \cup {x} /\ Grant(post[x].user)
       \/ UNCHANGED <<live, access>>
    /\ post' = [post EXCEPT ![x].pc = "done"]
    /\ UNCHANGED <<account, signIn, challenge, claim>>

\* The first answer with a token signs the client in; a refusal ends it.
Answer(s, x) ==
    /\ signIn[s].pc = "signed" /\ x[1] = s /\ post[x].pc = "done"
    /\ At(s, IF x \in live THEN "in" ELSE "failed")
    /\ UNCHANGED <<account, challenge, post, live, access, claim>>

-----------------------------------------------------------------------------
(* The store of challenges, and refresh tokens. *)

\* The sweep, a late verification, and the end of the process.
Forget(S) == challenge' = [s \in SignIns |-> IF s \in S THEN "none"
                                                        ELSE challenge[s]]
ExpireChallenge(s) ==
    /\ challenge[s] # "none"
    /\ Forget({s})
    /\ UNCHANGED <<account, signIn, post, live, access, claim>>
Restart ==
    /\ \E s \in SignIns : challenge[s] # "none"
    /\ Forget(SignIns)
    /\ post' = [x \in PostIds |-> IF post[x].pc = "idle" THEN post[x]
                                  ELSE [post[x] EXCEPT !.pc = "done"]]
    /\ signIn' = [s \in SignIns |-> IF signIn[s].pc = "creating"
                    THEN [signIn[s] EXCEPT !.pc = "failed"] ELSE signIn[s]]
    /\ claim' = [c \in Claims |-> IF claim[c].pc = "idle" THEN claim[c]
                                    ELSE [claim[c] EXCEPT !.pc = "done"]]
    /\ UNCHANGED <<account, live, access>>

\* /logout and /revoke with revokeAll; the access tokens stay good.
RevokeAllUserTokens(u) ==
    /\ Authenticated(u) /\ \E x \in live : post[x].user = {u}
    /\ live' = {x \in live : post[x].user # {u}}
    /\ UNCHANGED <<account, signIn, challenge, post, access, claim>>

\* /revoke of one token, and the TTL index.
RevokeToken(x) ==
    /\ x \in live
    /\ live' = live \ {x}
    /\ UNCHANGED <<account, signIn, challenge, post, access, claim>>

-----------------------------------------------------------------------------
(* OAuth callbacks and linked wallets. *)

\* The strategy looks for the profile, then for its email.
Callback(c, p) ==
    LET byEmail == With(EmailOf[p])
    IN  /\ claim[c].pc = "idle"
        /\ claim' = [claim EXCEPT ![c] = [id |-> {p},
                user |-> IF With(p) # {} THEN {} ELSE byEmail,
                pc |-> IF With(p) # {} THEN "done" ELSE "saving"]]
        /\ Grant(With(p))
        /\ UNCHANGED <<account, signIn, challenge, post, live>>

\* It links the account with that email, or creates one.
SaveProfile(c, p) ==
    LET u == CHOOSE u \in claim[c].user : TRUE
        new == [NoAccount EXCEPT !.social = {p}, !.email = {EmailOf[p]}]
    IN  /\ claim[c].pc = "saving" /\ claim[c].id = {p}
        /\ \/ /\ claim[c].user # {}
              /\ Save(u, [account[u] EXCEPT !.social = @ \cup {p}]) /\ Grant({u})
           \/ claim[c].user = {} /\ \E v \in Unused : Save(v, new) /\ Grant({v})
           \/ UNCHANGED <<account, access>>
        /\ claim' = [claim EXCEPT ![c].pc = "done"]
        /\ UNCHANGED <<signIn, challenge, post, live>>

\* /link-stellar of an active account: the key is another's, or it is saved.
FindLinked(c, u, w) ==
    /\ claim[c].pc = "idle"
    /\ Authenticated(u)
    /\ claim' = [claim EXCEPT ![c] = [id |-> {w}, user |-> {u},
                    pc |-> IF With(w) \subseteq {u} THEN "linking" ELSE "done"]]
    /\ UNCHANGED <<account, signIn, challenge, post, live, access>>

LinkStellar(c) ==
    LET u == CHOOSE u \in claim[c].user : TRUE
    IN  /\ claim[c].pc = "linking"
        /\ \/ Save(u, [account[u] EXCEPT !.key = claim[c].id])
           \/ UNCHANGED account
        /\ claim' = [claim EXCEPT ![c].pc = "done"]
        /\ UNCHANGED <<signIn, challenge, post, live, access>>

-----------------------------------------------------------------------------
SessionsInit ==
    /\ account = [u \in Users |-> NoAccount]
    /\ signIn = [s \in SignIns |-> [pc |-> "idle", wallet |-> {}]]
    /\ challenge = [s \in SignIns |-> "none"]
    /\ post = [x \in PostIds |-> [pc |-> "idle", user |-> {}]]
    /\ live = {} /\ access = {}
    /\ claim = [c \in Claims |-> [pc |-> "idle", id |-> {}, user |-> {}]]

SessionsNext ==
    \/ \E s \in SignIns :
        \/ \E w \in Wallets : Connect(s, w) \/ Register(s, w)
        \/ GetChallenge(s) \/ SignChallenge(s) \/ ExpireChallenge(s)
        \/ \E x \in PostIds : Answer(s, x)
    \/ \E x \in PostIds :
        \/ PostLogin(x) \/ FindUser(x) \/ CreateRefreshToken(x)
        \/ RevokeToken(x)
    \/ \E u \in Users : Suspend(u) \/ RevokeAllUserTokens(u) \/ ExpireAccess(u)
    \/ \E c \in Claims :
        \/ \E p \in Profiles : Callback(c, p) \/ SaveProfile(c, p)
        \/ \E u \in Users, w \in Wallets : FindLinked(c, u, w)
        \/ LinkStellar(c)
    \/ Restart

SessionsTypeOK ==
    /\ account \in [Users -> Account]
    /\ signIn \in [SignIns -> [wallet : SUBSET Wallets,
                    pc : {"idle", "creating", "registered", "rejected",
                          "challenged", "signed", "in", "failed"}]]
    /\ challenge \in [SignIns -> {"none", "fresh", "used"}]
    /\ post \in [PostIds -> [user : SUBSET Users,
                    pc : {"idle", "verified", "found", "done"}]]
    /\ live \subseteq PostIds /\ access \subseteq Users
    /\ claim \in [Claims -> [id : SUBSET (Wallets \cup Profiles),
                    user : SUBSET Users,
                    pc : {"idle", "saving", "linking", "done"}]]

\* No wallet, profile or email belongs to two accounts, however registrations,
\* callbacks and links that all found it free interleave (auth-routes.js:61-90,
\* 463-469, passport-config.js:48-76).
OneAccountPerIdentity ==
    \A u, v \in Users : u # v =>
        Identities(account[u]) \cap Identities(account[v]) = {}

\* A signed challenge opens one session at most, even when it is posted again
\* while the first post is still waiting for MongoDB (sep10-challenge-
\* service.js:188-294, auth-routes.js:174-217); the first session keeps it.
OneSessionPerChallenge ==
    \A s \in SignIns :
        Cardinality({x \in PostIds : x[1] = s
                        /\ (x \in live \/ post[x].pc \in {"verified", "found"})})
            <= 1

\* One account per identity and one session per challenge.
IdentitiesHold == OneAccountPerIdentity /\ OneSessionPerChallenge
=============================================================================
