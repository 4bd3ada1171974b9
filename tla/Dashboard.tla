------------------------------ MODULE Dashboard -------------------------------
(***************************************************************************)
(* The client's dashboard: MintTokenPanel, AssetsPanel and App of          *)
(* client/src/App.jsx over the wallet, token and theme stores of           *)
(* client/src/store/index.js.                                              *)
(*                                                                         *)
(* The token store keeps the list of whatever fetch answered last, or grew *)
(* by the last mint, and is kept over reloads with the address; neither a  *)
(* change of the address nor an error empties it.  The server is external. *)
(***************************************************************************)
EXTENDS Naturals, Sequences, FiniteSets, SequencesExt

CONSTANTS
    Addresses,      \* wallets that connect
    Minted,         \* bound: tokens the panel mints
    Fetches         \* bound: requests of the token list

ASSUME DashboardAssumption == Fetches \in Nat /\ IsFiniteSet(Minted)

VARIABLES
    address,        \* of the wallet store, a set of at most one
    shelf,          \* tokens and isLoading of the token store
    fetch,          \* the requests of the list: whose, what the server read
    mint,           \* the requests of the mint panel: whose
    registry,       \* the tokens the server has of each address
    ui,             \* theme, resolvedTheme, whether the system's is listened to
    system,         \* the theme the system prefers
    unsettled       \* history: since the last fetch that ran alone, a request
                    \* failed or ran beside another

dashboardVars == <<address, shelf, fetch, mint, registry, ui, system, unsettled>>

Themes == {"light", "dark", "system"}
FetchState == [pc : {"idle", "sent", "read", "done"}, whose : SUBSET Addresses,
               list : SUBSET Minted, alone : BOOLEAN]
MintState == [pc : {"idle", "sent", "stored", "done"}, whose : SUBSET Addresses,
              alone : BOOLEAN]

-----------------------------------------------------------------------------
Awaited(r) == r.pc \in {"sent", "read", "stored"}
InFlight ==
    \/ \E f \in 1 .. Fetches : Awaited(fetch[f])
    \/ \E t \in Minted : Awaited(mint[t])
Beside(r) == IF Awaited(r) THEN [r EXCEPT !.alone = FALSE] ELSE r

\* fetchTokens of the store sends the next request of the list.
FetchTokens(S) ==
    LET n == Cardinality({f \in 1 .. Fetches : fetch[f].pc # "idle"}) + 1
    IN  /\ n <= Fetches
        /\ fetch' = [f \in 1 .. Fetches |->
                IF f = n THEN [pc |-> "sent", whose |-> S, list |-> {},
                               alone |-> ~InFlight]
                ELSE Beside(fetch[f])]
        /\ mint' = [t \in Minted |-> Beside(mint[t])]
        /\ shelf' = [shelf EXCEPT !.loading = TRUE]

\* resolveTheme.
ResolveTheme(theme, preferred) == IF theme = "system" THEN preferred ELSE theme
SetTheme(theme, preferred) ==
    [ui EXCEPT !.theme = theme, !.resolved = ResolveTheme(theme, preferred)]
InitTheme == [SetTheme(ui.theme, system) EXCEPT !.listening = TRUE]

\* The wallet button connects when there is no address and disconnects when
\* there is one; the effect on the address applies the theme again.
ConnectWallet(a) ==
    /\ address = {}
    /\ address' = {a}
    /\ FetchTokens({a})
    /\ ui' = InitTheme
    /\ UNCHANGED <<registry, system, unsettled>>

DisconnectWallet ==
    /\ address # {}
    /\ address' = {}
    /\ ui' = InitTheme
    /\ UNCHANGED <<shelf, fetch, mint, registry, system, unsettled>>

ServerLists(f) ==
    /\ fetch[f].pc = "sent"
    /\ fetch' = [fetch EXCEPT ![f].pc = "read",
                    ![f].list = UNION {registry[a] : a \in fetch[f].whose}]
    /\ UNCHANGED <<address, shelf, mint, registry, ui, system, unsettled>>

\* The answer replaces the list, whoever is connected by now; an error leaves
\* it.  Either ends isLoading.
Listed(f) == [tokens |-> SetToSeq(fetch[f].list), loading |-> FALSE]

SetTokens(f) ==
    /\ Awaited(fetch[f])
    /\ \/ /\ fetch[f].pc = "read"
          /\ shelf' = Listed(f) /\ unsettled' = ~fetch[f].alone
       \/ shelf' = [shelf EXCEPT !.loading = FALSE] /\ unsettled' = TRUE
    /\ fetch' = [fetch EXCEPT ![f].pc = "done"]
    /\ UNCHANGED <<address, mint, registry, ui, system>>

-----------------------------------------------------------------------------
\* The mint button is disabled without an address and during a mint.
MintDisabled == address = {} \/ \E t \in Minted : Awaited(mint[t])

HandleSubmitMint(t) ==
    /\ mint[t].pc = "idle" /\ ~MintDisabled
    /\ mint' = [mint EXCEPT ![t] = [pc |-> "sent", whose |-> address,
                                    alone |-> ~InFlight]]
    /\ fetch' = [f \in 1 .. Fetches |-> Beside(fetch[f])]
    /\ UNCHANGED <<address, shelf, registry, ui, system, unsettled>>

ServerStores(t) ==
    /\ mint[t].pc = "sent"
    /\ mint' = [mint EXCEPT ![t].pc = "stored"]
    /\ registry' = [a \in Addresses |->
            registry[a] \cup IF a \in mint[t].whose THEN {t} ELSE {}]
    /\ UNCHANGED <<address, shelf, fetch, ui, system, unsettled>>

\* addToken, to the list of whoever is connected by now; a refusal, or an
\* answer that is lost, leaves the list.
Added(t) == Append(shelf.tokens, t)

AddToken(t) ==
    /\ Awaited(mint[t])
    /\ \/ /\ mint[t].pc = "stored"
          /\ shelf' = [shelf EXCEPT !.tokens = Added(t)]
          /\ unsettled' = (unsettled \/ ~mint[t].alone \/ mint[t].whose # address)
       \/ UNCHANGED shelf /\ unsettled' = TRUE
    /\ mint' = [mint EXCEPT ![t].pc = "done"]
    /\ UNCHANGED <<address, fetch, registry, ui, system>>

\* A reload drops the requests, keeps the stored address, tokens and theme,
\* and fetches again.
Dropped(r) == IF Awaited(r) THEN [r EXCEPT !.pc = "done"] ELSE r

Reload ==
    LET n == Cardinality({f \in 1 .. Fetches : fetch[f].pc # "idle"}) + 1
    IN  /\ n <= Fetches
        /\ mint' = [t \in Minted |-> Dropped(mint[t])]
        /\ fetch' = [f \in 1 .. Fetches |->
                IF f = n /\ address # {}
                THEN [pc |-> "sent", whose |-> address, list |-> {}, alone |-> TRUE]
                ELSE Dropped(fetch[f])]
        /\ shelf' = [shelf EXCEPT !.loading = address # {}]
        /\ unsettled' = (unsettled \/ InFlight)
        /\ ui' = InitTheme
        /\ UNCHANGED <<address, registry, system>>

\* AssetsPanel: a prompt without an address, a skeleton while loading, or the
\* tokens.
AssetsShown == IF address = {} \/ shelf.loading THEN <<>> ELSE shelf.tokens

-----------------------------------------------------------------------------
\* The theme button: light, dark, system, light.
ToggleTheme ==
    /\ ui' = SetTheme(CASE ui.theme = "light" -> "dark" [] ui.theme = "dark" -> "system"
                        [] ui.theme = "system" -> "light", system)
    /\ UNCHANGED <<address, shelf, fetch, mint, registry, system, unsettled>>

\* The system's preference changes, and the listeners apply it.
HandleChange ==
    /\ system' = IF system = "light" THEN "dark" ELSE "light"
    /\ ui' = IF ui.listening /\ ui.theme = "system" THEN SetTheme("system", system')
                                                    ELSE ui
    /\ UNCHANGED <<address, shelf, fetch, mint, registry, unsettled>>

-----------------------------------------------------------------------------
DashboardInit ==
    /\ address = {}
    /\ shelf = [tokens |-> <<>>, loading |-> FALSE]
    /\ fetch = [f \in 1 .. Fetches |->
            [pc |-> "idle", whose |-> {}, list |-> {}, alone |-> FALSE]]
    /\ mint = [t \in Minted |-> [pc |-> "idle", whose |-> {}, alone |-> FALSE]]
    /\ registry = [a \in Addresses |-> {}]
    /\ ui = [theme |-> "system", resolved |-> "dark", listening |-> TRUE]
    /\ system = "dark" /\ unsettled = FALSE

DashboardNext ==
    \/ \E a \in Addresses : ConnectWallet(a)
    \/ DisconnectWallet \/ Reload \/ ToggleTheme \/ HandleChange
    \/ \E f \in 1 .. Fetches : ServerLists(f) \/ SetTokens(f)
    \/ \E t \in Minted : HandleSubmitMint(t) \/ ServerStores(t) \/ AddToken(t)

DashboardTypeOK ==
    /\ address \subseteq Addresses
    /\ shelf \in [tokens : Seq(Minted), loading : BOOLEAN]
    /\ fetch \in [1 .. Fetches -> FetchState] /\ mint \in [Minted -> MintState]
    /\ registry \in [Addresses -> SUBSET Minted]
    /\ ui \in [theme : Themes, resolved : {"light", "dark"}, listening : BOOLEAN]
    /\ system \in {"light", "dark"} /\ unsettled \in BOOLEAN

\* When nothing is on its way, the panel shows the connected wallet each of its
\* tokens once and nobody else's, unless a request failed or ran beside another
\* and no fetch has run alone since; and the theme is the one chosen, or the
\* system's (App.jsx:313-327, store/index.js:45-64, 107-135).
DashboardIsCurrent ==
    /\ \A a \in address : ~InFlight /\ ~unsettled =>
        ToSet(AssetsShown) = registry[a] /\ IsInjective(AssetsShown)
    /\ ui.resolved = ResolveTheme(ui.theme, system)

=============================================================================
