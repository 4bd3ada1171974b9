------------------------------- MODULE Scanner -------------------------------
(***************************************************************************)
(* The WASM scanner and the deployment gate:                               *)
(* server/services/wasm-scanner.js behind server/routes/security-routes.js,*)
(* the ScanResult model and securityScanGate of server/routes/token-       *)
(* routes.js.                                                              *)
(*                                                                         *)
(* A file is a header and a sequence of sections.  A section has an id, a  *)
(* shape and a size class; what the rules count in a section is abstracted *)
(* to the rules it makes fire.  The parser goes from section to section,   *)
(* collects errors and goes on behind the section that raised one.         *)
(***************************************************************************)
EXTENDS Integers, Sequences, FiniteSets

CONSTANTS
    ScanUsers,      \* authenticated users
    Uploads,        \* scans
    Deployments,    \* deployments that name a scan
    MaxSections     \* bound: sections of a file

VARIABLES
    upload,         \* where each scan is: its file, the parser, its report
    results,        \* the scans stored and not deleted, with their user
    deployment      \* where each deployment is, and the scan it read

scannerVars == <<upload, results, deployment>>

Headers == {"ok", "short", "magic", "version"}

\* What reaches the scanner: the body parser of index.js refuses more than
\* 100 KB, so that only its tests show it a large file or one over the limit.
Reaching == {"small", "usual"}

\* The rules a section of each kind can make fire.
RulesOf == [import |-> {"SM-004", "SM-005", "SM-006"}, export |-> {"SM-007", "SM-008"},
            memory |-> {"SM-009", "SM-010"}, start |-> {"SM-011"},
            global |-> {"SM-012"}, data |-> {"SM-013", "SM-014", "SM-015"},
            function |-> {"SM-016"}, code |-> {"SM-017"}, custom |-> {},
            other |-> {}]
SectionIds == DOMAIN RulesOf

\* A section can be whole, spill (its last element runs on behind its end,
\* which raises nothing), be torn inside, or claim more bytes than remain.
Shapes == {"whole", "spills", "torn", "long"}
FiresOf(id, shape) ==
    {fired \in SUBSET RulesOf[id] :
        /\ shape \in {"torn", "long"} => fired = {}
        /\ id = "start" /\ shape \in {"whole", "spills"} => fired # {}
        /\ ~({"SM-004", "SM-006"} \subseteq fired)}
Section == UNION {{[id |-> id, shape |-> shape, fires |-> fired] :
                        fired \in FiresOf(id, shape)} : id \in SectionIds, shape \in Shapes}
SectionsRead == [ids : SUBSET SectionIds, errors : 0 .. MaxSections,
                 fires : SUBSET UNION {RulesOf[i] : i \in SectionIds}]
NothingRead == [ids |-> {}, errors |-> 0, fires |-> {}]
Status == {"clean", "warning", "failed", "error"}

-----------------------------------------------------------------------------
(* Rules. *)

\* The rules of RULES, up to SM-010 and from SM-011 on, whose severity is
\* critical or high: they block a deployment, the others only warn.
SevereUpTo10 == {"SM-001", "SM-002", "SM-003", "SM-004", "SM-005", "SM-009"}
SevereFrom11 == {"SM-011", "SM-014", "SM-018"}
Severe == SevereUpTo10 \cup SevereFrom11

SizeFindings(size) ==
    CASE size = "over" -> {"SM-018"} [] size = "small" -> {"SM-019"}
      [] size = "large" -> {"SM-020"} [] OTHER -> {}

\* No imports, or no exports, are findings of their own.
Missing(ids) ==
    (IF "import" \in ids THEN {} ELSE {"SM-004"})
    \cup (IF "export" \in ids THEN {} ELSE {"SM-007"})

\* A file of 8 bytes fires nothing else.
RunRules(size, r) ==
    SizeFindings(size) \cup
    (IF size = "small" THEN {}
     ELSE (IF r.errors > 0 THEN {"SM-003"} ELSE {}) \cup Missing(r.ids) \cup r.fires)

\* buildReport; "passed" is a status nothing reports.
BuildReport(findings, forceError) ==
    CASE forceError -> "error"
      [] ~forceError /\ findings \cap Severe # {} -> "failed"
      [] ~forceError /\ findings # {} /\ findings \cap Severe = {} -> "warning"
      [] OTHER -> "clean"

DeploymentBlocked(s) == s \in {"failed", "error"}

-----------------------------------------------------------------------------
(* Faulty variants: what the checks must notice. *)

SkipsErrors(r, s) ==
    IF s.shape \in {"whole", "spills"}
    THEN [r EXCEPT !.ids = @ \cup {s.id}, !.fires = @ \cup s.fires]
    ELSE r

-----------------------------------------------------------------------------
(* POST /security/scan. *)

\* A file of a user arrives; it is checked for its header first.
ScanWasm(u, who, header, size) ==
    /\ upload[u].pc = "idle"
    /\ (size = "small") => header = "ok"
    /\ upload' = [upload EXCEPT ![u] =
            [@ EXCEPT !.user = {who}, !.size = size,
                !.pc = IF header = "ok" THEN "parsing" ELSE "report",
                !.status = IF header = "ok" THEN "clean"
                           ELSE BuildReport({"SM-001"}, TRUE)]]
    /\ UNCHANGED <<results, deployment>>

\* What a section leaves behind: its content, or an error.  What a torn one
\* left before it raised is dropped: its SM-003 blocks whatever else fires.
Parsed(r, s) ==
    IF s.shape \in {"whole", "spills"}
    THEN [r EXCEPT !.ids = @ \cup {s.id}, !.fires = @ \cup s.fires]
    ELSE [r EXCEPT !.errors = @ + 1]

\* parseWasmSections reads the next section of the file and goes on behind it,
\* or stops at one that claims more than there is.  A file has no two sections
\* of one kind.
ParseSection(u, s) ==
    /\ upload[u].pc = "parsing" /\ upload[u].size # "small"
    /\ Len(upload[u].file) < MaxSections
    /\ \A i \in DOMAIN upload[u].file : upload[u].file[i].id # s.id
    /\ upload' = [upload EXCEPT ![u] =
            [@ EXCEPT !.file = Append(upload[u].file, s),
                      !.read = Parsed(upload[u].read, s),
                      !.pc = IF s.shape = "long" THEN "parsed" ELSE "parsing"]]
    /\ UNCHANGED <<results, deployment>>

\* The end of the file: the rules run over what was read.
FinishScan(u) ==
    /\ upload[u].pc \in {"parsing", "parsed"}
    /\ upload' = [upload EXCEPT ![u].pc = "report", ![u].status =
            BuildReport(RunRules(upload[u].size, upload[u].read), FALSE)]
    /\ UNCHANGED <<results, deployment>>

\* ScanResult.create, and a webhook whose failure is logged.
StoreReport(u) ==
    /\ upload[u].pc = "report"
    /\ \/ results' = results \cup {u}
       \/ UNCHANGED results
    /\ upload' = [upload EXCEPT ![u].pc = "done"]
    /\ UNCHANGED deployment

\* DELETE /security/scans/:scanId archives what its user owns.
DeleteScan(u) ==
    /\ u \in results
    /\ results' = results \ {u}
    /\ UNCHANGED <<upload, deployment>>

-----------------------------------------------------------------------------
(* POST /tokens, behind the gate when REQUIRE_SECURITY_SCAN is set. *)

SecurityScanGate(d, who, u) ==
    /\ deployment[d].pc = "idle"
    /\ deployment' = [deployment EXCEPT ![d] = [user |-> {who}, scan |-> {u},
            pc |-> IF u \in results /\ upload[u].user = {who}
                      /\ ~DeploymentBlocked(upload[u].status)
                   THEN "passed" ELSE "refused"]]
    /\ UNCHANGED <<upload, results>>

\* The handler behind it registers the token; the scan may be gone by then.
RegisterToken(d) ==
    /\ deployment[d].pc = "passed"
    /\ deployment' = [deployment EXCEPT ![d].pc = "registered"]
    /\ UNCHANGED <<upload, results>>

-----------------------------------------------------------------------------
ScannerInit ==
    /\ upload = [u \in Uploads |-> [pc |-> "idle", user |-> {}, size |-> "usual",
                        file |-> <<>>, read |-> NothingRead, status |-> "clean"]]
    /\ results = {}
    /\ deployment = [d \in Deployments |-> [pc |-> "idle", user |-> {},
                                            scan |-> {}]]

ScannerNext ==
    \/ \E u \in Uploads :
        \/ \E who \in ScanUsers, h \in Headers, size \in Reaching :
            ScanWasm(u, who, h, size)
        \/ \E s \in Section : ParseSection(u, s)
        \/ FinishScan(u) \/ StoreReport(u) \/ DeleteScan(u)
    \/ \E d \in Deployments :
        \/ \E who \in ScanUsers, u \in Uploads : SecurityScanGate(d, who, u)
        \/ RegisterToken(d)

ScannerTypeOK ==
    /\ \A u \in Uploads :
        /\ upload[u].pc \in {"idle", "parsing", "parsed", "report", "done"}
        /\ upload[u].user \subseteq ScanUsers
        /\ Len(upload[u].file) <= MaxSections
        /\ \A i \in DOMAIN upload[u].file : upload[u].file[i] \in Section
        /\ upload[u].read \in SectionsRead /\ upload[u].status \in Status
    /\ results \subseteq Uploads
    /\ \A d \in Deployments :
        /\ deployment[d].pc \in {"idle", "passed", "registered", "refused"}
        /\ deployment[d].user \subseteq ScanUsers
        /\ deployment[d].scan \subseteq Uploads

\* A token is registered behind the gate only on a scan of its own user whose
\* file was read to its end: no section of it was torn or left out behind an
\* earlier error, and one imports from the Soroban host (wasm-scanner.js:657-775, token-routes.js:21-94).
RegisteredWasRead ==
    \A d \in Deployments : deployment[d].pc = "registered" =>
        \E u \in deployment[d].scan :
            /\ upload[u].user = deployment[d].user
            /\ \A i \in DOMAIN upload[u].file : upload[u].file[i].shape
                                                        \in {"whole", "spills"}
            /\ upload[u].size # "small" =>
                \E i \in DOMAIN upload[u].file :
                    /\ upload[u].file[i].id = "import"
                    /\ "SM-004" \notin upload[u].file[i].fires

=============================================================================
