---------------------------- MODULE EvidenceFiles ----------------------------
\* The files of an evidence root (scripts/quality_evidence.py): which artifacts
\* are collected, what redaction takes out of them, what the secret scan finds
\* in them, and the checksum list.
\*
\* A file has a category ("none" when it is no evidence), the root of the
\* assembled cell it lies below ("" when in none), its content, its own payload,
\* the payloads of its archive members and whether a limit is exceeded.  A
\* payload has a form and the kinds of secrets that can be read in it.
EXTENDS FiniteSets

\* The kinds a scan tells apart: the synthetic canary, a text pattern, and a
\* value under a secret key of a JSON document.
SecretKinds == {"canary", "pattern", "structured"}

-----------------------------------------------------------------------------
\* Collecting.

\* The JUnit and Allure files the results of the assembled cells name.
CellReferences(cells) == UNION {UNION {r.junit \cup r.allure : r \in b.results} : b \in cells}

\* A manifest below an input root that cannot be read, or names a file that is
\* not there, stops the collection.
CellsReadable(cells) ==
  \A b \in cells : \A r \in b.results :
    r.junit \cup r.allure \subseteq {f.content : f \in b.files}

\* _artifact_category() knows what the path holds.
IsEvidence(f) == f.category # "none"

\* copy_artifacts(): below an assembled cell only the referenced reports count,
\* never the copies the cell itself had been assembled from.
Collected(files, references) ==
  {f \in files : /\ IsEvidence(f)
                 /\ f.category \in {"junit", "allure-results"} /\ f.cell # ""
                      => f.content \in references}

\* _copy_unique(): a second file at the same place keeps its own copy unless it
\* is the same, so a copied file is its category and content.
CopiedFiles(files, references) == {[f EXCEPT !.cell = ""] : f \in Collected(files, references)}

-----------------------------------------------------------------------------
\* Redaction and scan.

\* Text loses its patterns, JSON also the values under secret keys, anything
\* else only the canary.
RedactPayload(p) ==
  [p EXCEPT !.secrets = CASE p.form = "json" -> {}
                          [] p.form = "text" -> @ \ {"canary", "pattern"}
                          [] OTHER -> @ \ {"canary"}]

\* Mutant: the members of an archive stay as they are
RedactFilePlain(f) == [f EXCEPT !.payload = RedactPayload(@)]

\* redact_file() rewrites an archive from its members and any other file from
\* its bytes.
RedactFile(f) ==
  IF f.members = {} THEN [f EXCEPT !.payload = RedactPayload(@)]
  ELSE [f EXCEPT !.members = {RedactPayload(m) : m \in @}]

\* Secret keys are looked for in what parses as JSON.
ScanPayload(p) == p.secrets \ (IF p.form = "json" THEN {} ELSE {"structured"})

\* Mutant: the members of an archive are not looked at
ScanFilePlain(f) == ScanPayload(f.payload)

ScanFile(f) == ScanPayload(f.payload) \cup UNION {ScanPayload(m) : m \in f.members}

\* A file beyond a limit is an error of the scan.
ScanClean(files) == \A f \in files : ScanFile(f) = {} /\ ~f.oversize

-----------------------------------------------------------------------------
\* SHA256SUMS lists every file but itself, with its digest.
ChecksumsHold(sums, files) == sums = files
=============================================================================
