------------------------------- MODULE Intake -------------------------------
(***************************************************************************)
(* app/intake.py with app/storage.py, app/parsing.py and app/routing.py:   *)
(* sessions create cases and ingest their documents, each session one case *)
(* a transaction (seed_case), as concurrent transactions under READ        *)
(* COMMITTED; agents/context_builder.py then picks each investigator's     *)
(* documents by their domain.  Files are written at once and outlive a     *)
(* rollback; rows do not.                                                  *)
(*                                                                         *)
(* Cases and documents are numbered as they are created (their keys are    *)
(* fresh UUIDs).  A document is a "text" or a "binary" upload: the parsed  *)
(* text of a text file is the file itself, byte for byte.                  *)
(***************************************************************************)
EXTENDS Naturals, Sequences, FiniteSets

CONSTANTS
  Sessions,
  Vendors,      \* vendor names
  Uploads,      \* documents offered: [filename, form, doc_type, explicit],
                \* form "text" or "binary", or "invalid" for what
                \* validate_upload rejects
  LeadsTo,      \* the filenames with directory parts that lead to a file
                \* somewhere else than in the new document's own directory
  MaxCases,     \* bound: cases created, committed or not
  MaxDocuments  \* bound: documents created, committed or not

Routes    == {"security", "privacy_ai_governance", "both"}  \* VALID_DOMAINS
Filenames == {u.filename : u \in Uploads}
DocTypes  == {u.doc_type : u \in Uploads}

ASSUME IntakeAssumption ==
  /\ \A u \in Uploads : u.form \in {"text", "binary", "invalid"}
  /\ DOMAIN LeadsTo \subseteq Filenames
  /\ \A name \in DOMAIN LeadsTo :
       LeadsTo[name] \in (0 .. MaxDocuments) \X (Filenames \cup {"parsed.txt"})
  /\ MaxCases \in Nat /\ MaxDocuments \in Nat

VARIABLES
  db,      \* committed rows
  files,   \* what is on disk: a set of [ref, content], one for each ref
  created, \* [cases, documents] numbered so far
  tx,      \* the rows each session has written and not committed
  pc,      \* "idle", "missing", "case", "saved", "failed", "raised"
  upload,  \* the vendor, or the document, each session is working on
  broken   \* documents whose ingestion ended with an exception that
           \* ingest_document does not handle

vars == << db, files, created, tx, pc, upload, broken >>

\* vendors [id, name] (the id is that of the case it was inserted for), cases
\* [id, vendor], documents [id, doc_type, domain], versions [document,
\* storage_ref, parsed_text_ref, content_hash] and audit events [type, document].
NoRows == [vendors |-> {}, cases |-> {}, documents |-> {}, versions |-> {}, events |-> {}]

NoUpload == [vendor |-> "none", document |-> 0, filename |-> "none", form |-> "none"]

Init ==
  /\ db = NoRows
  /\ files = {}
  /\ created = [cases |-> 0, documents |-> 0]
  /\ tx = [s \in Sessions |-> NoRows]
  /\ pc = [s \in Sessions |-> "idle"]
  /\ upload = [s \in Sessions |-> NoUpload]
  /\ broken = {}

Goto(s, label) == pc' = [pc EXCEPT ![s] = label]

-----------------------------------------------------------------------------
\* create_case for a new vendor or a known one.  vendor and case rows are
\* flushed together with the history row and the case.created event.
InsertCase(s, vendorId, newVendors) ==
  LET n == created.cases + 1 IN
  /\ created' = [created EXCEPT !.cases = n]
  /\ tx' = [tx EXCEPT ![s].vendors = newVendors,
                      ![s].cases = {[id |-> n, vendor |-> vendorId]},
                      ![s].events = {[type |-> "case.created", document |-> 0]}]
  /\ Goto(s, "case")

\* get_or_create_vendor: the SELECT, on what is committed when it runs.
LookUpVendor(s, name) ==
  LET found == {v \in db.vendors : v.name = name} IN
  /\ pc[s] = "idle" /\ created.cases < MaxCases
  /\ \/ /\ Cardinality(found) = 0
        /\ Goto(s, "missing")
        /\ upload' = [upload EXCEPT ![s].vendor = name]
        /\ UNCHANGED << tx, created >>
     \/ /\ Cardinality(found) = 1
        /\ \E v \in found : InsertCase(s, v.id, {})
        /\ UNCHANGED upload
     \/ /\ Cardinality(found) > 1   \* MultipleResultsFound
        /\ Goto(s, "raised")
        /\ UNCHANGED << tx, created, upload >>
  /\ UNCHANGED << db, files, broken >>

\* The INSERT of a vendor that was not there; vendors.name is not unique.
InsertVendor(s) ==
  /\ pc[s] = "missing" /\ created.cases < MaxCases
  /\ InsertCase(s, created.cases + 1,
       {[id |-> created.cases + 1, name |-> upload[s].vendor]})
  /\ upload' = [upload EXCEPT ![s] = NoUpload]
  /\ UNCHANGED << db, files, broken >>

-----------------------------------------------------------------------------
ParsedRef(document) == << document, "parsed.txt" >>

\* Wrong on purpose: the documents of a case share a directory.
SharedRef(document, filename) ==
  IF filename \in DOMAIN LeadsTo THEN LeadsTo[filename] ELSE << 1, filename >>

\* save_original: directory / filename.  A plain name is a file in the directory
\* of the document's first version; one with directory parts may lead to a file
\* of any other document, or to none's (0): nothing looks at the name.
Ref(document, filename) ==
  IF filename \in DOMAIN LeadsTo THEN LeadsTo[filename] ELSE << document, filename >>

Write(ref, content) == {f \in files : f.ref # ref} \cup {[ref |-> ref, content |-> content]}

Original(document, form) == << document, form >>
Text(document)           == << document, "text" >>
Partial(document)        == << document, "partial" >>

\* routing.py.  "other" has no default, so it is only routed explicitly.
Default(doc_type) ==
  CASE doc_type \in {"security_questionnaire", "security_whitepaper", "soc_report",
                     "pentest_attestation", "contract_sla"} -> "security"
    [] doc_type \in {"dpa", "privacy_policy", "ai_governance_doc",
                     "subprocessor_list"} -> "privacy_ai_governance"
    [] OTHER -> "none"

\* Wrong on purpose: a document of no known type goes under its type.
RouteSilently(u) ==
  IF u.explicit # "none" THEN u.explicit
  ELSE IF Default(u.doc_type) = "none" THEN u.doc_type ELSE Default(u.doc_type)

\* classify_document_domain; "none" and what is not in VALID_DOMAINS raise.
Route(u) == IF u.explicit # "none" THEN u.explicit ELSE Default(u.doc_type)

Classified(u) == u.explicit \in Routes \cup {"none"} /\ Route(u) # "none"

\* UploadValidationError, UnclassifiableDocumentError or ValueError: raised
\* before anything is written; the caller goes on or rolls back.
Refuse(s, u) ==
  /\ pc[s] = "case"
  /\ u.form = "invalid" \/ ~ Classified(u)
  /\ Goto(s, "failed")
  /\ UNCHANGED << db, files, created, tx, upload, broken >>

\* ingest_document up to save_original: the upload is valid, its row is flushed.
InsertDocument(s, u, d) ==
  /\ pc[s] = "case" /\ d = created.documents + 1 /\ d <= MaxDocuments
  /\ u.form # "invalid" /\ Classified(u)
  /\ created' = [created EXCEPT !.documents = d]
  /\ tx' = [tx EXCEPT ![s].documents = @ \cup
       {[id |-> d, doc_type |-> u.doc_type, domain |-> Route(u)]}]
  /\ UNCHANGED db

\* save_original makes the document's own directory and no other.
DirectoryExists(ref) == ref[1] <= created'.documents

\* The bytes are on disk.
SaveOriginal(s, u) ==
  LET d == created.documents + 1 IN
  /\ InsertDocument(s, u, d)
  /\ DirectoryExists(Ref(d, u.filename))
  /\ files' = Write(Ref(d, u.filename), Original(d, u.form))
  /\ upload' = [upload EXCEPT ![s] =
       [vendor |-> "none", document |-> d, filename |-> u.filename, form |-> u.form]]
  /\ Goto(s, "saved")
  /\ UNCHANGED broken

\* save_original raises: no such directory, a full disk, a name that is too
\* long.  The file may have been opened, and holds what was written until then.
SaveFails(s, u) ==
  LET d == created.documents + 1 IN
  /\ InsertDocument(s, u, d)
  /\ \/ UNCHANGED files
     \/ /\ DirectoryExists(Ref(d, u.filename))
        /\ files' = Write(Ref(d, u.filename), Partial(d))
  /\ broken' = broken \cup {d}
  /\ Goto(s, "failed")
  /\ UNCHANGED upload

\* The version's row and document.ingested.
InsertVersion(s) ==
  LET d == upload[s].document IN
  /\ pc[s] = "saved"
  /\ tx' = [tx EXCEPT
       ![s].versions = @ \cup
         {[document |-> d, storage_ref |-> Ref(d, upload[s].filename),
           parsed_text_ref |-> ParsedRef(d),
           content_hash |-> Original(d, upload[s].form)]},
       ![s].events = @ \cup {[type |-> "document.ingested", document |-> d]}]
  /\ upload' = [upload EXCEPT ![s] = NoUpload]
  /\ Goto(s, "case")
  /\ UNCHANGED << db, created, broken >>

\* Wrong on purpose: a parsed.txt that is there already is not written again.
StoreVersionUnlessThere(s) ==
  LET d == upload[s].document IN
  /\ InsertVersion(s)
  /\ files' = IF \E f \in files : f.ref = ParsedRef(d)
              THEN files ELSE Write(ParsedRef(d), Text(d))

\* The parser succeeded: the text is on disk, and the rows follow.
StoreVersion(s) ==
  LET d == upload[s].document IN
  /\ InsertVersion(s)
  /\ files' = Write(ParsedRef(d), Text(d))

\* Wrong on purpose: a failure is not recorded.
FailSilently(s) ==
  /\ pc[s] = "saved"
  /\ upload' = [upload EXCEPT ![s] = NoUpload]
  /\ Goto(s, "failed")
  /\ UNCHANGED << db, files, created, tx, broken >>

\* ParsingError, the timeout included: recorded, and raised to the caller.
FailToParse(s) ==
  /\ pc[s] = "saved"
  /\ tx' = [tx EXCEPT ![s].events = @ \cup
       {[type |-> "document.parse_failed", document |-> upload[s].document]}]
  /\ upload' = [upload EXCEPT ![s] = NoUpload]
  /\ Goto(s, "failed")
  /\ UNCHANGED << db, files, created, broken >>

\* An exception parse_document does not translate (only the PDF reader's own
\* PdfReadError and the timeout become a ParsingError), or save_parsed_text
\* raises, with part of the text written: nothing is recorded.
IngestBreaks(s) ==
  LET d == upload[s].document IN
  /\ pc[s] = "saved"
  /\ files' \in {files, Write(ParsedRef(d), Partial(d))}
  /\ broken' = broken \cup {d}
  /\ upload' = [upload EXCEPT ![s] = NoUpload]
  /\ Goto(s, "failed")
  /\ UNCHANGED << db, created, tx >>

\* A statement fails: the transaction can only be rolled back.
Break(s) ==
  /\ pc[s] \in {"case", "saved"}
  /\ upload' = [upload EXCEPT ![s] = NoUpload]
  /\ Goto(s, "raised")
  /\ UNCHANGED << db, files, created, tx, broken >>

\* Wrong on purpose: the failed upload is not let go.
GoOnAgain(s) ==
  /\ pc[s] = "failed"
  /\ Goto(s, "retrying")
  /\ UNCHANGED << db, files, created, tx, upload, broken >>

\* "the caller's transaction boundary decides whether a failed document aborts
\* the whole case or is reported as a gap": it goes on with the case, whatever the
\* exception was ...
GoOn(s) ==
  /\ pc[s] = "failed"
  /\ Goto(s, "case")
  /\ UNCHANGED << db, files, created, tx, upload, broken >>

\* ... or rolls back; so does everyone else's exception, and a crash.
Rollback(s) ==
  /\ pc[s] # "idle"
  /\ tx' = [tx EXCEPT ![s] = NoRows]
  /\ upload' = [upload EXCEPT ![s] = NoUpload]
  /\ Goto(s, "idle")
  /\ UNCHANGED << db, files, created, broken >>

Commit(s) ==
  /\ pc[s] = "case"
  /\ db' = [table \in DOMAIN db |-> db[table] \cup tx[s][table]]
  /\ tx' = [tx EXCEPT ![s] = NoRows]
  /\ Goto(s, "idle")
  /\ UNCHANGED << files, created, upload, broken >>

\* build_context for an investigator: run_investigator's only documents.
AllowedDomain == [security_investigator |-> "security",
                  privacy_investigator |-> "privacy_ai_governance"]

BuildContext(documents, agent) ==
  {d \in documents : d.domain \in {AllowedDomain[agent], "both"}}

Next ==
  \E s \in Sessions :
    \/ \E name \in Vendors : LookUpVendor(s, name)
    \/ \E u \in Uploads : SaveOriginal(s, u) \/ SaveFails(s, u) \/ Refuse(s, u)
    \/ InsertVendor(s) \/ StoreVersion(s) \/ FailToParse(s) \/ IngestBreaks(s) \/ Break(s)
    \/ GoOn(s) \/ Rollback(s) \/ Commit(s)

Spec == Init /\ [][Next]_vars

-----------------------------------------------------------------------------
Documents == 1 .. MaxDocuments
Refs      == (0 .. MaxDocuments) \X (Filenames \cup {"parsed.txt"})
Content   == Documents \X {"text", "binary", "partial"}
Rows      == [vendors   : SUBSET [id : 1 .. MaxCases, name : Vendors],
              cases     : SUBSET [id : 1 .. MaxCases, vendor : 1 .. MaxCases],
              documents : SUBSET [id : Documents, doc_type : DocTypes, domain : Routes],
              versions  : SUBSET [document : Documents, storage_ref : Refs,
                                  parsed_text_ref : Refs, content_hash : Content],
              events    : SUBSET [type : {"case.created", "document.ingested",
                                          "document.parse_failed"},
                                  document : 0 .. MaxDocuments]]

\* What every variable may hold; no two files share a path.
TypeOK ==
  /\ db \in Rows /\ tx \in [Sessions -> Rows]
  /\ files \subseteq [ref : Refs, content : Content]
  /\ \A f, g \in files : f.ref = g.ref => f = g
  /\ created \in [cases : 0 .. MaxCases, documents : 0 .. MaxDocuments]
  /\ pc \in [Sessions -> {"idle", "missing", "case", "saved", "failed", "raised"}]
  /\ upload \in [Sessions ->
       [vendor : Vendors \cup {"none"}, document : 0 .. MaxDocuments,
        filename : Filenames \cup {"none"}, form : {"text", "binary", "none"}]]
  /\ broken \subseteq Documents

Contents(ref) == {f.content : f \in {g \in files : g.ref = ref}}
Happened(type, d) == [type |-> type, document |-> d] \in db.events

\* A filename with directory parts leads to this file.
Reached(ref) == \E name \in DOMAIN LeadsTo : LeadsTo[name] = ref

\* The evidence a reviewer opens is there, and is the document's own or that of
\* another document whose filename leads to this very file: nothing else of
\* what was committed, rolled back or lost half way takes the parsed text of a
\* committed version away or changes it.
ParsedTextIsReadable ==
  \A v \in db.versions :
    /\ Contents(v.parsed_text_ref) # {}
    /\ \A c \in Contents(v.parsed_text_ref) :
         c = Text(v.document) \/ (c[1] # v.document /\ Reached(v.parsed_text_ref))

\* "Persist the original uploaded bytes", and "extracted text alongside the
\* original" (storage.py): what is stored under storage_ref is what
\* content_hash was computed from.
OriginalIsKept ==
  \A v \in db.versions : Contents(v.storage_ref) = {v.content_hash}

\* Only two things can be written over an original: the text extracted from it,
\* when it was uploaded as parsed.txt, and a document whose filename leads to it
\* (or whose own filename leads away from its directory).
OriginalIsLostOnlyByName ==
  \A v \in db.versions :
    \/ Contents(v.storage_ref) = {v.content_hash}
    \/ v.storage_ref = v.parsed_text_ref
    \/ Reached(v.storage_ref)

\* Of a committed document the rows say what became of it: it has its version
\* and document.ingested, or document.parse_failed and no version, and never
\* both, also when the caller went on after a failure.  A document with neither
\* is one whose ingestion ended with an exception other than ParsingError and
\* whose caller went on all the same.
EveryDocumentIsAccountedFor ==
  \A d \in {row.id : row \in db.documents} :
    LET versions == {v \in db.versions : v.document = d} IN
    \/ /\ Cardinality(versions) = 1 /\ d \notin broken
       /\ Happened("document.ingested", d) /\ ~ Happened("document.parse_failed", d)
    \/ /\ versions = {} /\ ~ Happened("document.ingested", d)
       /\ Happened("document.parse_failed", d) <=> d \notin broken

\* Routing is never a silent loss, nor a leak across the agent boundary
\* (routing.py, context_builder.py): a committed document is read by the
\* investigators its domain names, by at least one, and by no other.  Whether
\* the domain is the right one is up to whoever names it or its type, and a
\* document without a version has nothing to read.
NoDocumentIsUnread ==
  \A d \in db.documents :
    LET readers == {a \in DOMAIN AllowedDomain : d \in BuildContext(db.documents, a)} IN
    /\ readers # {}
    /\ d.domain = "both" => readers = DOMAIN AllowedDomain
    /\ d.domain # "both" => \A a \in readers : AllowedDomain[a] = d.domain
=============================================================================
