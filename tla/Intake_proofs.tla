---------------------------- MODULE Intake_proofs -----------------------------
(***************************************************************************)
(* Proofs about Intake for any number of sessions, uploads, cases and      *)
(* documents.                                                              *)
(*                                                                         *)
(* The rows of a document are only ever in one place, the database or one  *)
(* session's transaction (Apart, Local); there, the document is accounted  *)
(* for unless the session is working on it or about to roll back           *)
(* (InOrder).  A text on disk stays what it was because the numbers of new *)
(* documents are new (Numbered, Texts), whatever name they are stored      *)
(* under, unless that name leads to it (Harmless).                         *)
(***************************************************************************)
EXTENDS Intake, FiniteSetTheorems, TLAPS

\* Of some rows P, the first n documents, the files F and the broken documents B.

DocIds(P) == {row.id : row \in P.documents}
VersionsOf(P, d) == {v \in P.versions : v.document = d}
Ingested(d) == [type |-> "document.ingested", document |-> d]
Failed(d)   == [type |-> "document.parse_failed", document |-> d]

Accounted(P, B, d) ==
  \/ /\ (\E v : VersionsOf(P, d) = {v}) /\ d \notin B
     /\ Ingested(d) \in P.events /\ Failed(d) \notin P.events
  \/ /\ VersionsOf(P, d) = {} /\ Ingested(d) \notin P.events
     /\ Failed(d) \in P.events <=> d \notin B

Untold(P, B, d) ==
  /\ VersionsOf(P, d) = {} /\ Ingested(d) \notin P.events /\ Failed(d) \notin P.events
  /\ d \notin B

Tables == {"vendors", "cases", "documents", "versions", "events"}

\* Versions and events are of the documents beside them.
Local(P) ==
  /\ \A v \in P.versions : v.document \in DocIds(P)
  /\ \A e \in P.events : e.document = 0 \/ e.document \in DocIds(P)

Numbered(P, n) == DocIds(P) \subseteq 1 .. n

ContentsIn(F, ref) == {f.content : f \in {g \in F : g.ref = ref}}

Readable(F, d) ==
  /\ ContentsIn(F, ParsedRef(d)) # {}
  /\ \A c \in ContentsIn(F, ParsedRef(d)) :
       c = Text(d) \/ (c[1] # d /\ Reached(ParsedRef(d)))

Texts(P, F) ==
  \A v \in P.versions : v.parsed_text_ref = ParsedRef(v.document) /\ Readable(F, v.document)

Routed(P) == \A d \in P.documents : d.domain \in Routes

Good(P, n, F) ==
  DOMAIN P = Tables /\ Local(P) /\ Numbered(P, n) /\ Texts(P, F) /\ Routed(P)

InOrder(P, B, label, d) ==
  /\ label \in {"idle", "missing"} => P = NoRows
  /\ label \in {"case", "failed"} => \A e \in DocIds(P) : Accounted(P, B, e)
  /\ label = "saved" => /\ d \in DocIds(P) /\ Untold(P, B, d)
                        /\ \A e \in DocIds(P) \ {d} : Accounted(P, B, e)

Apart ==
  /\ \A s \in Sessions : DocIds(db) \cap DocIds(tx[s]) = {}
  /\ \A s, t \in Sessions : s # t => DocIds(tx[s]) \cap DocIds(tx[t]) = {}

Shape ==
  /\ created.documents \in Nat /\ DOMAIN created = {"cases", "documents"}
  /\ DOMAIN tx = Sessions /\ DOMAIN pc = Sessions
  /\ DOMAIN upload = Sessions
  /\ \A s \in Sessions : DOMAIN upload[s] = {"vendor", "document", "filename", "form"}
  /\ broken \subseteq 1 .. created.documents

IInv ==
  /\ Shape
  /\ Good(db, created.documents, files)
  /\ \A s \in Sessions : Good(tx[s], created.documents, files)
  /\ Apart
  /\ \A d \in DocIds(db) : Accounted(db, broken, d)
  /\ \A s \in Sessions : InOrder(tx[s], broken, pc[s], upload[s].document)

-----------------------------------------------------------------------------
LEMMA NoRowsIsGood ==
  /\ DOMAIN NoRows = Tables /\ DocIds(NoRows) = {}
  /\ \A n, F : Good(NoRows, n, F)
  /\ \A label \in {"idle", "missing", "case", "failed", "raised"} :
       \A B, d : InOrder(NoRows, B, label, d)
<1>1. /\ DOMAIN NoRows = Tables
      /\ NoRows.documents = {} /\ NoRows.versions = {} /\ NoRows.events = {}
  BY DEF NoRows, Tables
<1>2. DocIds(NoRows) = {}
  BY <1>1 DEF DocIds
<1> QED
  BY <1>1, <1>2 DEF Good, Local, Numbered, Texts, Routed, InOrder

LEMMA InitIInv == Init => IInv
<1> SUFFICES ASSUME Init PROVE IInv
  OBVIOUS
<1>1. db = NoRows /\ \A s \in Sessions : tx[s] = NoRows /\ pc[s] = "idle"
  BY DEF Init
<1>2. Shape
  BY DEF Init, Shape, NoUpload
<1> QED
  BY <1>1, <1>2, NoRowsIsGood DEF IInv, Apart

\* A document that breaks changes nothing for the others.
LEMMA BrokenElsewhere ==
  ASSUME NEW P, NEW B, NEW C, B \subseteq C, \A e \in C \ B : e \notin DocIds(P)
  PROVE  /\ \A d \in DocIds(P) : Accounted(P, B, d) <=> Accounted(P, C, d)
         /\ \A label, d : InOrder(P, B, label, d) => InOrder(P, C, label, d)
<1>1. \A d \in DocIds(P) : d \in B <=> d \in C
  OBVIOUS
<1>2. \A d \in DocIds(P) : Accounted(P, B, d) <=> Accounted(P, C, d)
  BY <1>1 DEF Accounted
<1>3. \A d \in DocIds(P) : Untold(P, B, d) <=> Untold(P, C, d)
  BY <1>1 DEF Untold
<1> QED
  BY <1>2, <1>3 DEF InOrder

\* A step of one session keeps the invariant if it keeps it for its own rows,
\* adds no document but a new one, breaks none but its own and leaves the texts
\* of the others alone.
LEMMA SessionStep ==
  ASSUME IInv, NEW s \in Sessions, Shape', UNCHANGED db,
         \A t \in Sessions \ {s} :
           tx'[t] = tx[t] /\ pc'[t] = pc[t] /\ upload'[t] = upload[t],
         Good(db, created'.documents, files'),
         \A t \in Sessions \ {s} : Good(tx[t], created'.documents, files'),
         Good(tx'[s], created'.documents, files'),
         InOrder(tx'[s], broken', pc'[s], upload'[s].document),
         \A d \in DocIds(tx'[s]) : d \in DocIds(tx[s]) \/ d \notin 1 .. created.documents,
         broken \subseteq broken', \A d \in broken' \ broken : d \in DocIds(tx'[s])
  PROVE  IInv'
<1>1. Good(db', created'.documents, files')
  BY DEF IInv
<1>2. \A t \in Sessions : Good(tx'[t], created'.documents, files')
  BY DEF IInv
<1>3. /\ DocIds(db) \subseteq 1 .. created.documents
      /\ \A t \in Sessions : DocIds(tx[t]) \subseteq 1 .. created.documents
  BY DEF IInv, Good, Numbered
<1>4. Apart'
  BY <1>3 DEF IInv, Apart
<1>5. ASSUME NEW t \in Sessions \ {s} PROVE InOrder(tx'[t], broken', pc'[t], upload'[t].document)
  <2>1. \A e \in broken' \ broken : e \notin DocIds(tx[t])
    BY <1>3 DEF IInv, Apart
  <2>2. InOrder(tx[t], broken, pc[t], upload[t].document)
    BY DEF IInv
  <2> QED
    BY <2>1, <2>2, BrokenElsewhere
<1>6. \A d \in DocIds(db') : Accounted(db', broken', d)
  <2>1. \A e \in broken' \ broken : e \notin DocIds(db)
    BY <1>3 DEF IInv, Apart
  <2>2. \A d \in DocIds(db) : Accounted(db, broken, d)
    BY DEF IInv
  <2> QED
    BY <2>1, <2>2, BrokenElsewhere
<1> QED
  BY <1>1, <1>2, <1>4, <1>5, <1>6 DEF IInv

\* A step that writes no row, creates no document and touches no file.
LEMMA QuietStep ==
  ASSUME IInv, NEW s \in Sessions, Shape', UNCHANGED << db, files, broken >>,
         created'.documents = created.documents,
         \A t \in Sessions \ {s} :
           tx'[t] = tx[t] /\ pc'[t] = pc[t] /\ upload'[t] = upload[t],
         tx'[s] = tx[s], InOrder(tx'[s], broken', pc'[s], upload'[s].document)
  PROVE  IInv'
<1>1. /\ Good(tx'[s], created'.documents, files')
      /\ Good(db, created'.documents, files')
      /\ \A t \in Sessions \ {s} : Good(tx[t], created'.documents, files')
  BY DEF IInv
<1> QED
  BY <1>1, SessionStep

-----------------------------------------------------------------------------
LEMMA RefuseKeepsIInv ==
  ASSUME IInv, NEW s \in Sessions, NEW u \in Uploads, Refuse(s, u)
  PROVE  IInv'
<1>1. Shape'
  BY DEF IInv, Shape, Refuse, Goto
<1>2. pc[s] = "case" /\ pc'[s] = "failed"
  BY DEF IInv, Shape, Refuse, Goto
<1>3. InOrder(tx'[s], broken', pc'[s], upload'[s].document)
  BY <1>2 DEF IInv, InOrder, Refuse
<1> QED
  BY <1>1, <1>3, QuietStep DEF Refuse, Goto, IInv, Shape

LEMMA GoOnKeepsIInv == ASSUME IInv, NEW s \in Sessions, GoOn(s) PROVE IInv'
<1>1. Shape'
  BY DEF IInv, Shape, GoOn, Goto
<1>2. pc[s] = "failed" /\ pc'[s] = "case"
  BY DEF IInv, Shape, GoOn, Goto
<1>3. InOrder(tx'[s], broken', pc'[s], upload'[s].document)
  BY <1>2 DEF IInv, InOrder, GoOn
<1> QED
  BY <1>1, <1>3, QuietStep DEF GoOn, Goto, IInv, Shape

LEMMA BreakKeepsIInv == ASSUME IInv, NEW s \in Sessions, Break(s) PROVE IInv'
<1>1. Shape'
  BY DEF IInv, Shape, Break, Goto, NoUpload
<1>2. pc'[s] = "raised"
  BY DEF IInv, Shape, Break, Goto
<1>3. InOrder(tx'[s], broken', pc'[s], upload'[s].document)
  BY <1>2 DEF InOrder
<1> QED
  BY <1>1, <1>3, QuietStep DEF Break, Goto, IInv, Shape

LEMMA RollbackKeepsIInv == ASSUME IInv, NEW s \in Sessions, Rollback(s) PROVE IInv'
<1>1. Shape'
  BY DEF IInv, Shape, Rollback, Goto, NoUpload
<1>2. pc'[s] = "idle" /\ tx'[s] = NoRows
  BY DEF IInv, Shape, Rollback, Goto
<1>3. Good(tx'[s], created'.documents, files')
      /\ InOrder(tx'[s], broken', pc'[s], upload'[s].document) /\ DocIds(tx'[s]) = {}
  BY <1>2, NoRowsIsGood
<1>4. UNCHANGED << db, files, created, broken >>
      /\ \A t \in Sessions \ {s} :
           tx'[t] = tx[t] /\ pc'[t] = pc[t] /\ upload'[t] = upload[t]
  BY DEF Rollback, Goto, IInv, Shape
<1>5. Good(db, created'.documents, files')
      /\ \A t \in Sessions \ {s} : Good(tx[t], created'.documents, files')
  BY <1>4 DEF IInv
<1> QED
  BY <1>1, <1>3, <1>4, <1>5, SessionStep

-----------------------------------------------------------------------------
LEMMA InsertCaseKeepsIInv ==
  ASSUME IInv, NEW s \in Sessions, pc[s] \in {"idle", "missing"},
         NEW vendor, NEW newVendors, InsertCase(s, vendor, newVendors),
         upload' \in {upload, [upload EXCEPT ![s] = NoUpload]},
         UNCHANGED << db, files, broken >>
  PROVE  IInv'
<1> DEFINE e == [type |-> "case.created", document |-> 0]
<1>1. created'.documents = created.documents /\ Shape'
  BY DEF IInv, Shape, InsertCase, Goto, NoUpload
<1>2. /\ tx[s] = NoRows /\ pc'[s] = "case"
      /\ \A t \in Sessions \ {s} :
           tx'[t] = tx[t] /\ pc'[t] = pc[t] /\ upload'[t] = upload[t]
  BY DEF IInv, Shape, InOrder, InsertCase, Goto
<1>3. /\ DOMAIN tx'[s] = Tables /\ tx'[s].documents = {} /\ tx'[s].versions = {}
      /\ tx'[s].events = {e}
  BY <1>2 DEF IInv, Shape, InsertCase, NoRows, Tables
<1>4. DocIds(tx'[s]) = {}
  BY <1>3 DEF DocIds
<1>5. Good(tx'[s], created'.documents, files')
  BY <1>3, <1>4 DEF Good, Local, Numbered, Texts, Routed
<1>6. InOrder(tx'[s], broken', pc'[s], upload'[s].document)
  BY <1>2, <1>4 DEF InOrder
<1>7. Good(db, created'.documents, files')
      /\ \A t \in Sessions \ {s} : Good(tx[t], created'.documents, files')
  BY <1>1 DEF IInv
<1> QED
  BY <1>1, <1>2, <1>4, <1>5, <1>6, <1>7, SessionStep

LEMMA VendorKeepsIInv ==
  ASSUME IInv, NEW s \in Sessions,
         InsertVendor(s) \/ \E name \in Vendors : LookUpVendor(s, name)
  PROVE  IInv'
<1>1. CASE InsertVendor(s)
  BY <1>1, InsertCaseKeepsIInv DEF InsertVendor
<1>2. ASSUME NEW name \in Vendors, LookUpVendor(s, name) PROVE IInv'
  <2>1. pc[s] = "idle" /\ UNCHANGED << db, files, broken >>
    BY <1>2 DEF LookUpVendor
  <2>2. CASE \E v \in db.vendors : InsertCase(s, v.id, {}) /\ UNCHANGED upload
    BY <2>1, <2>2, InsertCaseKeepsIInv
  <2>3. CASE /\ UNCHANGED << tx, created >>
             /\ \/ Goto(s, "missing") /\ upload' = [upload EXCEPT ![s].vendor = name]
                \/ Goto(s, "raised") /\ UNCHANGED upload
    <3>1. Shape'
      BY <2>1, <2>3 DEF IInv, Shape, Goto
    <3>2. tx[s] = NoRows /\ pc'[s] \in {"missing", "raised"}
      BY <2>1, <2>3 DEF IInv, Shape, InOrder, Goto
    <3>3. InOrder(tx'[s], broken', pc'[s], upload'[s].document)
      BY <2>3, <3>2, NoRowsIsGood
    <3>4. \A t \in Sessions \ {s} :
            tx'[t] = tx[t] /\ pc'[t] = pc[t] /\ upload'[t] = upload[t]
      BY <2>3 DEF IInv, Shape, Goto
    <3> QED
      BY <2>1, <2>3, <3>1, <3>3, <3>4, QuietStep
  <2> QED
    BY <1>2, <2>2, <2>3 DEF LookUpVendor
<1> QED
  BY <1>1, <1>2

-----------------------------------------------------------------------------
\* What may be written without taking the text of a document d away.
Harmless(ref, content, d) ==
  ref = ParsedRef(d) => content = Text(d) \/ (content[1] # d /\ Reached(ref))

LEMMA ContentsAfterWrite ==
  ASSUME NEW ref, NEW content, files' = Write(ref, content)
  PROVE  /\ ContentsIn(files', ref) = {content}
         /\ \A r : r # ref => ContentsIn(files', r) = ContentsIn(files, r)
<1> DEFINE new == [ref |-> ref, content |-> content]
<1>1. new.ref = ref /\ new.content = content /\ files' = {f \in files : f.ref # ref} \cup {new}
  BY DEF Write
<1> HIDE DEF new
<1>2. {g \in files' : g.ref = ref} = {new}
  BY <1>1
<1>3. \A r : r # ref => {g \in files' : g.ref = r} = {g \in files : g.ref = r}
  BY <1>1
<1> QED
  BY <1>1, <1>2, <1>3 DEF ContentsIn

LEMMA WriteKeepsGood ==
  ASSUME NEW P, NEW n, NEW ref, NEW content, Good(P, n, files), files' = Write(ref, content),
         \A v \in P.versions : Harmless(ref, content, v.document)
  PROVE  Good(P, n, files')
<1>1. ASSUME NEW v \in P.versions PROVE Readable(files', v.document)
  <2>1. Readable(files, v.document)
    BY DEF Good, Texts
  <2>2. CASE ParsedRef(v.document) # ref
    BY <2>1, <2>2, ContentsAfterWrite DEF Readable
  <2>3. CASE ParsedRef(v.document) = ref
    BY <2>3, ContentsAfterWrite DEF Readable, Harmless
  <2> QED
    BY <2>2, <2>3
<1> QED
  BY <1>1 DEF Good, Texts

\* A name leads away, or to the document's own directory.
LEMMA RefLeads == \A d, name : Reached(Ref(d, name)) \/ Ref(d, name) = << d, name >>
  BY DEF Ref, Reached

\* A document type has a default route, or none.
LEMMA DefaultRoutes ==
  \A t : Default(t) \in {"security", "privacy_ai_governance", "none"}
<1> SUFFICES ASSUME NEW t
             PROVE  Default(t) \in {"security", "privacy_ai_governance", "none"}
  OBVIOUS
<1> DEFINE A == t \in {"security_questionnaire", "security_whitepaper", "soc_report",
                       "pentest_attestation", "contract_sla"}
           B == t \in {"dpa", "privacy_policy", "ai_governance_doc", "subprocessor_list"}
<1>1. CASE A
  BY <1>1 DEF Default
<1>2. CASE B
  BY <1>2 DEF Default
<1>3. CASE ~ A /\ ~ B
  BY <1>3, Zenon DEF Default
<1> QED
  BY <1>1, <1>2, <1>3

\* The row of the new document, and whatever save_original wrote.
LEMMA InsertDocumentAdds ==
  ASSUME IInv, NEW s \in Sessions, NEW u \in Uploads, NEW d, InsertDocument(s, u, d),
         NEW content, content[1] = d,
         files' = files \/ files' = Write(Ref(d, u.filename), content)
  PROVE  /\ created.documents \in Nat /\ d = created.documents + 1
         /\ created'.documents = d /\ d \notin 1 .. created.documents
         /\ DOMAIN created' = {"cases", "documents"} /\ DOMAIN tx' = Sessions
         /\ \A t \in Sessions \ {s} : tx'[t] = tx[t]
         /\ Good(db, d, files') /\ \A t \in Sessions \ {s} : Good(tx[t], d, files')
         /\ Good(tx'[s], d, files') /\ DocIds(tx'[s]) = DocIds(tx[s]) \cup {d}
         /\ Untold(tx'[s], broken, d)
         /\ \A e \in DocIds(tx'[s]) \ {d} : Accounted(tx'[s], broken, e)
<1> DEFINE n == created.documents
           P == tx[s]
           Q == tx'[s]
           row == [id |-> d, doc_type |-> u.doc_type, domain |-> Route(u)]
<1>1. /\ n \in Nat /\ d = n + 1 /\ d \notin 1 .. n /\ created'.documents = d
      /\ DOMAIN created' = {"cases", "documents"} /\ DOMAIN tx' = Sessions
  BY DEF IInv, Shape, InsertDocument
<1>2. /\ \A t \in Sessions \ {s} : tx'[t] = tx[t]
      /\ pc[s] = "case"
  BY DEF IInv, Shape, InsertDocument
<1>3. Good(P, n, files) /\ \A e \in DocIds(P) : Accounted(P, broken, e)
  BY <1>2 DEF IInv, InOrder
<1>4. /\ DOMAIN Q = Tables /\ Q.documents = P.documents \cup {row}
      /\ Q.versions = P.versions /\ Q.events = P.events
  BY <1>3 DEF IInv, Shape, InsertDocument, Good, Tables
<1>5. DocIds(Q) = DocIds(P) \cup {d}
  <2>1. row.id = d
    OBVIOUS
  <2> HIDE DEF P, Q, row
  <2> QED
    BY <1>4, <2>1 DEF DocIds
<1>6. ASSUME NEW R, Good(R, n, files) PROVE Good(R, d, files')
  <2>1. \A v \in R.versions : v.document \in 1 .. n
    BY <1>6 DEF Good, Local, Numbered
  <2>2. \A v \in R.versions : Harmless(Ref(d, u.filename), content, v.document)
    BY <1>1, <2>1, RefLeads DEF Harmless, ParsedRef
  <2>3. Good(R, n, files')
    BY <1>6, <2>2, WriteKeepsGood
  <2> QED
    BY <1>1, <2>3 DEF Good, Numbered
<1>7. /\ Good(P, d, files') /\ Good(db, d, files')
      /\ \A t \in Sessions \ {s} : Good(tx[t], d, files')
  BY <1>3, <1>6 DEF IInv
<1>8. Route(u) \in Routes
  <2>1. Classified(u)
    BY DEF InsertDocument
  <2>2. CASE u.explicit # "none"
    BY <2>1, <2>2 DEF Classified, Route
  <2>3. CASE u.explicit = "none"
    <3>1. Route(u) = Default(u.doc_type) /\ Route(u) # "none"
      BY <2>1, <2>3 DEF Classified, Route
    <3>2. Default(u.doc_type) \in {"security", "privacy_ai_governance", "none"}
      BY DefaultRoutes
    <3> QED
      BY <3>1, <3>2 DEF Routes
  <2> QED
    BY <2>2, <2>3
<1>9. Good(Q, d, files')
  BY <1>1, <1>4, <1>5, <1>7, <1>8 DEF Good, Local, Numbered, Texts, Routed
<1>10. \A e : VersionsOf(Q, e) = VersionsOf(P, e) /\ Q.events = P.events
  BY <1>4 DEF VersionsOf
<1>11. Untold(Q, broken, d)
  <2>1. DocIds(P) \subseteq 1 .. n /\ Local(P)
    BY <1>3 DEF Good, Numbered
  <2>2. VersionsOf(P, d) = {}
    BY <1>1, <2>1 DEF VersionsOf, Local
  <2>3. Ingested(d) \notin P.events /\ Failed(d) \notin P.events
    BY <1>1, <2>1 DEF Local, Ingested, Failed
  <2>4. d \notin broken
    BY <1>1 DEF IInv, Shape
  <2> QED
    BY <1>10, <2>2, <2>3, <2>4 DEF Untold
<1>12. \A e \in DocIds(Q) \ {d} : Accounted(Q, broken, e)
  BY <1>3, <1>5, <1>10 DEF Accounted
<1> QED
  BY <1>1, <1>2, <1>5, <1>7, <1>9, <1>11, <1>12

LEMMA SaveOriginalKeepsIInv ==
  ASSUME IInv, NEW s \in Sessions, NEW u \in Uploads, SaveOriginal(s, u)
  PROVE  IInv'
<1>1. PICK d : d = created.documents + 1
  OBVIOUS
<1>2. /\ InsertDocument(s, u, d) /\ files' = Write(Ref(d, u.filename), Original(d, u.form))
      /\ Original(d, u.form)[1] = d
  BY <1>1 DEF SaveOriginal, Original
<1>3. /\ created.documents \in Nat /\ d \notin 1 .. created.documents
      /\ created'.documents = d
      /\ DOMAIN created' = {"cases", "documents"} /\ DOMAIN tx' = Sessions
      /\ \A t \in Sessions \ {s} : tx'[t] = tx[t]
      /\ Good(db, d, files') /\ \A t \in Sessions \ {s} : Good(tx[t], d, files')
      /\ Good(tx'[s], d, files') /\ DocIds(tx'[s]) = DocIds(tx[s]) \cup {d}
      /\ Untold(tx'[s], broken, d)
      /\ \A e \in DocIds(tx'[s]) \ {d} : Accounted(tx'[s], broken, e)
  BY <1>2, InsertDocumentAdds
<1>4. /\ \A t \in Sessions \ {s} : pc'[t] = pc[t] /\ upload'[t] = upload[t]
      /\ pc'[s] = "saved" /\ upload'[s].document = d /\ UNCHANGED << db, broken >>
  BY <1>1 DEF IInv, Shape, SaveOriginal, InsertDocument, Goto
<1>5. Shape'
  BY <1>1, <1>3, <1>4 DEF IInv, Shape, SaveOriginal, Goto
<1>6. InOrder(tx'[s], broken', pc'[s], upload'[s].document)
  BY <1>3, <1>4 DEF InOrder
<1> QED
  BY <1>3, <1>4, <1>5, <1>6, SessionStep

LEMMA SaveFailsKeepsIInv ==
  ASSUME IInv, NEW s \in Sessions, NEW u \in Uploads, SaveFails(s, u)
  PROVE  IInv'
<1>1. PICK d : d = created.documents + 1
  OBVIOUS
<1>2. /\ InsertDocument(s, u, d)
      /\ files' = files \/ files' = Write(Ref(d, u.filename), Partial(d))
      /\ Partial(d)[1] = d
  BY <1>1 DEF SaveFails, Partial
<1>3. /\ created.documents \in Nat /\ d \notin 1 .. created.documents
      /\ created'.documents = d
      /\ DOMAIN created' = {"cases", "documents"} /\ DOMAIN tx' = Sessions
      /\ \A t \in Sessions \ {s} : tx'[t] = tx[t]
      /\ Good(db, d, files') /\ \A t \in Sessions \ {s} : Good(tx[t], d, files')
      /\ Good(tx'[s], d, files') /\ DocIds(tx'[s]) = DocIds(tx[s]) \cup {d}
      /\ Untold(tx'[s], broken, d)
      /\ \A e \in DocIds(tx'[s]) \ {d} : Accounted(tx'[s], broken, e)
  BY <1>2, InsertDocumentAdds
<1>4. /\ \A t \in Sessions \ {s} : pc'[t] = pc[t] /\ upload'[t] = upload[t]
      /\ pc'[s] = "failed" /\ UNCHANGED db /\ broken' = broken \cup {d}
  BY <1>1 DEF IInv, Shape, SaveFails, InsertDocument, Goto
<1>5. Shape'
  <2>1. broken' \subseteq 1 .. created'.documents
    <3>1. \A k \in 1 .. created.documents : k \in 1 .. d
      BY <1>1, <1>3
    <3>2. d \in 1 .. d
      BY <1>1, <1>3
    <3> QED
      BY <1>3, <1>4, <3>1, <3>2 DEF IInv, Shape
  <2>2. UNCHANGED upload /\ DOMAIN pc' = Sessions
    BY DEF IInv, Shape, SaveFails, Goto
  <2> QED
    BY <1>1, <1>3, <2>1, <2>2 DEF IInv, Shape
<1>6. Accounted(tx'[s], broken', d)
  BY <1>3, <1>4 DEF Accounted, Untold
<1>7. \A e \in DocIds(tx'[s]) \ {d} : Accounted(tx'[s], broken', e)
  BY <1>3, <1>4 DEF Accounted
<1>8. InOrder(tx'[s], broken', pc'[s], upload'[s].document)
  BY <1>3, <1>4, <1>6, <1>7 DEF InOrder
<1> QED
  BY <1>3, <1>4, <1>5, <1>8, SessionStep

-----------------------------------------------------------------------------
\* The parser's outcome for the document d in hand: version and event, or the
\* event alone.
LEMMA OutcomeInOrder ==
  ASSUME NEW P, NEW Q, NEW B, NEW d, d # 0, Local(P),
         InOrder(P, B, "saved", d),
         Q.documents = P.documents,
         \/ \E v : /\ v.document = d /\ Q.versions = P.versions \cup {v}
                   /\ Q.events = P.events \cup {Ingested(d)}
         \/ Q.versions = P.versions /\ Q.events = P.events \cup {Failed(d)}
  PROVE  DocIds(Q) = DocIds(P) /\ Local(Q) /\ \A e \in DocIds(Q) : Accounted(Q, B, e)
<1>1. DocIds(Q) = DocIds(P) /\ d \in DocIds(P)
  BY DEF DocIds, InOrder
<1>2. \A e : /\ Ingested(e).document = e /\ Failed(e).document = e
             /\ Ingested(d) # Failed(e) /\ Failed(d) # Ingested(e)
             /\ e # d => Ingested(d) # Ingested(e) /\ Failed(d) # Failed(e)
  BY DEF Ingested, Failed
<1>3. Local(Q)
  BY <1>1, <1>2 DEF Local
<1>4. \A e \in DocIds(Q) \ {d} : Accounted(Q, B, e)
  <2> SUFFICES ASSUME NEW e \in DocIds(Q) \ {d} PROVE Accounted(Q, B, e)
    OBVIOUS
  <2>1. Accounted(P, B, e)
    BY <1>1 DEF InOrder
  <2>2. VersionsOf(Q, e) = VersionsOf(P, e)
    BY DEF VersionsOf
  <2>3. /\ Ingested(e) \in Q.events <=> Ingested(e) \in P.events
        /\ Failed(e) \in Q.events <=> Failed(e) \in P.events
    BY <1>2
  <2> QED
    BY <2>1, <2>2, <2>3 DEF Accounted
<1>5. Accounted(Q, B, d)
  <2>1. Untold(P, B, d)
    BY DEF InOrder
  <2>2. CASE \E v : /\ v.document = d /\ Q.versions = P.versions \cup {v}
                    /\ Q.events = P.events \cup {Ingested(d)}
    <3>1. \E v : VersionsOf(Q, d) = {v}
      BY <2>1, <2>2 DEF VersionsOf, Untold
    <3>2. Ingested(d) \in Q.events /\ Failed(d) \notin Q.events /\ d \notin B
      BY <1>2, <2>1, <2>2 DEF Untold
    <3> QED
      BY <3>1, <3>2 DEF Accounted
  <2>3. CASE Q.versions = P.versions /\ Q.events = P.events \cup {Failed(d)}
    <3>1. VersionsOf(Q, d) = {}
      BY <2>1, <2>3 DEF VersionsOf, Untold
    <3>2. Ingested(d) \notin Q.events /\ Failed(d) \in Q.events /\ d \notin B
      BY <1>2, <2>1, <2>3 DEF Untold
    <3> QED
      BY <3>1, <3>2 DEF Accounted
  <2> QED
    BY <2>2, <2>3
<1> QED
  BY <1>1, <1>3, <1>4, <1>5

\* The document a session has in hand is in its own rows only, and nothing is
\* known of it yet.
LEMMA DocumentInHand ==
  ASSUME IInv, NEW s \in Sessions, pc[s] = "saved", NEW d, d = upload[s].document
  PROVE  /\ Good(tx[s], created.documents, files) /\ InOrder(tx[s], broken, "saved", d)
         /\ d \in 1 .. created.documents /\ d # 0 /\ d \in DocIds(tx[s])
         /\ \A v \in db.versions \cup tx[s].versions : v.document # d
         /\ \A t \in Sessions \ {s} : \A v \in tx[t].versions : v.document # d
<1>1. Good(tx[s], created.documents, files) /\ InOrder(tx[s], broken, "saved", d)
  BY DEF IInv
<1>2. d \in DocIds(tx[s]) /\ d \in 1 .. created.documents /\ d # 0
  BY <1>1 DEF InOrder, Good, Numbered, IInv, Shape
<1>3. \A v \in tx[s].versions : v.document # d
  BY <1>1 DEF InOrder, Untold, VersionsOf
<1>4. \A v \in db.versions : v.document # d
  BY <1>2 DEF IInv, Apart, Good, Local
<1>5. \A t \in Sessions \ {s} : \A v \in tx[t].versions : v.document # d
  BY <1>2 DEF IInv, Apart, Good, Local
<1> QED
  BY <1>1, <1>2, <1>3, <1>4, <1>5

\* Its text, whole or in part, takes nobody else's away.
LEMMA TextKeepsGood ==
  ASSUME IInv, NEW s \in Sessions, pc[s] = "saved", NEW content,
         files' = files \/ files' = Write(ParsedRef(upload[s].document), content)
  PROVE  /\ Good(db, created.documents, files')
         /\ \A t \in Sessions : Good(tx[t], created.documents, files')
<1>1. PICK d : d = upload[s].document
  OBVIOUS
<1>2. /\ \A v \in db.versions \cup tx[s].versions : v.document # d
      /\ \A t \in Sessions \ {s} : \A v \in tx[t].versions : v.document # d
  BY <1>1, DocumentInHand
<1>3. ASSUME NEW R, Good(R, created.documents, files), \A v \in R.versions : v.document # d
      PROVE  Good(R, created.documents, files')
  <2>1. \A v \in R.versions : Harmless(ParsedRef(d), content, v.document)
    BY <1>3 DEF Harmless, ParsedRef
  <2> QED
    BY <1>1, <1>3, <2>1, WriteKeepsGood
<1> QED
  BY <1>2, <1>3 DEF IInv

LEMMA StoreVersionKeepsIInv ==
  ASSUME IInv, NEW s \in Sessions, StoreVersion(s)
  PROVE  IInv'
<1> DEFINE n == created.documents
           d == upload[s].document
           P == tx[s]
           Q == tx'[s]
           v == [document |-> d, storage_ref |-> Ref(d, upload[s].filename),
                 parsed_text_ref |-> ParsedRef(d),
                 content_hash |-> Original(d, upload[s].form)]
<1>1. /\ Shape' /\ UNCHANGED << db, created, broken >>
      /\ files' = Write(ParsedRef(d), Text(d))
      /\ \A t \in Sessions \ {s} :
           tx'[t] = tx[t] /\ pc'[t] = pc[t] /\ upload'[t] = upload[t]
      /\ pc[s] = "saved" /\ pc'[s] = "case"
  BY DEF IInv, Shape, StoreVersion, InsertVersion, Goto, NoUpload
<1>2. Good(P, n, files) /\ InOrder(P, broken, "saved", d) /\ d # 0
  BY <1>1, DocumentInHand
<1>3. /\ DOMAIN Q = Tables /\ Q.documents = P.documents
      /\ Q.versions = P.versions \cup {v} /\ Q.events = P.events \cup {Ingested(d)}
  BY <1>2 DEF IInv, Shape, StoreVersion, InsertVersion, Good, Tables, Ingested
<1>4. v.document = d /\ v.parsed_text_ref = ParsedRef(d)
  OBVIOUS
<1> HIDE DEF v
<1>5. DocIds(Q) = DocIds(P) /\ Local(Q) /\ \A e \in DocIds(Q) : Accounted(Q, broken, e)
  BY <1>2, <1>3, <1>4, OutcomeInOrder DEF Good
<1>6. /\ Good(db, n, files') /\ \A t \in Sessions : Good(tx[t], n, files')
  BY <1>1, TextKeepsGood
<1>7. Readable(files', d)
  BY <1>1, ContentsAfterWrite DEF Readable
<1>8. Good(Q, n, files')
  <2>1. Good(P, n, files')
    BY <1>6
  <2>2. Texts(Q, files')
    BY <1>3, <1>4, <1>7, <2>1 DEF Good, Texts
  <2> QED
    BY <1>3, <1>5, <2>1, <2>2 DEF Good, Numbered, Routed
<1>9. InOrder(Q, broken', pc'[s], upload'[s].document)
  BY <1>1, <1>5 DEF InOrder
<1> QED
  BY <1>1, <1>5, <1>6, <1>8, <1>9, SessionStep

LEMMA FailToParseKeepsIInv ==
  ASSUME IInv, NEW s \in Sessions, FailToParse(s)
  PROVE  IInv'
<1> DEFINE n == created.documents
           d == upload[s].document
           P == tx[s]
           Q == tx'[s]
<1>1. /\ Shape' /\ UNCHANGED << db, created, files, broken >>
      /\ \A t \in Sessions \ {s} :
           tx'[t] = tx[t] /\ pc'[t] = pc[t] /\ upload'[t] = upload[t]
      /\ pc[s] = "saved" /\ pc'[s] = "failed"
  BY DEF IInv, Shape, FailToParse, Goto, NoUpload
<1>2. Good(P, n, files) /\ InOrder(P, broken, "saved", d) /\ d # 0
  BY <1>1, DocumentInHand
<1>3. /\ DOMAIN Q = Tables /\ Q.documents = P.documents
      /\ Q.versions = P.versions /\ Q.events = P.events \cup {Failed(d)}
  BY <1>2 DEF IInv, Shape, FailToParse, Good, Tables, Failed
<1>4. DocIds(Q) = DocIds(P) /\ Local(Q) /\ \A e \in DocIds(Q) : Accounted(Q, broken, e)
  BY <1>2, <1>3, OutcomeInOrder DEF Good
<1>5. Good(Q, n, files')
  BY <1>1, <1>2, <1>3, <1>4 DEF Good, Numbered, Texts, Routed
<1>6. InOrder(Q, broken', pc'[s], upload'[s].document)
  BY <1>1, <1>4 DEF InOrder
<1>7. Good(db, n, files') /\ \A t \in Sessions : Good(tx[t], n, files')
  BY <1>1 DEF IInv
<1> QED
  BY <1>1, <1>4, <1>5, <1>6, <1>7, SessionStep

LEMMA IngestBreaksKeepsIInv ==
  ASSUME IInv, NEW s \in Sessions, IngestBreaks(s)
  PROVE  IInv'
<1> DEFINE n == created.documents
           P == tx[s]
<1>1. PICK d : d = upload[s].document
  OBVIOUS
<1>2. /\ UNCHANGED << db, created, tx >> /\ broken' = broken \cup {d}
      /\ files' = files \/ files' = Write(ParsedRef(d), Partial(d))
      /\ \A t \in Sessions \ {s} :
           tx'[t] = tx[t] /\ pc'[t] = pc[t] /\ upload'[t] = upload[t]
      /\ pc[s] = "saved" /\ pc'[s] = "failed"
  BY <1>1 DEF IInv, Shape, IngestBreaks, Goto
<1>3. /\ Good(P, n, files) /\ InOrder(P, broken, "saved", d)
      /\ d \in 1 .. n /\ d \in DocIds(P)
  BY <1>1, <1>2, DocumentInHand
<1>4. Shape'
  BY <1>2, <1>3 DEF IInv, Shape, IngestBreaks, Goto, NoUpload
<1>5. Good(db, n, files') /\ \A t \in Sessions : Good(tx[t], n, files')
  BY <1>1, <1>2, TextKeepsGood
<1>6. Accounted(P, broken', d)
  BY <1>2, <1>3 DEF InOrder, Accounted, Untold
<1>7. \A e \in DocIds(P) \ {d} : Accounted(P, broken', e)
  BY <1>2, <1>3 DEF InOrder, Accounted
<1>8. InOrder(tx'[s], broken', pc'[s], upload'[s].document)
  BY <1>2, <1>6, <1>7 DEF InOrder
<1> QED
  BY <1>2, <1>3, <1>4, <1>5, <1>8, SessionStep

-----------------------------------------------------------------------------
\* Rows of different documents, put together, stay accounted for.
LEMMA MergeInOrder ==
  ASSUME NEW P, NEW Q, NEW M, NEW B, NEW n \in Nat, NEW F,
         Good(P, n, F), Good(Q, n, F), DOMAIN M = Tables,
         M.documents = P.documents \cup Q.documents,
         M.versions = P.versions \cup Q.versions,
         M.events = P.events \cup Q.events,
         DocIds(P) \cap DocIds(Q) = {},
         \A d \in DocIds(P) : Accounted(P, B, d), \A d \in DocIds(Q) : Accounted(Q, B, d)
  PROVE  /\ Good(M, n, F) /\ DocIds(M) = DocIds(P) \cup DocIds(Q)
         /\ \A d \in DocIds(M) : Accounted(M, B, d)
<1>1. DocIds(M) = DocIds(P) \cup DocIds(Q)
  BY DEF DocIds
<1>2. Good(M, n, F)
  BY <1>1 DEF Good, Local, Numbered, Texts, Routed
<1>3. \A d : Ingested(d).document = d /\ Failed(d).document = d
  BY DEF Ingested, Failed
<1>4. \A d \in DocIds(P) : d # 0 /\ d \notin DocIds(Q)
  BY DEF Good, Numbered
<1>5. \A d \in DocIds(Q) : d # 0 /\ d \notin DocIds(P)
  BY DEF Good, Numbered
<1>6. ASSUME NEW d \in DocIds(P) PROVE Accounted(M, B, d)
  <2>1. VersionsOf(M, d) = VersionsOf(P, d)
    BY <1>4 DEF VersionsOf, Good, Local
  <2>2. /\ Ingested(d) \in M.events <=> Ingested(d) \in P.events
        /\ Failed(d) \in M.events <=> Failed(d) \in P.events
    BY <1>3, <1>4 DEF Good, Local
  <2> QED
    BY <2>1, <2>2 DEF Accounted
<1>7. ASSUME NEW d \in DocIds(Q) PROVE Accounted(M, B, d)
  <2>1. VersionsOf(M, d) = VersionsOf(Q, d)
    BY <1>5 DEF VersionsOf, Good, Local
  <2>2. /\ Ingested(d) \in M.events <=> Ingested(d) \in Q.events
        /\ Failed(d) \in M.events <=> Failed(d) \in Q.events
    BY <1>3, <1>5 DEF Good, Local
  <2> QED
    BY <2>1, <2>2 DEF Accounted
<1> QED
  BY <1>1, <1>2, <1>6, <1>7

LEMMA CommitKeepsIInv == ASSUME IInv, NEW s \in Sessions, Commit(s) PROVE IInv'
<1> DEFINE n == created.documents
<1>1. /\ Shape' /\ UNCHANGED << created, files, upload, broken >>
      /\ tx'[s] = NoRows /\ pc[s] = "case" /\ pc'[s] = "idle"
      /\ \A t \in Sessions \ {s} : tx'[t] = tx[t] /\ pc'[t] = pc[t]
      /\ n \in Nat
  BY DEF IInv, Shape, Commit, Goto
<1>2. /\ Good(db, n, files) /\ Good(tx[s], n, files)
      /\ DocIds(db) \cap DocIds(tx[s]) = {}
      /\ (\A d \in DocIds(db) : Accounted(db, broken, d))
      /\ (\A d \in DocIds(tx[s]) : Accounted(tx[s], broken, d))
  BY <1>1 DEF IInv, Apart, InOrder
<1>3. /\ DOMAIN db' = Tables
      /\ db'.documents = db.documents \cup tx[s].documents
      /\ db'.versions = db.versions \cup tx[s].versions
      /\ db'.events = db.events \cup tx[s].events
  BY <1>2 DEF Commit, Good, Tables
<1>4. /\ Good(db', n, files) /\ DocIds(db') = DocIds(db) \cup DocIds(tx[s])
      /\ \A d \in DocIds(db') : Accounted(db', broken, d)
  BY <1>1, <1>2, <1>3, MergeInOrder
<1>5. \A t \in Sessions : Good(tx'[t], n, files) /\ InOrder(tx'[t], broken', pc'[t], upload'[t].document)
  BY <1>1, NoRowsIsGood DEF IInv
<1>6. Apart'
  <2>1. DocIds(tx'[s]) = {}
    BY <1>1, NoRowsIsGood
  <2>2. \A t \in Sessions \ {s} : DocIds(tx'[t]) = DocIds(tx[t])
    BY <1>1
  <2> QED
    BY <1>4, <2>1, <2>2 DEF IInv, Apart
<1> QED
  BY <1>1, <1>4, <1>5, <1>6 DEF IInv

LEMMA NextIInv == ASSUME IInv, [Next]_vars PROVE IInv'
<1>1. CASE UNCHANGED vars
  BY <1>1 DEF vars, IInv, Shape, Apart
<1> QED
  BY <1>1, VendorKeepsIInv, RefuseKeepsIInv, SaveOriginalKeepsIInv, SaveFailsKeepsIInv,
     StoreVersionKeepsIInv, FailToParseKeepsIInv, IngestBreaksKeepsIInv, BreakKeepsIInv, GoOnKeepsIInv, RollbackKeepsIInv,
     CommitKeepsIInv DEF Next

\* What is known of the database, the sessions and the files holds in every
\* state of the intake.
THEOREM Inductive == Spec => []IInv
  BY InitIInv, NextIInv, PTL DEF Spec

-----------------------------------------------------------------------------
\* The parsed text of a committed version is on disk, its own or that of a
\* document whose filename leads there, whatever sessions committed, rolled back
\* or lost half way since.
THEOREM TextStaysReadable == Spec => []ParsedTextIsReadable
<1>1. IInv => ParsedTextIsReadable
  BY DEF IInv, Good, Texts, Readable, ParsedTextIsReadable, Contents, ContentsIn
<1> QED
  BY <1>1, Inductive, PTL

\* Every committed document has its version, or the event that says why not, or
\* was broken by an exception ingest_document does not handle.
THEOREM DocumentsAccounted == Spec => []EveryDocumentIsAccountedFor
<1>1. ASSUME IInv PROVE EveryDocumentIsAccountedFor
  <2> SUFFICES ASSUME NEW d \in DocIds(db)
               PROVE  LET versions == VersionsOf(db, d) IN
                      \/ /\ Cardinality(versions) = 1 /\ d \notin broken
                         /\ Happened("document.ingested", d)
                         /\ ~ Happened("document.parse_failed", d)
                      \/ /\ versions = {} /\ ~ Happened("document.ingested", d)
                         /\ Happened("document.parse_failed", d) <=> d \notin broken
    BY DEF EveryDocumentIsAccountedFor, VersionsOf, DocIds
  <2>1. Accounted(db, broken, d)
    BY <1>1 DEF IInv
  <2>2. (\E v : VersionsOf(db, d) = {v}) => Cardinality(VersionsOf(db, d)) = 1
    BY FS_Singleton
  <2> QED
    BY <2>1, <2>2 DEF Accounted, Happened, Ingested, Failed
<1> QED
  BY <1>1, Inductive, PTL

\* Every committed document is read by the investigators its domain names, by
\* one at least, and by no other, whatever was uploaded.
THEOREM DocumentsRead == Spec => []NoDocumentIsUnread
<1>1. ASSUME IInv PROVE NoDocumentIsUnread
  <2> SUFFICES ASSUME NEW d \in db.documents
               PROVE  LET readers == {a \in DOMAIN AllowedDomain :
                                        d \in BuildContext(db.documents, a)} IN
                      /\ readers # {}
                      /\ d.domain = "both" => readers = DOMAIN AllowedDomain
                      /\ d.domain # "both" => \A a \in readers : AllowedDomain[a] = d.domain
    BY DEF NoDocumentIsUnread
  <2>1. d.domain \in Routes
    BY <1>1 DEF IInv, Good, Routed
  <2>2. /\ DOMAIN AllowedDomain = {"security_investigator", "privacy_investigator"}
        /\ AllowedDomain["security_investigator"] = "security"
        /\ AllowedDomain["privacy_investigator"] = "privacy_ai_governance"
    BY DEF AllowedDomain
  <2>3. \A a : d \in BuildContext(db.documents, a) <=> d.domain \in {AllowedDomain[a], "both"}
    BY DEF BuildContext
  <2> QED
    BY <2>1, <2>2, <2>3 DEF Routes
<1> QED
  BY <1>1, Inductive, PTL

-----------------------------------------------------------------------------
\* Types.  Between the steps of its transaction a session remembers a vendor or
\* a document that fits the rows it is about to write (Remembered).

VendorRows   == [id : 1 .. MaxCases, name : Vendors]
CaseRows     == [id : 1 .. MaxCases, vendor : 1 .. MaxCases]
DocumentRows == [id : Documents, doc_type : DocTypes, domain : Routes]
VersionRows  == [document : Documents, storage_ref : Refs, parsed_text_ref : Refs,
                 content_hash : Content]
EventRows    == [type : {"case.created", "document.ingested", "document.parse_failed"},
                 document : 0 .. MaxDocuments]
Forms        == [vendor : Vendors \cup {"none"}, document : 0 .. MaxDocuments,
                 filename : Filenames \cup {"none"}, form : {"text", "binary", "none"}]
Labels       == {"idle", "missing", "case", "saved", "failed", "raised"}
File         == [ref : Refs, content : Content]

FilesOK == files \subseteq File /\ \A f, g \in files : f.ref = g.ref => f = g

CountsOK == created \in [cases : 0 .. MaxCases, documents : 0 .. MaxDocuments]

\* What a session works on, where it is.
Remembered(label, u) ==
  /\ label \in Labels /\ u \in Forms
  /\ label = "missing" => u.vendor \in Vendors
  /\ label = "saved" => u.document \in Documents /\ u.filename \in Filenames
                        /\ u.form \in {"text", "binary"}

TypeInv ==
  /\ db \in Rows /\ FilesOK /\ CountsOK
  /\ tx \in [Sessions -> Rows] /\ pc \in [Sessions -> Labels] /\ upload \in [Sessions -> Forms]
  /\ \A s \in Sessions : Remembered(pc[s], upload[s])
  /\ broken \subseteq Documents

LEMMA RowsAre ==
  Rows = [vendors : SUBSET VendorRows, cases : SUBSET CaseRows, documents : SUBSET DocumentRows,
          versions : SUBSET VersionRows, events : SUBSET EventRows]
  BY DEF Rows, VendorRows, CaseRows, DocumentRows, VersionRows, EventRows

LEMMA NothingIsTyped ==
  /\ NoRows \in Rows /\ NoUpload \in Forms
  /\ \A label \in Labels \ {"missing", "saved"} : Remembered(label, NoUpload)
<1>1. NoRows \in Rows
  BY RowsAre, Zenon DEF NoRows
<1>2. NoUpload \in Forms
  BY IntakeAssumption DEF NoUpload, Forms
<1> QED
  BY <1>1, <1>2 DEF Remembered

LEMMA InitTypeInv == Init => TypeInv
  BY NothingIsTyped, IntakeAssumption DEF Init, TypeInv, FilesOK, CountsOK, Labels

\* A step of one session that leaves the database alone.
SessionWrites(s, P, label, u) ==
  /\ tx' = [tx EXCEPT ![s] = P] /\ pc' = [pc EXCEPT ![s] = label]
  /\ upload' = [upload EXCEPT ![s] = u] /\ UNCHANGED db
  /\ broken' \subseteq Documents

LEMMA SessionStepTypes ==
  ASSUME TypeInv, NEW s \in Sessions, NEW P \in Rows, NEW label, NEW u, Remembered(label, u),
         SessionWrites(s, P, label, u), FilesOK', CountsOK'
  PROVE  TypeInv'
<1>1. label \in Labels /\ u \in Forms
  BY DEF Remembered
<1> QED
  BY <1>1 DEF TypeInv, SessionWrites

LEMMA InsertCaseKeepsTypes ==
  ASSUME TypeInv, NEW s \in Sessions, created.cases < MaxCases,
         NEW id \in 1 .. MaxCases, NEW newVendors \in SUBSET VendorRows,
         InsertCase(s, id, newVendors), UNCHANGED << db, files, broken >>,
         upload' \in {upload, [upload EXCEPT ![s] = NoUpload]}
  PROVE  TypeInv'
<1> DEFINE n == created.cases + 1
           case   == [id |-> n, vendor |-> id]
           event  == [type |-> "case.created", document |-> 0]
           P      == [tx[s] EXCEPT !.vendors = newVendors, !.cases = {case}, !.events = {event}]
<1>1. n \in 1 .. MaxCases /\ CountsOK' /\ FilesOK'
  BY IntakeAssumption DEF TypeInv, CountsOK, FilesOK, InsertCase
<1>2. case \in CaseRows /\ event \in EventRows
  BY <1>1, IntakeAssumption DEF CaseRows, EventRows
<1>3. tx' = [tx EXCEPT ![s] = P] /\ pc' = [pc EXCEPT ![s] = "case"]
  BY DEF InsertCase, Goto, TypeInv
<1> HIDE DEF n, case, event
<1>4. P \in Rows
  BY <1>2, RowsAre DEF TypeInv
<1> HIDE DEF P
<1>5. PICK u : upload'[s] = u
  OBVIOUS
<1>6. upload' = [upload EXCEPT ![s] = u] /\ u \in {upload[s], NoUpload}
  BY <1>5 DEF TypeInv
<1>7. u \in Forms
  BY <1>6, NothingIsTyped DEF TypeInv, Remembered
<1>8. Remembered("case", u) /\ broken' \subseteq Documents
  BY <1>7 DEF Remembered, Labels, TypeInv
<1> QED
  BY <1>1, <1>3, <1>4, <1>6, <1>8, SessionStepTypes DEF SessionWrites

LEMMA VendorKeepsTypes ==
  ASSUME TypeInv, NEW s \in Sessions,
         InsertVendor(s) \/ \E name \in Vendors : LookUpVendor(s, name)
  PROVE  TypeInv'
<1>1. CASE InsertVendor(s)
  <2> DEFINE n == created.cases + 1
             vendor == [id |-> n, name |-> upload[s].vendor]
  <2>1. created.cases < MaxCases /\ n \in 1 .. MaxCases
    BY <1>1, IntakeAssumption DEF InsertVendor, TypeInv, CountsOK
  <2>2. vendor \in VendorRows
    BY <1>1, <2>1 DEF InsertVendor, TypeInv, Remembered, VendorRows
  <2>3. InsertCase(s, n, {vendor}) /\ UNCHANGED << db, files, broken >>
        /\ upload' = [upload EXCEPT ![s] = NoUpload]
    BY <1>1 DEF InsertVendor
  <2> HIDE DEF n, vendor
  <2> QED
    BY <2>1, <2>2, <2>3, InsertCaseKeepsTypes
<1>2. ASSUME NEW name \in Vendors, LookUpVendor(s, name) PROVE TypeInv'
  <2>1. created.cases < MaxCases /\ UNCHANGED << db, files, broken >> /\ FilesOK'
    BY <1>2 DEF LookUpVendor, TypeInv, FilesOK
  <2>2. CASE \E v \in db.vendors : InsertCase(s, v.id, {}) /\ UNCHANGED upload
    <3>1. \A v \in db.vendors : v.id \in 1 .. MaxCases
      BY RowsAre DEF TypeInv, VendorRows
    <3> QED
      BY <2>1, <2>2, <3>1, InsertCaseKeepsTypes
  <2>3. CASE /\ UNCHANGED << tx, created >>
             /\ \/ Goto(s, "missing") /\ upload' = [upload EXCEPT ![s].vendor = name]
                \/ Goto(s, "raised") /\ UNCHANGED upload
    <3> DEFINE u == [upload[s] EXCEPT !.vendor = name]
    <3>1. upload[s] \in Forms
      BY DEF TypeInv, Remembered
    <3>2. u \in Forms /\ u.vendor = name
      BY <3>1 DEF Forms
    <3>3. Remembered("missing", u) /\ Remembered("raised", upload[s])
      BY <3>1, <3>2 DEF Remembered, Labels
    <3>4. \/ pc' = [pc EXCEPT ![s] = "missing"] /\ upload' = [upload EXCEPT ![s] = u]
          \/ pc' = [pc EXCEPT ![s] = "raised"] /\ UNCHANGED upload
      BY <2>3 DEF Goto, TypeInv
    <3> HIDE DEF u
    <3>5. CountsOK' /\ UNCHANGED << db, tx, broken >> /\ tx[s] \in Rows
      BY <2>1, <2>3 DEF TypeInv, CountsOK
    <3>6. \/ SessionWrites(s, tx[s], "missing", u)
          \/ SessionWrites(s, tx[s], "raised", upload[s])
      BY <3>4, <3>5 DEF TypeInv, SessionWrites
    <3> QED
      BY <2>1, <3>3, <3>5, <3>6, SessionStepTypes
  <2> QED
    BY <1>2, <2>2, <2>3 DEF LookUpVendor
<1> QED
  BY <1>1, <1>2

\* The steps that write no row: a refusal, an exception, going on.
LEMMA GotoKeepsTypes ==
  ASSUME TypeInv, NEW s \in Sessions, NEW label \in Labels \ {"missing", "saved"},
         Goto(s, label), UNCHANGED << db, files, created, tx, broken >>,
         upload' \in {upload, [upload EXCEPT ![s] = NoUpload]}
  PROVE  TypeInv'
<1>1. upload[s] \in Forms /\ NoUpload \in Forms
  BY NothingIsTyped DEF TypeInv, Remembered
<1>2. Remembered(label, upload[s]) /\ Remembered(label, NoUpload)
  BY <1>1 DEF Remembered
<1>3. FilesOK' /\ CountsOK'
  BY DEF TypeInv, FilesOK, CountsOK
<1>4. /\ tx[s] \in Rows
      /\ \/ SessionWrites(s, tx[s], label, upload[s])
         \/ SessionWrites(s, tx[s], label, NoUpload)
  BY DEF Goto, TypeInv, SessionWrites
<1> QED
  BY <1>2, <1>3, <1>4, SessionStepTypes

LEMMA WriteKeepsFiles ==
  ASSUME FilesOK, NEW ref \in Refs, NEW content \in Content, files' = Write(ref, content)
  PROVE  FilesOK'
<1> DEFINE new == [ref |-> ref, content |-> content]
<1>1. new \in File /\ new.ref = ref
  BY DEF File
<1>2. files' = {f \in files : f.ref # ref} \cup {new}
  BY DEF Write
<1> HIDE DEF new
<1> QED
  BY <1>1, <1>2 DEF FilesOK

LEMMA RefTypes ==
  ASSUME NEW d \in Documents
  PROVE  /\ \A name \in Filenames : Ref(d, name) \in Refs
         /\ ParsedRef(d) \in Refs
         /\ \A form \in {"text", "binary"} : Original(d, form) \in Content
         /\ Text(d) \in Content /\ Partial(d) \in Content
<1>1. d \in 0 .. MaxDocuments
  BY IntakeAssumption DEF Documents
<1>2. \A name \in Filenames : Ref(d, name) \in Refs
  BY <1>1, IntakeAssumption DEF Ref, Refs
<1> QED
  BY <1>1, <1>2 DEF ParsedRef, Refs, Original, Text, Partial, Content

\* The new document's row fits its table.
LEMMA InsertDocumentTypes ==
  ASSUME TypeInv, NEW s \in Sessions, NEW u \in Uploads, NEW d, InsertDocument(s, u, d)
  PROVE  /\ d \in Documents /\ CountsOK' /\ UNCHANGED db
         /\ u.form \in {"text", "binary"} /\ u.filename \in Filenames
         /\ \E P \in Rows : tx' = [tx EXCEPT ![s] = P]
<1> DEFINE row == [id |-> d, doc_type |-> u.doc_type, domain |-> Route(u)]
           P   == [tx[s] EXCEPT !.documents = @ \cup {row}]
<1>1. d \in Documents /\ CountsOK' /\ UNCHANGED db
  BY IntakeAssumption DEF InsertDocument, TypeInv, CountsOK, Documents
<1>2. u.form \in {"text", "binary"} /\ u.filename \in Filenames /\ u.doc_type \in DocTypes
  BY IntakeAssumption DEF InsertDocument, Filenames, DocTypes
<1>3. Route(u) \in Routes
  BY DefaultRoutes DEF InsertDocument, Classified, Route, Routes
<1>4. row \in DocumentRows
  BY <1>1, <1>2, <1>3 DEF DocumentRows
<1>5. tx' = [tx EXCEPT ![s] = P]
  BY DEF InsertDocument, TypeInv
<1> HIDE DEF row
<1>6. P \in Rows
  BY <1>4, RowsAre DEF TypeInv
<1> HIDE DEF P
<1> QED
  BY <1>1, <1>2, <1>5, <1>6

LEMMA SaveOriginalKeepsTypes ==
  ASSUME TypeInv, NEW s \in Sessions, NEW u \in Uploads, SaveOriginal(s, u)
  PROVE  TypeInv'
<1>1. PICK d : d = created.documents + 1
  OBVIOUS
<1> DEFINE work == [vendor |-> "none", document |-> d, filename |-> u.filename, form |-> u.form]
<1>2. /\ d \in Documents /\ CountsOK' /\ UNCHANGED db
      /\ u.form \in {"text", "binary"} /\ u.filename \in Filenames
      /\ \E P \in Rows : tx' = [tx EXCEPT ![s] = P]
  BY <1>1, InsertDocumentTypes DEF SaveOriginal
<1>3. work \in Forms /\ Remembered("saved", work)
  BY <1>2, IntakeAssumption DEF Forms, Remembered, Labels, Documents
<1>4. /\ upload' = [upload EXCEPT ![s] = work] /\ UNCHANGED broken
      /\ pc' = [pc EXCEPT ![s] = "saved"]
      /\ files' = Write(Ref(d, u.filename), Original(d, u.form))
  BY <1>1 DEF SaveOriginal, Goto
<1>5. FilesOK'
  BY <1>2, <1>4, RefTypes, WriteKeepsFiles DEF TypeInv
<1> HIDE DEF work
<1>6. PICK P \in Rows : tx' = [tx EXCEPT ![s] = P]
  BY <1>2
<1> QED
  BY <1>2, <1>3, <1>4, <1>5, <1>6, SessionStepTypes DEF SessionWrites, TypeInv

LEMMA SaveFailsKeepsTypes ==
  ASSUME TypeInv, NEW s \in Sessions, NEW u \in Uploads, SaveFails(s, u)
  PROVE  TypeInv'
<1>1. PICK d : d = created.documents + 1
  OBVIOUS
<1>2. /\ d \in Documents /\ CountsOK' /\ UNCHANGED db
      /\ u.form \in {"text", "binary"} /\ u.filename \in Filenames
      /\ \E P \in Rows : tx' = [tx EXCEPT ![s] = P]
  BY <1>1, InsertDocumentTypes DEF SaveFails
<1>3. /\ UNCHANGED upload /\ broken' = broken \cup {d}
      /\ pc' = [pc EXCEPT ![s] = "failed"] /\ upload' = [upload EXCEPT ![s] = upload[s]]
      /\ files' = files \/ files' = Write(Ref(d, u.filename), Partial(d))
  BY <1>1 DEF SaveFails, Goto, TypeInv
<1>4. FilesOK'
  <2>1. CASE files' = files
    BY <2>1 DEF TypeInv, FilesOK
  <2>2. CASE files' = Write(Ref(d, u.filename), Partial(d))
    BY <1>2, <2>2, RefTypes, WriteKeepsFiles DEF TypeInv
  <2> QED
    BY <1>3, <2>1, <2>2
<1>5. Remembered("failed", upload[s])
  BY DEF TypeInv, Remembered, Labels
<1>6. broken' \subseteq Documents
  BY <1>2, <1>3 DEF TypeInv
<1>7. PICK P \in Rows : tx' = [tx EXCEPT ![s] = P]
  BY <1>2
<1> QED
  BY <1>2, <1>3, <1>4, <1>5, <1>6, <1>7, SessionStepTypes DEF SessionWrites

LEMMA StoreVersionKeepsTypes ==
  ASSUME TypeInv, NEW s \in Sessions, StoreVersion(s) PROVE TypeInv'
<1> DEFINE d       == upload[s].document
           version == [document |-> d, storage_ref |-> Ref(d, upload[s].filename),
                       parsed_text_ref |-> ParsedRef(d),
                       content_hash |-> Original(d, upload[s].form)]
           event   == [type |-> "document.ingested", document |-> d]
           P       == [tx[s] EXCEPT !.versions = @ \cup {version}, !.events = @ \cup {event}]
<1>1. /\ d \in Documents /\ upload[s].filename \in Filenames
      /\ upload[s].form \in {"text", "binary"}
  BY DEF StoreVersion, InsertVersion, TypeInv, Remembered
<1>2. /\ Ref(d, upload[s].filename) \in Refs /\ ParsedRef(d) \in Refs
      /\ Original(d, upload[s].form) \in Content /\ Text(d) \in Content
  BY <1>1, RefTypes
<1>3. version \in VersionRows
  BY <1>1, <1>2 DEF VersionRows
<1>4. event \in EventRows
  BY <1>1, IntakeAssumption DEF EventRows, Documents
<1>5. /\ tx' = [tx EXCEPT ![s] = P] /\ upload' = [upload EXCEPT ![s] = NoUpload]
      /\ pc' = [pc EXCEPT ![s] = "case"] /\ UNCHANGED << db, created, broken >>
      /\ files' = Write(ParsedRef(d), Text(d))
  BY DEF StoreVersion, InsertVersion, Goto, TypeInv
<1>6. FilesOK' /\ CountsOK'
  BY <1>2, <1>5, WriteKeepsFiles DEF TypeInv, CountsOK
<1>7. Remembered("case", NoUpload)
  BY NothingIsTyped DEF Labels
<1> HIDE DEF version, event
<1>8. P \in Rows
  BY <1>3, <1>4, RowsAre DEF TypeInv
<1> HIDE DEF P
<1>9. broken' \subseteq Documents
  BY <1>5 DEF TypeInv
<1> QED
  BY <1>5, <1>6, <1>7, <1>8, <1>9, SessionStepTypes DEF SessionWrites

LEMMA IngestBreaksKeepsTypes ==
  ASSUME TypeInv, NEW s \in Sessions, IngestBreaks(s) PROVE TypeInv'
<1>1. PICK d : d = upload[s].document
  OBVIOUS
<1>2. d \in Documents
  BY <1>1 DEF IngestBreaks, TypeInv, Remembered
<1>3. /\ UNCHANGED << db, created, tx >> /\ broken' = broken \cup {d}
      /\ upload' = [upload EXCEPT ![s] = NoUpload] /\ pc' = [pc EXCEPT ![s] = "failed"]
      /\ files' = files \/ files' = Write(ParsedRef(d), Partial(d))
  BY <1>1 DEF IngestBreaks, Goto
<1>4. FilesOK'
  <2>1. CASE files' = files
    BY <2>1 DEF TypeInv, FilesOK
  <2>2. CASE files' = Write(ParsedRef(d), Partial(d))
    BY <1>2, <2>2, RefTypes, WriteKeepsFiles DEF TypeInv
  <2> QED
    BY <1>3, <2>1, <2>2
<1>5. Remembered("failed", NoUpload)
  BY NothingIsTyped DEF Labels
<1>6. tx[s] \in Rows /\ tx' = [tx EXCEPT ![s] = tx[s]] /\ CountsOK'
      /\ broken' \subseteq Documents
  BY <1>2, <1>3 DEF TypeInv, CountsOK
<1> QED
  BY <1>3, <1>4, <1>5, <1>6, SessionStepTypes DEF SessionWrites

LEMMA FailToParseKeepsTypes ==
  ASSUME TypeInv, NEW s \in Sessions, FailToParse(s) PROVE TypeInv'
<1> DEFINE event == [type |-> "document.parse_failed", document |-> upload[s].document]
           P     == [tx[s] EXCEPT !.events = @ \cup {event}]
<1>1. upload[s].document \in 0 .. MaxDocuments
  BY DEF TypeInv, Remembered, Forms
<1>2. event \in EventRows
  BY <1>1 DEF EventRows
<1>3. /\ tx' = [tx EXCEPT ![s] = P] /\ upload' = [upload EXCEPT ![s] = NoUpload]
      /\ pc' = [pc EXCEPT ![s] = "failed"] /\ UNCHANGED << db, files, created, broken >>
  BY DEF FailToParse, Goto, TypeInv
<1>4. Remembered("failed", NoUpload)
  BY NothingIsTyped DEF Labels
<1>5. FilesOK' /\ CountsOK' /\ broken' \subseteq Documents
  BY <1>3 DEF TypeInv, FilesOK, CountsOK
<1> HIDE DEF event
<1>6. P \in Rows
  BY <1>2, RowsAre DEF TypeInv
<1> HIDE DEF P
<1> QED
  BY <1>3, <1>4, <1>5, <1>6, SessionStepTypes DEF SessionWrites

LEMMA RollbackKeepsTypes == ASSUME TypeInv, NEW s \in Sessions, Rollback(s) PROVE TypeInv'
<1>1. /\ tx' = [tx EXCEPT ![s] = NoRows] /\ upload' = [upload EXCEPT ![s] = NoUpload]
      /\ pc' = [pc EXCEPT ![s] = "idle"] /\ UNCHANGED << db, files, created, broken >>
  BY DEF Rollback, Goto
<1>2. Remembered("idle", NoUpload) /\ NoRows \in Rows
  BY NothingIsTyped DEF Labels
<1>3. FilesOK' /\ CountsOK' /\ broken' \subseteq Documents
  BY <1>1 DEF TypeInv, FilesOK, CountsOK
<1> QED
  BY <1>1, <1>2, <1>3, SessionStepTypes DEF SessionWrites

LEMMA CommitKeepsTypes == ASSUME TypeInv, NEW s \in Sessions, Commit(s) PROVE TypeInv'
<1>1. /\ tx' = [tx EXCEPT ![s] = NoRows] /\ pc' = [pc EXCEPT ![s] = "idle"]
      /\ UNCHANGED << files, created, upload, broken >>
  BY DEF Commit, Goto
<1>2. NoRows \in Rows /\ FilesOK' /\ CountsOK'
  BY <1>1, NothingIsTyped DEF TypeInv, FilesOK, CountsOK
<1>3. db' \in Rows
  <2>1. /\ DOMAIN db = Tables
        /\ \A P \in {db, tx[s]} :
             /\ P.vendors \subseteq VendorRows /\ P.cases \subseteq CaseRows
             /\ P.documents \subseteq DocumentRows /\ P.versions \subseteq VersionRows
             /\ P.events \subseteq EventRows
    BY RowsAre DEF TypeInv, Tables
  <2>2. db' = [table \in Tables |-> db[table] \cup tx[s][table]]
    BY <2>1 DEF Commit
  <2>3. db' = [vendors |-> db.vendors \cup tx[s].vendors, cases |-> db.cases \cup tx[s].cases,
               documents |-> db.documents \cup tx[s].documents,
               versions |-> db.versions \cup tx[s].versions,
               events |-> db.events \cup tx[s].events]
    BY <2>2 DEF Tables
  <2> QED
    BY <2>1, <2>3, RowsAre
<1>4. Remembered("idle", upload[s])
  BY DEF TypeInv, Remembered, Labels
<1>5. /\ tx' \in [Sessions -> Rows] /\ pc' \in [Sessions -> Labels]
      /\ \A t \in Sessions : pc'[t] = IF t = s THEN "idle" ELSE pc[t]
  BY <1>1, <1>2 DEF TypeInv, Labels
<1>6. \A t \in Sessions : Remembered(pc'[t], upload'[t])
  BY <1>1, <1>4, <1>5 DEF TypeInv
<1> QED
  BY <1>1, <1>2, <1>3, <1>5, <1>6 DEF TypeInv

LEMMA NextTypes == ASSUME TypeInv, [Next]_vars PROVE TypeInv'
<1>1. CASE UNCHANGED vars
  BY <1>1 DEF vars, TypeInv, FilesOK, CountsOK
<1>2. ASSUME NEW s \in Sessions,
             GoOn(s) \/ Break(s) \/ \E u \in Uploads : Refuse(s, u)
      PROVE  TypeInv'
  <2>1. /\ {"case", "raised", "failed"} \subseteq Labels \ {"missing", "saved"}
        /\ Goto(s, "case") \/ Goto(s, "raised") \/ Goto(s, "failed")
        /\ UNCHANGED << db, files, created, tx, broken >>
        /\ upload' \in {upload, [upload EXCEPT ![s] = NoUpload]}
    BY <1>2 DEF GoOn, Break, Refuse, Labels
  <2> QED
    BY <2>1, GotoKeepsTypes
<1> QED
  BY <1>1, <1>2, VendorKeepsTypes, SaveOriginalKeepsTypes, SaveFailsKeepsTypes,
     StoreVersionKeepsTypes, FailToParseKeepsTypes, IngestBreaksKeepsTypes, RollbackKeepsTypes, CommitKeepsTypes DEF Next

\* What every variable may hold: the rows refer to cases, documents and files
\* that can exist, and no two files share a path.
THEOREM TypesHold == Spec => []TypeOK
<1>1. TypeInv => TypeOK
  BY DEF TypeInv, TypeOK, FilesOK, CountsOK, Labels, Forms, File
<1> QED
  BY <1>1, InitTypeInv, NextTypes, PTL DEF Spec

-----------------------------------------------------------------------------
\* The originals.  The name one is stored under is the uploader's: it may be that
\* of the extracted text, or lead to another document's file.

Kept(P, F) ==
  \A v \in P.versions :
    \/ v.storage_ref = v.parsed_text_ref \/ Reached(v.storage_ref)
    \/ v.storage_ref[1] = v.document /\ ContentsIn(F, v.storage_ref) = {v.content_hash}

\* A document that is on disk and not parsed yet.
InHand(label, u, F) ==
  label = "saved" =>
    LET ref == Ref(u.document, u.filename) IN
    Reached(ref) \/ ContentsIn(F, ref) = {Original(u.document, u.form)}

OriginalsInv ==
  /\ Kept(db, files)
  /\ \A s \in Sessions : Kept(tx[s], files) /\ InHand(pc[s], upload[s], files)

LEMMA InitOriginals == Init => OriginalsInv
  BY DEF Init, OriginalsInv, Kept, InHand, NoRows

\* Writing a file of a document d, or one that a name leads to, leaves every
\* other document's alone.
LEMMA WriteKeepsOthers ==
  ASSUME NEW d, NEW ref, NEW content, files' = files \/ files' = Write(ref, content),
         ref[1] = d \/ Reached(ref)
  PROVE  /\ \A P : Kept(P, files) /\ (\A v \in P.versions : v.document # d) => Kept(P, files')
         /\ \A label, u : InHand(label, u, files) /\ (label = "saved" => u.document # d) =>
              InHand(label, u, files')
<1>1. \A r : r # ref => ContentsIn(files', r) = ContentsIn(files, r)
  BY ContentsAfterWrite
<1>2. \A P : Kept(P, files) /\ (\A v \in P.versions : v.document # d) => Kept(P, files')
  BY <1>1 DEF Kept
<1>3. ASSUME NEW label, NEW u, InHand(label, u, files), label = "saved" => u.document # d
      PROVE  InHand(label, u, files')
  <2>1. PICK r : r = Ref(u.document, u.filename)
    OBVIOUS
  <2>2. Reached(r) \/ r[1] = u.document
    BY <2>1, RefLeads
  <2> QED
    BY <1>1, <1>3, <2>1, <2>2 DEF InHand
<1> QED
  BY <1>2, <1>3

\* The new document's row is no version, and its file nobody else's.
LEMMA InsertDocumentKeepsOriginals ==
  ASSUME IInv, TypeInv, OriginalsInv, NEW s \in Sessions, NEW u \in Uploads, NEW d,
         InsertDocument(s, u, d), NEW content,
         files' = files \/ files' = Write(Ref(d, u.filename), content),
         \A t \in Sessions \ {s} : pc'[t] = pc[t] /\ upload'[t] = upload[t],
         InHand(pc'[s], upload'[s], files')
  PROVE  OriginalsInv'
<1>1. /\ created.documents \in Nat /\ d = created.documents + 1
      /\ d \notin 1 .. created.documents /\ UNCHANGED db
      /\ \A t \in Sessions : tx'[t].versions = tx[t].versions
  BY DEF IInv, Shape, TypeInv, InsertDocument
<1>2. PICK ref : ref = Ref(d, u.filename)
  OBVIOUS
<1>3. ref[1] = d \/ Reached(ref)
  BY <1>2, RefLeads
<1>4. /\ \A v \in db.versions : v.document # d
      /\ \A t \in Sessions : \A v \in tx[t].versions : v.document # d
  BY <1>1 DEF IInv, Good, Local, Numbered
<1>5. \A t \in Sessions \ {s} : pc[t] = "saved" => upload[t].document # d
  BY <1>1 DEF IInv, Good, Numbered, InOrder
<1>6. /\ \A P : Kept(P, files) /\ (\A v \in P.versions : v.document # d) => Kept(P, files')
      /\ \A label, w : InHand(label, w, files) /\ (label = "saved" => w.document # d) =>
           InHand(label, w, files')
  <2>1. files' = files \/ files' = Write(ref, content)
    BY <1>2
  <2> QED
    BY <1>3, <2>1, WriteKeepsOthers
<1>7. Kept(db', files')
  BY <1>1, <1>4, <1>6 DEF OriginalsInv
<1>8. ASSUME NEW t \in Sessions PROVE Kept(tx'[t], files')
  <2>1. Kept(tx[t], files')
    BY <1>4, <1>6 DEF OriginalsInv
  <2> QED
    BY <1>1, <2>1 DEF Kept
<1>9. ASSUME NEW t \in Sessions \ {s} PROVE InHand(pc'[t], upload'[t], files')
  <2>1. InHand(pc[t], upload[t], files')
    BY <1>5, <1>6 DEF OriginalsInv
  <2> QED
    BY <2>1
<1> QED
  BY <1>7, <1>8, <1>9 DEF OriginalsInv

LEMMA SaveKeepsOriginals ==
  ASSUME IInv, TypeInv, OriginalsInv, NEW s \in Sessions, NEW u \in Uploads,
         SaveOriginal(s, u) \/ SaveFails(s, u)
  PROVE  OriginalsInv'
<1>1. PICK d : d = created.documents + 1
  OBVIOUS
<1>2. \A t \in Sessions \ {s} : pc'[t] = pc[t] /\ upload'[t] = upload[t]
  BY DEF TypeInv, SaveOriginal, SaveFails, Goto
<1>3. CASE SaveOriginal(s, u)
  <2>1. InsertDocument(s, u, d) /\ files' = Write(Ref(d, u.filename), Original(d, u.form))
    BY <1>1, <1>3 DEF SaveOriginal
  <2>2. /\ upload'[s].document = d /\ upload'[s].filename = u.filename
        /\ upload'[s].form = u.form
    BY <1>1, <1>3 DEF SaveOriginal, TypeInv
  <2>3. InHand(pc'[s], upload'[s], files')
    BY <2>1, <2>2, ContentsAfterWrite DEF InHand
  <2> QED
    BY <1>2, <2>1, <2>3, InsertDocumentKeepsOriginals
<1>4. CASE SaveFails(s, u)
  <2>1. /\ InsertDocument(s, u, d)
        /\ files' = files \/ files' = Write(Ref(d, u.filename), Partial(d))
    BY <1>1, <1>4 DEF SaveFails
  <2>2. pc'[s] = "failed"
    BY <1>4 DEF SaveFails, Goto, TypeInv
  <2>3. InHand(pc'[s], upload'[s], files')
    BY <2>2 DEF InHand
  <2> QED
    BY <1>2, <2>1, <2>3, InsertDocumentKeepsOriginals
<1> QED
  BY <1>3, <1>4

\* What a session writes for the document in hand leaves the others alone.
LEMMA TextKeepsOriginals ==
  ASSUME IInv, OriginalsInv, NEW s \in Sessions, pc[s] = "saved", NEW content,
         files' = files \/ files' = Write(ParsedRef(upload[s].document), content)
  PROVE  /\ Kept(db, files') /\ \A t \in Sessions : Kept(tx[t], files')
         /\ \A t \in Sessions \ {s} : InHand(pc[t], upload[t], files')
<1>1. PICK d : d = upload[s].document
  OBVIOUS
<1>2. PICK ref : ref = ParsedRef(d)
  OBVIOUS
<1>3. /\ \A v \in db.versions \cup tx[s].versions : v.document # d
      /\ \A t \in Sessions \ {s} : \A v \in tx[t].versions : v.document # d
      /\ d \in DocIds(tx[s])
  BY <1>1, DocumentInHand
<1>4. \A t \in Sessions \ {s} : pc[t] = "saved" => upload[t].document # d
  BY <1>3 DEF IInv, Apart, InOrder
<1>5. ref[1] = d /\ (files' = files \/ files' = Write(ref, content))
  BY <1>1, <1>2 DEF ParsedRef
<1>6. /\ \A P : Kept(P, files) /\ (\A v \in P.versions : v.document # d) => Kept(P, files')
      /\ \A label, w : InHand(label, w, files) /\ (label = "saved" => w.document # d) =>
           InHand(label, w, files')
  <2>1. ref[1] = d \/ Reached(ref)
    BY <1>5
  <2>2. files' = files \/ files' = Write(ref, content)
    BY <1>5
  <2> QED
    BY <2>1, <2>2, WriteKeepsOthers
<1>7. Kept(db, files') /\ Kept(tx[s], files')
  BY <1>3, <1>6 DEF OriginalsInv
<1>8. \A t \in Sessions \ {s} : Kept(tx[t], files') /\ InHand(pc[t], upload[t], files')
  BY <1>3, <1>4, <1>6 DEF OriginalsInv
<1> QED
  BY <1>7, <1>8

LEMMA StoreVersionKeepsOriginals ==
  ASSUME IInv, TypeInv, OriginalsInv, NEW s \in Sessions, StoreVersion(s)
  PROVE  OriginalsInv'
<1> DEFINE d == upload[s].document
           name == upload[s].filename
           form == upload[s].form
           version == [document |-> d, storage_ref |-> Ref(d, name),
                       parsed_text_ref |-> ParsedRef(d),
                       content_hash |-> Original(d, form)]
<1>1. /\ pc[s] = "saved" /\ pc'[s] = "case" /\ UNCHANGED db
      /\ files' = Write(ParsedRef(d), Text(d))
      /\ tx'[s].versions = tx[s].versions \cup {version}
      /\ \A t \in Sessions \ {s} :
           tx'[t] = tx[t] /\ pc'[t] = pc[t] /\ upload'[t] = upload[t]
  BY RowsAre DEF TypeInv, StoreVersion, InsertVersion, Goto
<1>2. /\ Kept(db, files') /\ \A t \in Sessions : Kept(tx[t], files')
      /\ \A t \in Sessions \ {s} : InHand(pc[t], upload[t], files')
  BY <1>1, TextKeepsOriginals
<1>3. \/ Ref(d, name) = ParsedRef(d) \/ Reached(Ref(d, name))
      \/ Ref(d, name)[1] = d /\ ContentsIn(files', Ref(d, name)) = {Original(d, form)}
  <2>1. PICK ref : ref = Ref(d, name)
    OBVIOUS
  <2>2. Reached(ref) \/ ContentsIn(files, ref) = {Original(d, form)}
    BY <1>1, <2>1 DEF OriginalsInv, InHand
  <2>3. Reached(ref) \/ ref[1] = d
    BY <2>1, RefLeads
  <2>4. ref # ParsedRef(d) => ContentsIn(files', ref) = ContentsIn(files, ref)
    BY <1>1, ContentsAfterWrite
  <2> QED
    BY <2>1, <2>2, <2>3, <2>4
<1>4. /\ version.storage_ref = Ref(d, name) /\ version.document = d
      /\ version.parsed_text_ref = ParsedRef(d)
      /\ version.content_hash = Original(d, form)
  OBVIOUS
<1> HIDE DEF version, d, name, form
<1>5. Kept(tx'[s], files')
  BY <1>1, <1>2, <1>3, <1>4 DEF Kept
<1>6. InHand(pc'[s], upload'[s], files')
  BY <1>1 DEF InHand
<1> QED
  BY <1>1, <1>2, <1>5, <1>6 DEF OriginalsInv

LEMMA IngestBreaksKeepsOriginals ==
  ASSUME IInv, TypeInv, OriginalsInv, NEW s \in Sessions, IngestBreaks(s)
  PROVE  OriginalsInv'
<1>1. /\ pc[s] = "saved" /\ pc'[s] = "failed" /\ UNCHANGED << db, tx >>
      /\ \A t \in Sessions \ {s} : pc'[t] = pc[t] /\ upload'[t] = upload[t]
      /\ \/ files' = files
         \/ files' = Write(ParsedRef(upload[s].document), Partial(upload[s].document))
  BY DEF TypeInv, IngestBreaks, Goto
<1>2. /\ Kept(db, files') /\ \A t \in Sessions : Kept(tx[t], files')
      /\ \A t \in Sessions \ {s} : InHand(pc[t], upload[t], files')
  BY <1>1, TextKeepsOriginals
<1>3. InHand(pc'[s], upload'[s], files')
  BY <1>1 DEF InHand
<1> QED
  BY <1>1, <1>2, <1>3 DEF OriginalsInv

\* The other steps write no file; they move versions or drop them.
LEMMA OtherStepsKeepOriginals ==
  ASSUME TypeInv, OriginalsInv, NEW s \in Sessions,
         \/ InsertVendor(s) \/ \E name \in Vendors : LookUpVendor(s, name)
         \/ (\E u \in Uploads : Refuse(s, u)) \/ FailToParse(s) \/ Break(s) \/ GoOn(s)
         \/ Rollback(s) \/ Commit(s)
  PROVE  OriginalsInv'
<1>1. UNCHANGED files
  BY DEF InsertVendor, LookUpVendor, Refuse, FailToParse, Break, GoOn, Rollback, Commit
<1>2. \A v \in db'.versions : v \in db.versions \cup tx[s].versions
  <2>1. "versions" \in DOMAIN db
    BY RowsAre DEF TypeInv
  <2> QED
    BY <2>1 DEF InsertVendor, LookUpVendor, Refuse, FailToParse, Break, GoOn, Rollback, Commit
<1>3. \A t \in Sessions : \A v \in tx'[t].versions : v \in tx[t].versions
  <2>1. DOMAIN tx = Sessions /\ \A t \in Sessions : DOMAIN tx[t] = Tables
    BY RowsAre DEF TypeInv, Tables
  <2>2. CASE UNCHANGED tx
    BY <2>2
  <2>3. CASE FailToParse(s)
    <3>1. tx'[s].versions = tx[s].versions /\ \A t \in Sessions \ {s} : tx'[t] = tx[t]
      BY <2>1, <2>3 DEF FailToParse, Tables
    <3> QED
      BY <3>1
  <2>4. ASSUME NEW id, NEW new, InsertCase(s, id, new)
        PROVE  \A t \in Sessions : \A v \in tx'[t].versions : v \in tx[t].versions
    <3>1. tx'[s].versions = tx[s].versions /\ \A t \in Sessions \ {s} : tx'[t] = tx[t]
      BY <2>1, <2>4 DEF InsertCase, Tables
    <3> QED
      BY <3>1
  <2>5. CASE tx' = [tx EXCEPT ![s] = NoRows]
    BY <2>1, <2>5 DEF NoRows
  <2> QED
    BY <2>2, <2>3, <2>4, <2>5 DEF InsertVendor, LookUpVendor, Refuse, Break, GoOn, Rollback, Commit
<1>4. \A t \in Sessions : pc'[t] = "saved" => pc[t] = "saved" /\ upload'[t] = upload[t]
  BY DEF TypeInv, InsertVendor, LookUpVendor, InsertCase, Refuse, FailToParse, Break,
     GoOn, Rollback, Commit, Goto
<1>5. Kept(db', files') /\ \A t \in Sessions : Kept(tx'[t], files')
  BY <1>1, <1>2, <1>3 DEF OriginalsInv, Kept
<1>6. \A t \in Sessions : InHand(pc'[t], upload'[t], files')
  BY <1>1, <1>4 DEF OriginalsInv, InHand
<1> QED
  BY <1>5, <1>6 DEF OriginalsInv

\* What is stored under storage_ref is what content_hash was computed from,
\* unless the extracted text has that name or some upload's filename leads to
\* it, whatever is committed, rolled back or lost half way.
THEOREM OriginalsStay == Spec => []OriginalIsLostOnlyByName
<1>1. ASSUME IInv, TypeInv, OriginalsInv, [Next]_vars PROVE OriginalsInv'
  <2>1. CASE UNCHANGED vars
    BY <1>1, <2>1 DEF vars, OriginalsInv
  <2>2. CASE \E s \in Sessions : StoreVersion(s) \/ IngestBreaks(s)
    BY <1>1, <2>2, StoreVersionKeepsOriginals, IngestBreaksKeepsOriginals
  <2>3. CASE \E s \in Sessions, u \in Uploads : SaveOriginal(s, u) \/ SaveFails(s, u)
    BY <1>1, <2>3, SaveKeepsOriginals
  <2> QED
    BY <1>1, <2>1, <2>2, <2>3, OtherStepsKeepOriginals DEF Next
<1>2. OriginalsInv => OriginalIsLostOnlyByName
  BY DEF OriginalsInv, Kept, OriginalIsLostOnlyByName, Contents, ContentsIn
<1> QED
  BY <1>1, <1>2, InitOriginals, Inductive, InitTypeInv, NextTypes, PTL DEF Spec
=============================================================================
