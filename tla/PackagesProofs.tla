---------------------------- MODULE PackagesProofs ----------------------------
(***************************************************************************)
(* Proofs about Packages, for any packages, files, contents, postes and    *)
(* requests under way: what a poste that trusts signers runs is a manifest *)
(* somebody signed; unless requests on a package overlapped, its signature *)
(* is over the package as it stands; a deployment finds its files unless   *)
(* they changed; and the volume keeps what a row names, but for what was   *)
(* removed under its upload.                                               *)
(***************************************************************************)
EXTENDS Packages, FiniteSetTheorems, TLAPS

-----------------------------------------------------------------------------
(* The invariant.                                                          *)

\* The columns a signature is read from and written to.
RowFields == {"kind", "run", "off", "manifest", "signature", "retired"}

\* A signature of the catalogue is over a signed document, whatever it became of the
\* package since.
SignatureInv ==
  /\ DOMAIN package = PackageIds
  /\ \A p \in PackageIds : /\ RowFields \subseteq DOMAIN package[p]
                           /\ package[p].signature \in documents \cup {None}

\* The signature a request is about to attach is over the manifest it read.
AttachInv ==
  /\ DOMAIN request = Slots
  /\ \A s \in Slots :
       /\ {"kind", "on", "alone"} \subseteq DOMAIN request[s]
       /\ request[s].kind = "sign" => /\ "was" \in DOMAIN request[s]
                                      /\ request[s].was.manifest \in documents

\* What a poste was handed, and what it verified before it downloads and runs.
HandedInv ==
  /\ DOMAIN deploy = Postes
  /\ \A m \in Postes :
       /\ DOMAIN NoDeploy \subseteq DOMAIN deploy[m]
       /\ deploy[m].status = "pending" => deploy[m].package \in PackageIds
       /\ deploy[m].status \in {"delivered", "running"} =>
            deploy[m].handed.signature \in documents \cup {None}
       /\ (deploy[m].status = "running" /\ m \notin Publishers) =>
            deploy[m].handed.manifest \in {None, deploy[m].handed.signature}

IInv == SignatureInv /\ AttachInv /\ HandedInv /\ RanAsSigned

-----------------------------------------------------------------------------
(* The initial states.                                                     *)

\* The packages of earlier requests are signed or not, over their manifest.
LEMMA ReadyRow ==
  ASSUME NEW run, NEW fs, NEW signed
  PROVE  LET k == Ready(run, fs, signed)
         IN  RowFields \subseteq DOMAIN k /\ k.signature \in {None, k.manifest}
<1>1. DOMAIN Ready(run, fs, signed) = DOMAIN Absent
  BY DEF Ready
<1>2. RowFields \subseteq DOMAIN Absent
  BY DEF Absent, RowFields
<1>3. Ready(run, fs, signed).manifest = Build(run, None, fs)
  BY <1>2 DEF Ready, Absent, RowFields
<1>4. Ready(run, fs, signed).signature \in {None, Build(run, None, fs)}
  BY <1>2 DEF Ready, Absent, RowFields
<1> QED  BY <1>1, <1>2, <1>3, <1>4

LEMMA InitIInv == Init => IInv
<1> SUFFICES ASSUME Init PROVE IInv
  OBVIOUS
<1>1. SignatureInv
  <2>1. PICK signed \in BOOLEAN :
          package = [p \in PackageIds |->
            IF files[p] = NoFile THEN Absent
            ELSE Ready(CHOOSE n \in Names : files[p][n] # None, files[p], signed)]
    BY DEF Init
  <2>2. ASSUME NEW p \in PackageIds
        PROVE  /\ RowFields \subseteq DOMAIN package[p]
               /\ package[p].signature \in {None, package[p].manifest}
    <3>1. CASE files[p] = NoFile
      <4>1. package[p] = Absent
        BY <2>1, <3>1
      <4> QED  BY <4>1 DEF Absent, RowFields
    <3>2. CASE files[p] # NoFile
      <4>1. package[p] = Ready(CHOOSE n \in Names : files[p][n] # None, files[p], signed)
        BY <2>1, <3>2
      <4> QED  BY <4>1, ReadyRow
    <3> QED  BY <3>1, <3>2
  <2>3. documents = {package[p].manifest : p \in PackageIds} \ {None}
    BY DEF Init
  <2> QED  BY <2>1, <2>2, <2>3 DEF SignatureInv
<1>2. AttachInv
  BY DEF Init, AttachInv, Idle
<1>3. HandedInv
  BY PackagesAssumption DEF Init, HandedInv, NoDeploy
<1>4. RanAsSigned
  BY DEF Init, RanAsSigned
<1> QED  BY <1>1, <1>2, <1>3, <1>4 DEF IInv

-----------------------------------------------------------------------------
(* What the steps have in common.                                          *)

\* What a step leaves alone keeps its part of the invariant, as documents stay signed.
LEMMA SameCatalogue ==
  ASSUME SignatureInv, UNCHANGED package, documents \subseteq documents'
  PROVE  SignatureInv'
BY DEF SignatureInv

LEMMA SameRequests ==
  ASSUME AttachInv, UNCHANGED request, documents \subseteq documents'
  PROVE  AttachInv'
BY DEF AttachInv

LEMMA SameDeployments ==
  ASSUME HandedInv, UNCHANGED deploy, documents \subseteq documents'
  PROVE  HandedInv'
BY DEF HandedInv

LEMMA SameRuns ==
  ASSUME RanAsSigned, UNCHANGED ran, documents \subseteq documents'
  PROVE  RanAsSigned'
BY DEF RanAsSigned

\* The row that is written keeps its columns, and a signature it had or none.
LEMMA RowWritten ==
  ASSUME SignatureInv, NEW p, NEW new, package' = [package EXCEPT ![p] = new],
         documents \subseteq documents',
         p \in PackageIds => /\ RowFields \subseteq DOMAIN new
                             /\ new.signature \in documents \cup {None}
  PROVE  SignatureInv'
BY DEF SignatureInv

\* Other requests on the package are told, and change nothing else.
LEMMA Touched ==
  ASSUME AttachInv, NEW p
  PROVE  /\ DOMAIN Touch(p) = Slots
         /\ \A s \in Slots : /\ DOMAIN Touch(p)[s] = DOMAIN request[s]
                             /\ Touch(p)[s].kind = request[s].kind
                             /\ "was" \in DOMAIN request[s] =>
                                  Touch(p)[s].was = request[s].was
BY DEF Touch, AttachInv

LEMMA TouchedInv ==
  ASSUME AttachInv, NEW p, request' = Touch(p), documents \subseteq documents'
  PROVE  AttachInv'
BY Touched DEF AttachInv

\* A request begins; one to attach a signature read a signed manifest.
LEMMA Begun ==
  ASSUME AttachInv, NEW s \in Slots, NEW p \in PackageIds, NEW kind, NEW body,
         Begin(s, p, kind, body), documents \subseteq documents',
         kind = "sign" => package[p].manifest \in documents
  PROVE  AttachInv'
<1> DEFINE r == [kind |-> kind, body |-> body, on |-> p,
                 alone |-> \A x \in Slots : request[x].on # p,
                 was |-> package[p], had |-> files[p]]
<1>1. request' = [Touch(p) EXCEPT ![s] = r]
  BY DEF Begin
<1>2. r.kind = kind /\ r.was = package[p] /\ {"kind", "on", "alone", "was"} \subseteq DOMAIN r
  OBVIOUS
<1> HIDE DEF r
<1>3. DOMAIN request' = Slots
  BY <1>1, Touched
<1>4. ASSUME NEW x \in Slots
      PROVE  /\ {"kind", "on", "alone"} \subseteq DOMAIN request'[x]
             /\ request'[x].kind = "sign" => /\ "was" \in DOMAIN request'[x]
                                             /\ request'[x].was.manifest \in documents'
  <2>1. CASE x = s
    BY <1>1, <1>2, <2>1, Touched
  <2>2. CASE x # s
    <3>1. request'[x] = Touch(p)[x]
      BY <1>1, <2>2, Touched
    <3> QED  BY <3>1, Touched DEF AttachInv
  <2> QED  BY <2>1, <2>2
<1> QED  BY <1>3, <1>4 DEF AttachInv

\* A request ends.
LEMMA Ended ==
  ASSUME AttachInv, NEW s \in Slots, request' = [request EXCEPT ![s] = Idle],
         documents \subseteq documents'
  PROVE  AttachInv'
BY DEF AttachInv, Idle

\* The package of a request that changed it is signed as it was, or not at all.
LEMMA RefreshedRow ==
  ASSUME NEW p, NEW k, NEW fs, NEW was, RowFields \subseteq DOMAIN package[p]
  PROVE  LET new == Refreshed(p, k, fs, was)
         IN  /\ RowFields \subseteq DOMAIN new
             /\ new.signature \in {None, package[p].signature}
<1> DEFINE built == Build(k.run, k.off, fs)
           now   == [package[p] EXCEPT !.run = Write(k.run, was.run, @),
                                       !.off = Write(k.off, was.off, @)]
           signature == IF Voided(built, was) THEN Write(None, was.signature, now.signature)
                        ELSE now.signature
           new == [now EXCEPT !.manifest = Write(built, was.manifest, @), !.signature = signature]
<1>1. DOMAIN now = DOMAIN package[p] /\ now.signature = package[p].signature
  BY DEF RowFields
<1>2. signature \in {None, now.signature}
  BY DEF Write
<1>3. DOMAIN new = DOMAIN now /\ new.signature = signature
  <2> HIDE DEF now, signature, built
  <2> QED  BY <1>1 DEF RowFields
<1>4. Refreshed(p, k, fs, was) = IF k.kind # "files" THEN now ELSE new
  BY DEF Refreshed
<1> HIDE DEF now, new, signature, built
<1> QED  BY <1>1, <1>2, <1>3, <1>4

\* Deployments handed before keep what they were handed when a file changes.
LEMMA RewrittenInv ==
  ASSUME HandedInv, NEW p, NEW fs, Rewritten(p, fs), documents \subseteq documents'
  PROVE  HandedInv'
<1>1. DOMAIN deploy' = Postes
  BY DEF Rewritten
<1>2. ASSUME NEW m \in Postes
      PROVE  /\ DOMAIN deploy'[m] = DOMAIN deploy[m]
             /\ deploy'[m].status = deploy[m].status
             /\ deploy'[m].handed = deploy[m].handed
             /\ deploy'[m].package = deploy[m].package
  BY DEF Rewritten, HandedInv, NoDeploy
<1> QED  BY <1>1, <1>2 DEF HandedInv

\* A deployment that ends holds nothing it was handed.
LEMMA EndsInv ==
  ASSUME HandedInv, NEW m \in Postes, NEW why, NEW status \in {"failed", "success"},
         Ends(m, status, why), documents \subseteq documents'
  PROVE  HandedInv'
<1> DEFINE e == [deploy[m] EXCEPT !.status = status, !.why = why, !.handed = None]
<1>1. deploy' = [deploy EXCEPT ![m] = e]
  BY DEF Ends, HandedInv
<1>2. DOMAIN e = DOMAIN deploy[m] /\ e.status = status
  BY DEF HandedInv, NoDeploy
<1> HIDE DEF e
<1> QED  BY <1>1, <1>2 DEF HandedInv

\* A deployment whose file is missing ends.
LEMMA MissingInv ==
  ASSUME HandedInv, NEW m \in Postes, NEW c, Missing(m, c), documents \subseteq documents'
  PROVE  HandedInv'
<1> DEFINE stale == deploy[m].stale \/ c \in lost
           e == [deploy[m] EXCEPT !.status = "failed", !.why = "missing", !.handed = None,
                                  !.stale = stale]
<1>1. deploy' = [deploy EXCEPT ![m] = e]
  BY DEF Missing, HandedInv
<1> HIDE DEF stale
<1>2. DOMAIN e = DOMAIN deploy[m] /\ e.status = "failed"
  BY DEF HandedInv, NoDeploy
<1> HIDE DEF e
<1> QED  BY <1>1, <1>2 DEF HandedInv

-----------------------------------------------------------------------------
(* The steps of administrators.                                            *)

\* A request that only reads begins: the catalogue and the postes stay as they are.
LEMMA ReadingStep ==
  ASSUME IInv, NEW s \in Slots, NEW p \in PackageIds, NEW kind, NEW body,
         Begin(s, p, kind, body), UNCHANGED <<package, documents, deploy, ran>>,
         kind = "sign" => package[p].manifest \in documents
  PROVE  IInv'
BY Begun, SameCatalogue, SameDeployments, SameRuns DEF IInv

LEMMA CreateStep ==
  ASSUME IInv, NEW p \in PackageIds, NEW kind, NEW run, NEW off,
         CreatePackage(p, kind, run, off)
  PROVE  IInv'
<1> DEFINE row == [Absent EXCEPT !.kind = kind, !.run = run, !.off = off,
                      !.manifest = IF kind = "files" THEN Build(run, off, NoFile) ELSE None]
<1>1. RowFields \subseteq DOMAIN row /\ row.signature = None
  BY DEF Absent, RowFields
<1>2. package' = [package EXCEPT ![p] = row] /\ UNCHANGED <<request, documents, deploy, ran>>
  BY DEF CreatePackage, fleet
<1> HIDE DEF row
<1>3. SignatureInv'
  BY <1>1, <1>2, RowWritten DEF IInv
<1> QED  BY <1>2, <1>3, SameRequests, SameDeployments, SameRuns DEF IInv

\* The requests that edit a package: they rebuild its manifest, and may void its signature.
LEMMA UpdateStep ==
  ASSUME IInv, NEW s \in Slots, UpdateCommit(s)
  PROVE  IInv'
<1> DEFINE p == request[s].on
           k == [request[s].was EXCEPT !.run = request[s].body.run, !.off = request[s].body.off]
           new == Refreshed(p, k, files[p], request[s].was)
<1>1. package' = [package EXCEPT ![p] = new] /\ request' = [request EXCEPT ![s] = Idle]
      /\ UNCHANGED <<documents, deploy, ran>>
  BY DEF UpdateCommit, Changed, fleet
<1>2. p \in PackageIds => /\ RowFields \subseteq DOMAIN new
                          /\ new.signature \in documents \cup {None}
  BY RefreshedRow DEF IInv, SignatureInv
<1> HIDE DEF p, k, new
<1>3. SignatureInv'
  BY <1>1, <1>2, RowWritten DEF IInv
<1> QED  BY <1>1, <1>3, Ended, SameDeployments, SameRuns DEF IInv

LEMMA UploadStep ==
  ASSUME IInv, NEW s \in Slots, UploadCommit(s)
  PROVE  IInv'
<1> DEFINE r == request[s]
           file(fs) == [fs EXCEPT ![r.body.name] = r.body.content]
           new(fs) == Refreshed(r.on, r.was, file(fs), r.was)
<1>1. PICK fs : package' = [package EXCEPT ![r.on] = new(fs)]
  BY DEF UploadCommit, Changed
<1>2. request' = [request EXCEPT ![s] = Idle] /\ Rewritten(r.on, file(files[r.on]))
      /\ UNCHANGED <<documents, ran>>
  BY DEF UploadCommit
<1>3. r.on \in PackageIds => /\ RowFields \subseteq DOMAIN new(fs)
                             /\ new(fs).signature \in documents \cup {None}
  BY RefreshedRow DEF IInv, SignatureInv
<1> HIDE DEF r, file, new
<1>4. SignatureInv'
  BY <1>1, <1>2, <1>3, RowWritten DEF IInv
<1> QED  BY <1>2, <1>4, Ended, RewrittenInv, SameRuns DEF IInv

\* A deletion goes on to sweep the content it left.
LEMMA DeleteStep ==
  ASSUME IInv, NEW s \in Slots, DeleteCommit(s)
  PROVE  IInv'
<1> DEFINE r == request[s]
           file(fs) == [fs EXCEPT ![r.body] = None]
           new(fs) == Refreshed(r.on, r.was, file(fs), r.was)
           sweep == [kind |-> "sweep", on |-> None, alone |-> TRUE, content |-> r.had[r.body]]
<1>1. PICK fs : package' = [package EXCEPT ![r.on] = new(fs)]
  BY DEF DeleteCommit, Changed
<1>2. request' = [request EXCEPT ![s] = sweep] /\ Rewritten(r.on, file(files[r.on]))
      /\ UNCHANGED <<documents, ran>>
  BY DEF DeleteCommit
<1>3. r.on \in PackageIds => /\ RowFields \subseteq DOMAIN new(fs)
                             /\ new(fs).signature \in documents \cup {None}
  BY RefreshedRow DEF IInv, SignatureInv
<1>4. {"kind", "on", "alone"} \subseteq DOMAIN sweep /\ sweep.kind # "sign"
  OBVIOUS
<1> HIDE DEF r, file, new, sweep
<1>5. SignatureInv'
  BY <1>1, <1>2, <1>3, RowWritten DEF IInv
<1>6. AttachInv'
  BY <1>2, <1>4 DEF IInv, AttachInv
<1> QED  BY <1>2, <1>5, <1>6, RewrittenInv, SameRuns DEF IInv

\* The signature attached is over the manifest that was read, and verified then.
LEMMA AttachStep ==
  ASSUME IInv, NEW s \in Slots, AttachCommit(s)
  PROVE  IInv'
<1> DEFINE p == request[s].on
           was == request[s].was
           new == [package[p] EXCEPT !.signature = Write(was.manifest, was.signature, @)]
<1>1. package' = [package EXCEPT ![p] = new] /\ request' = [request EXCEPT ![s] = Idle]
      /\ UNCHANGED <<documents, deploy, ran>>
  BY DEF AttachCommit, Changed, fleet
<1>2. was.manifest \in documents
  BY DEF AttachCommit, Is, IInv, AttachInv
<1>3. ASSUME p \in PackageIds
      PROVE  RowFields \subseteq DOMAIN new /\ new.signature \in documents \cup {None}
  <2>1. RowFields \subseteq DOMAIN package[p] /\ package[p].signature \in documents \cup {None}
    BY <1>3 DEF IInv, SignatureInv
  <2>2. Write(was.manifest, was.signature, package[p].signature) \in documents \cup {None}
    BY <1>2, <2>1 DEF Write
  <2> QED  BY <2>1, <2>2 DEF RowFields
<1> HIDE DEF p, was, new
<1>4. SignatureInv'
  BY <1>1, <1>3, RowWritten DEF IInv
<1> QED  BY <1>1, <1>4, Ended, SameDeployments, SameRuns DEF IInv

\* A manifest is signed elsewhere.
LEMMA SignedStep ==
  ASSUME IInv, NEW p \in PackageIds, DownloadManifest(p)
  PROVE  IInv'
<1>1. UNCHANGED <<package, request, deploy, ran>> /\ documents \subseteq documents'
  BY DEF DownloadManifest, fleet
<1> QED  BY <1>1, SameCatalogue, SameRequests, SameDeployments, SameRuns DEF IInv

\* A signature is taken off, a package is no longer offered, or is again.
LEMMA EditStep ==
  ASSUME IInv, NEW p \in PackageIds,
         RemoveSignature(p) \/ RetirePackage(p) \/ RestorePackage(p)
  PROVE  IInv'
<1>1. UNCHANGED <<documents, deploy, ran>> /\ (UNCHANGED request \/ request' = Touch(p))
  BY DEF RemoveSignature, RetirePackage, RestorePackage, fleet
<1>2. RowFields \subseteq DOMAIN package[p] /\ package[p].signature \in documents \cup {None}
  BY DEF IInv, SignatureInv
<1>3. PICK new : /\ package' = [package EXCEPT ![p] = new]
                 /\ RowFields \subseteq DOMAIN new
                 /\ new.signature \in {None, package[p].signature}
  <2>1. CASE RemoveSignature(p)
    <3> WITNESS [package[p] EXCEPT !.signature = None]
    <3> QED  BY <1>2, <2>1 DEF RemoveSignature, RowFields
  <2>2. CASE RetirePackage(p)
    <3> WITNESS [package[p] EXCEPT !.retired = TRUE]
    <3> QED  BY <1>2, <2>2 DEF RetirePackage, RowFields
  <2>3. CASE RestorePackage(p)
    <3> WITNESS [package[p] EXCEPT !.retired = FALSE]
    <3> QED  BY <1>2, <2>3 DEF RestorePackage, RowFields
  <2> QED  BY <2>1, <2>2, <2>3
<1>4. SignatureInv'
  BY <1>1, <1>2, <1>3, RowWritten DEF IInv
<1>5. AttachInv'
  BY <1>1, SameRequests, TouchedInv DEF IInv
<1> QED  BY <1>1, <1>4, <1>5, SameDeployments, SameRuns DEF IInv

\* A new deployment has been handed nothing.
LEMMA DeployStep ==
  ASSUME IInv, NEW ms \in SUBSET Postes, NEW p \in PackageIds, NEW action,
         CreateCommands(ms, p, action)
  PROVE  IInv'
<1> DEFINE d == [NoDeploy EXCEPT !.status = "pending", !.package = p, !.action = action]
<1>1. UNCHANGED <<package, request, documents, ran>>
  BY DEF CreateCommands, console
<1>2. deploy' = [m \in Postes |-> IF m \in ms /\ ~Open(m) THEN d ELSE deploy[m]]
  BY DEF CreateCommands
<1>3. DOMAIN d = DOMAIN NoDeploy /\ d.status = "pending" /\ d.package = p
  BY DEF NoDeploy
<1> HIDE DEF d
<1>4. HandedInv'
  BY <1>1, <1>2, <1>3 DEF IInv, HandedInv
<1> QED  BY <1>1, <1>4, SameCatalogue, SameRequests, SameRuns DEF IInv

LEMMA ConsoleStep ==
  ASSUME IInv, Console
  PROVE  IInv'
<1>1. ASSUME NEW p \in PackageIds, NEW run, NEW off, NEW s \in Slots, UpdatePackage(s, p, run, off)
      PROVE  IInv'
  BY <1>1, ReadingStep DEF UpdatePackage, fleet
<1>2. ASSUME NEW p \in PackageIds, NEW n, NEW s \in Slots, DeleteFile(s, p, n)
      PROVE  IInv'
  BY <1>2, ReadingStep DEF DeleteFile, fleet
<1>3. ASSUME NEW p \in PackageIds, NEW n, NEW c, NEW s \in Slots, UploadFiles(s, p, n, c)
      PROVE  IInv'
  BY <1>3, ReadingStep DEF UploadFiles, fleet
<1>4. ASSUME NEW p \in PackageIds, NEW s \in Slots, AttachSignature(s, p)
      PROVE  IInv'
  BY <1>4, ReadingStep DEF AttachSignature, Verify, fleet
<1>5. ASSUME NEW s \in Slots, RemoveUnreferenced(s) \/ Abort(s)
      PROVE  IInv'
  <2>1. request' = [request EXCEPT ![s] = Idle] /\ UNCHANGED <<package, documents, deploy, ran>>
    BY <1>5 DEF RemoveUnreferenced, Abort, fleet
  <2> QED  BY <2>1, Ended, SameCatalogue, SameDeployments, SameRuns DEF IInv
<1> QED
  BY <1>1, <1>2, <1>3, <1>4, <1>5, CreateStep, UpdateStep, UploadStep, DeleteStep, AttachStep,
     SignedStep, EditStep, DeployStep DEF Console

-----------------------------------------------------------------------------
(* The steps of the postes.                                                *)

\* What is handed is the package's manifest, with a signature of the catalogue.
LEMMA DeliveryStep ==
  ASSUME IInv, NEW m \in Postes, PackageDeliveries(m)
  PROVE  IInv'
<1> DEFINE p == deploy[m].package
           h == [manifest |-> package[p].manifest, signature |-> package[p].signature]
           stale == package[p].kind = "files" /\ package[p].manifest.files # files[p]
           d == [deploy[m] EXCEPT !.status = "delivered", !.handed = h, !.stale = stale]
<1>1. deploy' = [deploy EXCEPT ![m] = d] /\ UNCHANGED <<package, request, documents, ran>>
  BY DEF PackageDeliveries, console, IInv, HandedInv
<1>2. DOMAIN d = DOMAIN deploy[m] /\ d.status = "delivered" /\ d.handed = h
  BY DEF IInv, HandedInv, NoDeploy
<1>3. h.signature \in documents \cup {None}
  BY DEF PackageDeliveries, IInv, HandedInv, SignatureInv
<1> HIDE DEF p, h, stale, d
<1>4. HandedInv'
  BY <1>1, <1>2, <1>3 DEF IInv, HandedInv
<1> QED  BY <1>1, <1>4, SameCatalogue, SameRequests, SameRuns DEF IInv

\* A poste starts only on what it verified, or goes by the publisher.
LEMMA ExecuteStep ==
  ASSUME IInv, NEW m \in Postes, ExecuteFiles(m)
  PROVE  IInv'
<1>1. UNCHANGED <<package, request, documents, ran>>
  BY DEF ExecuteFiles, console
<1>2. CASE Runnable(m)
  <2> DEFINE d == [deploy[m] EXCEPT !.status = "running"]
  <2>1. deploy' = [deploy EXCEPT ![m] = d]
    BY <1>2 DEF ExecuteFiles, IInv, HandedInv
  <2>2. DOMAIN d = DOMAIN deploy[m] /\ d.status = "running" /\ d.handed = deploy[m].handed
    BY DEF IInv, HandedInv, NoDeploy
  <2>3. d.handed.signature \in documents \cup {None}
    BY <2>2 DEF ExecuteFiles, IInv, HandedInv
  <2>4. m \notin Publishers => d.handed.manifest \in {None, d.handed.signature}
    BY <1>2, <2>2 DEF Runnable, Verified
  <2> HIDE DEF d
  <2>5. HandedInv'
    BY <1>1, <2>1, <2>2, <2>3, <2>4 DEF IInv, HandedInv
  <2> QED  BY <1>1, <2>5, SameCatalogue, SameRequests, SameRuns DEF IInv
<1>3. CASE ~Runnable(m)
  BY <1>1, <1>3, EndsInv, SameCatalogue, SameRequests, SameRuns DEF ExecuteFiles, IInv
<1> QED  BY <1>2, <1>3

\* A download starts, is opened, ends or is given up: a deployment goes on as it was or fails.
LEMMA TransferStep ==
  ASSUME IInv, NEW m \in Postes, NEW n, NEW done,
         \/ GiveUp(m) \/ OpenFile(m) \/ DownloadPackageFile(m, n) \/ ResumeOther(m, n)
         \/ Transferred(m, done)
  PROVE  IInv'
<1>1. UNCHANGED <<package, request, documents, ran>>
  BY DEF GiveUp, OpenFile, DownloadPackageFile, ResumeOther, Transferred, console
<1>2. UNCHANGED deploy \/ (\E why : Ends(m, "failed", why)) \/ (\E c : Missing(m, c))
  <2>1. CASE GiveUp(m)
    BY <2>1 DEF GiveUp
  <2>2. CASE OpenFile(m)
    BY <2>2 DEF OpenFile
  <2>3. CASE DownloadPackageFile(m, n)
    BY <2>3 DEF DownloadPackageFile
  <2>4. CASE ResumeOther(m, n)
    BY <2>4 DEF ResumeOther
  <2>5. CASE Transferred(m, done)
    BY <2>5 DEF Transferred
  <2> QED  BY <2>1, <2>2, <2>3, <2>4, <2>5
<1>3. HandedInv'
  BY <1>1, <1>2, EndsInv, MissingInv, SameDeployments DEF IInv
<1> QED  BY <1>1, <1>3, SameCatalogue, SameRequests, SameRuns DEF IInv

\* What runs was verified, and is signed since.
LEMMA RunStep ==
  ASSUME IInv, NEW m \in Postes, NEW ok \in BOOLEAN, Run(m, ok)
  PROVE  IInv'
<1>1. UNCHANGED <<package, request, documents>>
  BY DEF Run, console
<1>2. \E status \in {"failed", "success"} : \E why : Ends(m, status, why)
  BY DEF Run
<1>3. HandedInv'
  BY <1>1, <1>2, EndsInv DEF IInv
<1>4. RanAsSigned'
  <2>1. CASE m \in Publishers \/ deploy[m].handed.manifest = None
    BY <1>1, <2>1 DEF Run, IInv, RanAsSigned
  <2>2. CASE m \notin Publishers /\ deploy[m].handed.manifest # None
    <3>1. deploy[m].handed.manifest = deploy[m].handed.signature
      BY <2>2 DEF Run, IInv, HandedInv
    <3>2. deploy[m].handed.manifest \in documents
      BY <2>2, <3>1 DEF Run, IInv, HandedInv
    <3>3. ran' = ran \cup {deploy[m].handed.manifest}
      BY <2>2 DEF Run
    <3> QED  BY <1>1, <3>2, <3>3 DEF IInv, RanAsSigned
  <2> QED  BY <2>1, <2>2
<1> QED  BY <1>1, <1>3, <1>4, SameCatalogue, SameRequests DEF IInv

LEMMA FleetStep ==
  ASSUME IInv, Fleet
  PROVE  IInv'
BY DeliveryStep, ExecuteStep, TransferStep, RunStep DEF Fleet

\* The server restarts: what it was handling is gone, what it stored is not.
LEMMA RestartStep ==
  ASSUME IInv, Restart
  PROVE  IInv'
<1>1. UNCHANGED <<package, documents, deploy, ran>> /\ request' = [s \in Slots |-> Idle]
  BY DEF Restart
<1>2. AttachInv'
  BY <1>1 DEF AttachInv, Idle
<1> QED  BY <1>1, <1>2, SameCatalogue, SameDeployments, SameRuns DEF IInv

-----------------------------------------------------------------------------
LEMMA NextIInv == IInv /\ [Next]_vars => IInv'
<1> SUFFICES ASSUME IInv, [Next]_vars PROVE IInv'
  OBVIOUS
<1>1. CASE UNCHANGED vars
  <2>1. UNCHANGED <<package, request, documents, deploy, ran>>
    BY <1>1 DEF vars, console, fleet
  <2> QED  BY <2>1, SameCatalogue, SameRequests, SameDeployments, SameRuns DEF IInv
<1> QED  BY <1>1, ConsoleStep, FleetStep, RestartStep DEF Next

(* A poste that trusts signers runs what one signed, whatever changed or   *)
(* was mistaken for signed on the way (executor.go:103).                   *)
THEOREM RunsWhatWasSigned == Spec => []RanAsSigned
<1>1. IInv => RanAsSigned
  BY DEF IInv
<1> QED  BY <1>1, InitIInv, NextIInv, PTL DEF Spec

-----------------------------------------------------------------------------
(* The catalogue, its files and what the postes find of them.  A request   *)
(* that is alone on its package since it read it writes on what is still   *)
(* so; a deployment whose package kept its files finds them.               *)

Row == [kind : {"files", "winget", None}, run : Runs, off : Runs, manifest : Manifests \cup {None},
        signature : Manifests \cup {None}, retired : BOOLEAN]

Kept == store \cup lost

CatalogueInv ==
  /\ files \in [PackageIds -> FileSets] /\ package \in [PackageIds -> Row]
  /\ \A p \in PackageIds :
       /\ package[p].kind = None => package[p] = Absent /\ files[p] = NoFile
       /\ package[p].kind = "winget" =>
            files[p] = NoFile /\ {package[p].manifest, package[p].signature} = {None}
       /\ package[p].kind = "files" => package[p].manifest # None
  /\ \A p \in PackageIds, n \in Names : files[p][n] # None => files[p][n] \in Kept

Editing == {"update", "upload", "delete", "sign"}

\* Two states of a row alike but for the day it was retired.
SameColumns(was, k) ==
  /\ was.kind = k.kind /\ was.run = k.run /\ was.off = k.off
  /\ was.manifest = k.manifest /\ was.signature = k.signature

\* What a request carries, and that what it read stands while it is alone.
RequestOK(r, rows, fileRows, kept) ==
  /\ r.kind \in {"idle", "sweep"} \cup Editing /\ r.alone \in BOOLEAN
  /\ r.kind \notin Editing => r.on = None
  /\ r.kind \in Editing =>
       /\ {"was", "had", "body"} \subseteq DOMAIN r
       /\ r.on \in PackageIds /\ r.was \in Row /\ r.had \in FileSets
       /\ r.was.kind # None /\ r.was.kind = rows[r.on].kind
       /\ r.kind # "update" => r.was.kind = "files"
       /\ r.alone => SameColumns(r.was, rows[r.on]) /\ r.had = fileRows[r.on]
  /\ r.kind = "update" => r.body.run \in Runs /\ r.body.off \in Runs
  /\ r.kind = "upload" => /\ r.body.name \in Names /\ r.body.content \in Contents
                          /\ r.body.content \in kept
  /\ r.kind = "delete" => r.body \in Names

RequestInv == \A s \in Slots : RequestOK(request[s], package, files, Kept)

AloneInv ==
  \A s, x \in Slots : (s # x /\ request[s].on # None /\ request[s].alone) =>
    request[x].on # request[s].on

Working(d) == d.status \in {"delivered", "running"}

\* A deployment that is open is of a package; unless it is stale, its files are those.
DeployOK(d, fileRows) ==
  /\ d.status # None => d.package \in PackageIds
  /\ d.status \in {"pending", "delivered", "running"} => d.why # "missing"
  /\ d.stale \in BOOLEAN /\ (d.why = "missing" => d.stale)
  /\ Working(d) =>
       /\ d.handed.manifest \in Manifests \cup {None}
       /\ ~d.stale /\ d.handed.manifest # None => d.handed.manifest.files = fileRows[d.package]

DeployInv == \A m \in Postes : DeployOK(deploy[m], files)

TransferInv ==
  /\ folder \in [Postes -> [PackageIds -> FileSets]]
  /\ DOMAIN transfer = Postes /\ leaked \in Nat
  /\ \A m \in Postes : transfer[m] # None =>
       /\ transfer[m] \in Transfers /\ deploy[m].status = "running"
       /\ transfer[m].name \in Wanted(m)

CInv == CatalogueInv /\ SignedAsIs /\ RequestInv /\ AloneInv
FInv == DeployInv /\ TransferInv /\ DownloadsBounded
KInv == IInv /\ CInv /\ FInv

-----------------------------------------------------------------------------
(* Requests that overlap.                                                  *)

\* A request another one touched: it may no longer be alone, and nothing else changed.
Muted(r, e) ==
  /\ DOMAIN e = DOMAIN r /\ e.alone \in BOOLEAN /\ (e.alone => r.alone)
  /\ \A f \in DOMAIN r \ {"alone"} : e[f] = r[f]

\* What may change under a request: nothing of its package, if it is still alone.
Spared(e, rows, newRows, fileRows, newFiles, kept, newKept) ==
  /\ kept \subseteq newKept
  /\ e.on \in PackageIds => newRows[e.on].kind = rows[e.on].kind
  /\ (e.on \in PackageIds /\ e.alone) =>
       SameColumns(rows[e.on], newRows[e.on]) /\ newFiles[e.on] = fileRows[e.on]

LEMMA MutedOK ==
  ASSUME NEW r, NEW e, NEW rows, NEW newRows, NEW fileRows, NEW newFiles, NEW kept, NEW newKept,
         {"kind", "on", "alone"} \subseteq DOMAIN r, Muted(r, e),
         RequestOK(r, rows, fileRows, kept),
         Spared(e, rows, newRows, fileRows, newFiles, kept, newKept)
  PROVE  RequestOK(e, newRows, newFiles, newKept)
<1>1. e.kind = r.kind /\ e.on = r.on /\ e.alone \in BOOLEAN /\ (e.alone => r.alone)
  BY DEF Muted
<1>2. r.kind \in Editing => /\ {"was", "had", "body"} \subseteq DOMAIN e
                            /\ e.was = r.was /\ e.had = r.had /\ e.body = r.body
  BY DEF RequestOK, Muted
<1>3. r.kind \in Editing /\ e.alone => SameColumns(r.was, newRows[r.on]) /\ r.had = newFiles[r.on]
  <2> HAVE r.kind \in Editing /\ e.alone
  <2>1. SameColumns(r.was, rows[r.on]) /\ r.had = fileRows[r.on] /\ r.on \in PackageIds
    BY <1>1 DEF RequestOK
  <2>2. SameColumns(rows[r.on], newRows[r.on]) /\ newFiles[r.on] = fileRows[r.on]
    BY <1>1, <2>1 DEF Spared
  <2> QED  BY <2>1, <2>2 DEF SameColumns
<1>4. {"update", "upload", "delete", "sign"} = Editing
  BY DEF Editing
<1> QED
  BY <1>1, <1>2, <1>3, <1>4 DEF RequestOK, Spared

\* A request Touch passes over is as it was; on the package, it is alone no longer.
LEMMA TouchMutes ==
  ASSUME AttachInv, RequestInv, NEW p, NEW s \in Slots
  PROVE  /\ Muted(request[s], Touch(p)[s]) /\ DOMAIN Touch(p) = Slots
         /\ Touch(p)[s].on = request[s].on
         /\ Touch(p)[s].alone = (request[s].alone /\ request[s].on # p)
<1> DEFINE r == request[s]
           alone == r.alone /\ r.on # p
<1>1. Touch(p)[s] = [r EXCEPT !.alone = alone] /\ DOMAIN Touch(p) = Slots
  BY DEF Touch
<1>2. {"kind", "on", "alone"} \subseteq DOMAIN r /\ r.alone \in BOOLEAN
  BY DEF AttachInv, RequestInv, RequestOK
<1>3. alone \in BOOLEAN /\ (alone => r.alone)
  BY <1>2
<1> HIDE DEF r, alone
<1>4. Muted(r, [r EXCEPT !.alone = alone]) /\ [r EXCEPT !.alone = alone].on = r.on
      /\ [r EXCEPT !.alone = alone].alone = alone
  BY <1>2, <1>3 DEF Muted
<1> QED  BY <1>1, <1>4 DEF r, alone

LEMMA Still ==
  ASSUME NEW r, r.alone \in BOOLEAN
  PROVE  Muted(r, r)
BY DEF Muted

LEMMA IdleOK ==
  ASSUME NEW rows, NEW fileRows, NEW kept
  PROVE  RequestOK(Idle, rows, fileRows, kept)
BY DEF RequestOK, Idle, Editing

\* A request on a package.
LEMMA OnPackage ==
  ASSUME RequestInv, NEW s \in Slots
  PROVE  /\ request[s].on # None <=> request[s].kind \in Editing
         /\ request[s].on # None <=> request[s].on \in PackageIds
BY PackagesAssumption DEF RequestInv, RequestOK

\* Nothing changes of the packages and the requests, and no content is lost.
LEMMA CatalogueStands ==
  ASSUME CInv, UNCHANGED <<package, files, request>>, Kept \subseteq Kept', muddled \subseteq muddled'
  PROVE  CInv'
<1>1. CatalogueInv'
  BY DEF CInv, CatalogueInv
<1>2. SignedAsIs'
  BY DEF CInv, SignedAsIs
<1>3. RequestInv'
  BY DEF CInv, RequestInv, RequestOK
<1>4. AloneInv'
  BY DEF CInv, AloneInv
<1> QED  BY <1>1, <1>2, <1>3, <1>4 DEF CInv

\* A request begins on a package it found, and was told who else is on it.
LEMMA BegunOK ==
  ASSUME KInv, NEW s \in Slots, NEW p \in PackageIds, NEW kind \in Editing, NEW body,
         Begin(s, p, kind, body), UNCHANGED <<package, files, muddled>>, Kept \subseteq Kept',
         kind # "update" => package[p].kind = "files",
         kind = "update" => body.run \in Runs /\ body.off \in Runs,
         kind = "upload" => body.name \in Names /\ body.content \in Contents /\ body.content \in Kept',
         kind = "delete" => body \in Names
  PROVE  CInv'
<1> DEFINE alone == \A x \in Slots : request[x].on # p
           r == [kind |-> kind, body |-> body, on |-> p, alone |-> alone,
                 was |-> package[p], had |-> files[p]]
<1>1. request' = [Touch(p) EXCEPT ![s] = r] /\ package[p] # Absent /\ request[s] = Idle
  BY DEF Begin
<1>2. /\ r.kind = kind /\ r.body = body /\ r.on = p /\ r.was = package[p] /\ r.had = files[p]
      /\ r.alone = alone /\ DOMAIN r = {"kind", "body", "on", "alone", "was", "had"}
  OBVIOUS
<1>3. alone \in BOOLEAN
  OBVIOUS
<1> HIDE DEF r
<1>4. request'[s] = r /\ \A x \in Slots \ {s} : request'[x] = Touch(p)[x]
  BY <1>1, TouchMutes DEF KInv, CInv, IInv
<1>5. package[p] \in Row /\ files[p] \in FileSets /\ package[p].kind # None
  BY <1>1 DEF KInv, CInv, CatalogueInv
<1>6. RequestOK(r, package, files, Kept')
  BY <1>2, <1>3, <1>5, PackagesAssumption DEF RequestOK, Editing, SameColumns
<1>7. RequestInv'
  <2>1. ASSUME NEW x \in Slots \ {s} PROVE RequestOK(request'[x], package, files, Kept')
    <3>1. Muted(request[x], Touch(p)[x]) /\ {"kind", "on", "alone"} \subseteq DOMAIN request[x]
      BY TouchMutes DEF KInv, CInv, IInv, AttachInv
    <3>2. RequestOK(request[x], package, files, Kept)
      BY DEF KInv, CInv, RequestInv
    <3>3. Spared(Touch(p)[x], package, package, files, files, Kept, Kept')
      BY DEF Spared, SameColumns
    <3>4. RequestOK(Touch(p)[x], package, files, Kept')
      BY <3>1, <3>2, <3>3, MutedOK
    <3> QED  BY <1>4, <3>4
  <2> QED  BY <1>4, <1>6, <2>1 DEF RequestInv
<1>8. AloneInv'
  <2> SUFFICES ASSUME NEW x \in Slots, NEW y \in Slots, x # y,
                      request'[x].on # None, request'[x].alone
               PROVE  request'[y].on # request'[x].on
    BY DEF AloneInv
  <2>1. \A z \in Slots \ {s} : /\ request'[z].on = request[z].on
                               /\ request'[z].alone = (request[z].alone /\ request[z].on # p)
    BY <1>4, TouchMutes DEF KInv, CInv, IInv
  <2>2. CASE x = s
    BY <1>2, <1>4, <2>1, <2>2
  <2>3. CASE y = s
    BY <1>2, <1>4, <2>1, <2>3
  <2>4. CASE x # s /\ y # s
    BY <2>1, <2>4 DEF KInv, CInv, AloneInv
  <2> QED  BY <2>2, <2>3, <2>4
<1>9. CatalogueInv' /\ SignedAsIs'
  BY DEF KInv, CInv, CatalogueInv, SignedAsIs
<1> QED  BY <1>7, <1>8, <1>9 DEF CInv

\* A request ends, having changed nothing but its package: the others on it knew.
LEMMA EndedOK ==
  ASSUME KInv, NEW s \in Slots, NEW e, request' = [request EXCEPT ![s] = e], e.on = None,
         RequestOK(e, package', files', Kept'), Kept \subseteq Kept',
         \A p \in PackageIds : p # request[s].on =>
           SameColumns(package[p], package'[p]) /\ files'[p] = files[p],
         \A p \in PackageIds : package'[p].kind = package[p].kind
  PROVE  RequestInv' /\ AloneInv'
<1>1. request'[s] = e /\ \A x \in Slots \ {s} : request'[x] = request[x]
  BY DEF KInv, IInv, AttachInv
<1>2. ASSUME NEW x \in Slots \ {s} PROVE RequestOK(request[x], package', files', Kept')
  <2>1. /\ RequestOK(request[x], package, files, Kept) /\ {"kind", "on", "alone"} \subseteq DOMAIN request[x]
        /\ request[x].alone \in BOOLEAN
    BY DEF KInv, CInv, RequestInv, IInv, AttachInv, RequestOK
  <2>2. request[x].on \in PackageIds /\ request[x].alone => request[s].on # request[x].on
    BY OnPackage DEF KInv, CInv, AloneInv
  <2>3. Spared(request[x], package, package', files, files', Kept, Kept')
    BY <2>2 DEF Spared
  <2>4. Muted(request[x], request[x])
    BY <2>1, Still
  <2> QED  BY <2>1, <2>3, <2>4, MutedOK
<1>3. RequestInv'
  BY <1>1, <1>2 DEF RequestInv
<1>4. AloneInv'
  BY <1>1 DEF KInv, CInv, AloneInv
<1> QED  BY <1>3, <1>4

\* A request that changed nothing ends.
LEMMA Dropped ==
  ASSUME KInv, NEW s \in Slots, request' = [request EXCEPT ![s] = Idle],
         UNCHANGED <<package, files, muddled>>, Kept \subseteq Kept'
  PROVE  CInv'
<1>1. RequestInv' /\ AloneInv'
  <2>1. Idle.on = None /\ RequestOK(Idle, package', files', Kept')
    BY IdleOK DEF Idle
  <2>2. \A p \in PackageIds : SameColumns(package[p], package'[p])
    BY DEF SameColumns
  <2> QED  BY <2>1, <2>2, EndedOK
<1>2. CatalogueInv' /\ SignedAsIs'
  BY DEF KInv, CInv, CatalogueInv, SignedAsIs
<1> QED  BY <1>1, <1>2 DEF CInv

-----------------------------------------------------------------------------
(* What a request writes.                                                  *)

\* The row a request refreshes keeps its kind; when it is alone, the row is as the request
\* and the files say, signed only if it was over the same.
LEMMA RefreshedOK ==
  ASSUME NEW p \in PackageIds, package[p] \in Row, NEW k, NEW was, NEW fs \in FileSets,
         k.kind = package[p].kind, k.run \in Runs, k.off \in Runs
  PROVE  LET new == Refreshed(p, k, fs, was)
             built == Build(k.run, k.off, fs)
         IN  /\ new \in Row /\ new.kind = package[p].kind
             /\ new.kind # "files" => /\ new.manifest = package[p].manifest
                                      /\ new.signature = package[p].signature
             /\ new.kind = "files" => new.manifest \in {built, package[p].manifest}
             /\ (new.kind = "files" /\ SameColumns(was, package[p])) =>
                  /\ new.run = k.run /\ new.off = k.off /\ new.manifest = built
                  /\ new.signature = IF built # package[p].manifest THEN None
                                     ELSE package[p].signature
<1> DEFINE row == package[p]
           built == Build(k.run, k.off, fs)
           run == Write(k.run, was.run, row.run)
           off == Write(k.off, was.off, row.off)
           now == [row EXCEPT !.run = run, !.off = off]
           manifest == Write(built, was.manifest, row.manifest)
           signature == IF Voided(built, was) THEN Write(None, was.signature, row.signature)
                        ELSE row.signature
           new == [now EXCEPT !.manifest = manifest, !.signature = signature]
<1>1. row \in Row
  OBVIOUS
<1>2. built \in Manifests
  BY DEF Build, Manifests
<1>3. run \in {k.run, row.run} /\ off \in {k.off, row.off} /\ manifest \in {built, row.manifest}
      /\ signature \in {None, row.signature}
  BY DEF Write
<1>4. SameColumns(was, row) =>
        /\ run = k.run /\ off = k.off /\ manifest = built
        /\ signature = IF built # row.manifest THEN None ELSE row.signature
  BY DEF SameColumns, Write, Voided
<1>5. Refreshed(p, k, fs, was) = IF k.kind # "files" THEN now ELSE new
  <2>1. DOMAIN row = {"kind", "run", "off", "manifest", "signature", "retired"}
    BY <1>1 DEF Row
  <2>2. now.manifest = row.manifest /\ now.signature = row.signature
        /\ [now EXCEPT !.manifest = manifest].signature = row.signature
    BY <2>1
  <2> QED  BY <2>1, <2>2 DEF Refreshed
<1> HIDE DEF row, run, off, manifest, signature, built
<1>6. /\ now \in Row /\ now.kind = row.kind
      /\ now.manifest = row.manifest /\ now.signature = row.signature
  BY <1>1, <1>3 DEF Row, row
<1>7. /\ new \in Row /\ new.kind = row.kind /\ new.run = run /\ new.off = off
      /\ new.manifest = manifest /\ new.signature = signature
  BY <1>1, <1>2, <1>3 DEF Row, row
<1> HIDE DEF now, new
<1>8. k.kind = row.kind
  BY DEF row
<1>9. CASE k.kind = "files"
  BY <1>3, <1>4, <1>5, <1>7, <1>8, <1>9 DEF row, built
<1>10. CASE k.kind # "files"
  BY <1>5, <1>6, <1>8, <1>10 DEF row, built
<1> QED  BY <1>9, <1>10

\* What is signed as it stands once p is written so.
Signed(p, new, fs) ==
  /\ new.manifest = Build(new.run, new.off, fs)
  /\ new.signature \in {None, new.manifest}

\* A request writes its package, and what it leaves is signed as it is if it was alone on it.
LEMMA Edited ==
  ASSUME KInv, NEW s \in Slots, request[s].kind \in Editing, NEW new, Changed(s, new),
         NEW fs \in FileSets, files' = [files EXCEPT ![request[s].on] = fs],
         NEW e, request' = [request EXCEPT ![s] = e], e.on = None,
         RequestOK(e, package', files', Kept), UNCHANGED <<store, lost>>,
         new \in Row, new.kind = package[request[s].on].kind,
         new.kind = "files" => new.manifest # None,
         new.kind # "files" => /\ new.manifest = package[request[s].on].manifest
                               /\ new.signature = package[request[s].on].signature
                               /\ fs = files[request[s].on],
         \A n \in Names : fs[n] # None => fs[n] \in Kept,
         (/\ request[s].alone /\ new.kind = "files"
          /\ request[s].on \notin muddled \/ new.manifest # package[request[s].on].manifest)
           => Signed(request[s].on, new, fs)
  PROVE  CInv'
<1> DEFINE p == request[s].on
<1>1. p \in PackageIds /\ package[p].kind # None
  BY DEF KInv, CInv, RequestInv, RequestOK
<1>2. package' = [package EXCEPT ![p] = new]
  BY DEF Changed
<1>3. Kept' = Kept
  BY DEF Kept
<1> HIDE DEF p
<1>4. /\ package \in [PackageIds -> Row] /\ files \in [PackageIds -> FileSets]
  BY DEF KInv, CInv, CatalogueInv
<1>5. /\ package'[p] = new /\ files'[p] = fs /\ DOMAIN package' = PackageIds /\ DOMAIN files' = PackageIds
      /\ \A q \in PackageIds \ {p} : package'[q] = package[q] /\ files'[q] = files[q]
  BY <1>1, <1>2, <1>4 DEF p
<1>6. CatalogueInv'
  <2>1. package' \in [PackageIds -> Row] /\ files' \in [PackageIds -> FileSets]
    BY <1>2, <1>4 DEF p
  <2>2. ASSUME NEW q \in PackageIds
        PROVE  /\ package'[q].kind = None => package'[q] = Absent /\ files'[q] = NoFile
               /\ package'[q].kind = "winget" =>
                    files'[q] = NoFile /\ {package'[q].manifest, package'[q].signature} = {None}
               /\ package'[q].kind = "files" => package'[q].manifest # None
    <3>1. CASE q = p
      BY <1>1, <1>5, <3>1 DEF KInv, CInv, CatalogueInv, p
    <3>2. CASE q # p
      BY <1>5, <3>2 DEF KInv, CInv, CatalogueInv
    <3> QED  BY <3>1, <3>2
  <2>3. ASSUME NEW q \in PackageIds, NEW n \in Names, files'[q][n] # None
        PROVE  files'[q][n] \in Kept
    <3>1. CASE q = p
      BY <1>5, <2>3, <3>1
    <3>2. CASE q # p
      BY <1>5, <2>3, <3>2 DEF KInv, CInv, CatalogueInv
    <3> QED  BY <3>1, <3>2
  <2> QED  BY <1>3, <2>1, <2>2, <2>3 DEF CatalogueInv
<1>7. RequestInv' /\ AloneInv'
  <2>1. \A q \in PackageIds : q # request[s].on =>
           SameColumns(package[q], package'[q]) /\ files'[q] = files[q]
    BY <1>5 DEF SameColumns, p
  <2>2. \A q \in PackageIds : package'[q].kind = package[q].kind
    BY <1>5 DEF p
  <2> QED  BY <1>3, <2>1, <2>2, EndedOK
<1>8. SignedAsIs'
  <2> SUFFICES ASSUME NEW q \in PackageIds, q \notin muddled', package'[q].kind = "files"
               PROVE  Signed(q, package'[q], files'[q])
    BY DEF SignedAsIs, Signed
  <2>1. request[s].alone \in BOOLEAN
    BY DEF KInv, CInv, RequestInv, RequestOK
  <2>2. muddled \ {p} \subseteq muddled'
    BY <2>1 DEF Changed, p
  <2>3. CASE q # p
    BY <1>5, <2>2, <2>3 DEF KInv, CInv, SignedAsIs, Signed
  <2>4. CASE q = p
    <3>1. request[s].alone
      BY <2>1, <2>4 DEF Changed, p
    <3>2. p \notin muddled \/ new.manifest # package[p].manifest
      BY <2>4, <3>1 DEF Changed, p
    <3> QED  BY <1>5, <2>4, <3>1, <3>2 DEF Signed, p
  <2> QED  BY <2>3, <2>4
<1> QED  BY <1>6, <1>7, <1>8 DEF CInv

\* What a request under way carries, of KInv.
LEMMA Carried ==
  ASSUME KInv, NEW s \in Slots, request[s].kind \in Editing
  PROVE  LET r == request[s]
             p == request[s].on
         IN  /\ p \in PackageIds /\ r.was \in Row /\ r.had \in FileSets
             /\ package[p] \in Row /\ files[p] \in FileSets
             /\ r.was.kind = package[p].kind /\ package[p].kind \in {"files", "winget"}
             /\ r.kind # "update" => package[p].kind = "files"
             /\ package[p].kind = "files" => package[p].manifest # None
             /\ \A n \in Names : files[p][n] # None => files[p][n] \in Kept
             /\ r.alone => SameColumns(r.was, package[p]) /\ r.had = files[p]
             /\ (p \notin muddled /\ package[p].kind = "files") => Signed(p, package[p], files[p])
<1> DEFINE r == request[s]
           p == request[s].on
<1>1. RequestOK(r, package, files, Kept)
  BY DEF KInv, CInv, RequestInv
<1>2. /\ p \in PackageIds /\ r.was \in Row /\ r.had \in FileSets
      /\ r.was.kind # None /\ r.was.kind = package[p].kind
      /\ r.kind # "update" => r.was.kind = "files"
      /\ r.alone => SameColumns(r.was, package[p]) /\ r.had = files[p]
  BY <1>1 DEF RequestOK
<1> HIDE DEF r, p
<1>3. /\ package[p] \in Row /\ files[p] \in FileSets
      /\ package[p].kind = "files" => package[p].manifest # None
      /\ \A n \in Names : files[p][n] # None => files[p][n] \in Kept
  BY <1>2 DEF KInv, CInv, CatalogueInv
<1>4. package[p].kind \in {"files", "winget"}
  BY <1>2, <1>3 DEF Row
<1>5. (p \notin muddled /\ package[p].kind = "files") => Signed(p, package[p], files[p])
  BY <1>2 DEF KInv, CInv, SignedAsIs, Signed
<1> QED  BY <1>2, <1>3, <1>4, <1>5 DEF r, p

\* The files a request wrote are files, and on the volume.
LEMMA FileWritten ==
  ASSUME NEW fs \in FileSets, NEW n \in Names, NEW c \in Contents \cup {None}
  PROVE  /\ [fs EXCEPT ![n] = c] \in FileSets
         /\ \A x \in Names : [fs EXCEPT ![n] = c][x] = IF x = n THEN c ELSE fs[x]
BY DEF FileSets

\* A request that refreshes its row: files are those it writes, and fs those it built from.
LEMMA RefreshedEdit ==
  ASSUME KInv, NEW s \in Slots, request[s].kind \in Editing, NEW k, NEW fs, NEW built,
         fs \in FileSets, built \in FileSets,
         k.kind = request[s].was.kind, k.run \in Runs, k.off \in Runs,
         Changed(s, Refreshed(request[s].on, k, built, request[s].was)),
         files' = [files EXCEPT ![request[s].on] = fs],
         k.kind # "files" => fs = files[request[s].on],
         \A n \in Names : fs[n] # None => fs[n] \in Kept,
         request[s].alone => built = fs,
         NEW e, request' = [request EXCEPT ![s] = e], e.on = None,
         RequestOK(e, package', files', Kept), UNCHANGED <<store, lost>>
  PROVE  CInv'
<1> DEFINE r == request[s]
           p == request[s].on
           new == Refreshed(p, k, built, r.was)
           manifest == Build(k.run, k.off, built)
<1>1. /\ p \in PackageIds /\ package[p] \in Row /\ r.was.kind = package[p].kind
      /\ package[p].kind \in {"files", "winget"}
      /\ package[p].kind = "files" => package[p].manifest # None
      /\ r.alone => SameColumns(r.was, package[p])
      /\ (p \notin muddled /\ package[p].kind = "files") => Signed(p, package[p], files[p])
  BY Carried
<1>2. /\ new \in Row /\ new.kind = package[p].kind
      /\ new.kind # "files" => /\ new.manifest = package[p].manifest
                               /\ new.signature = package[p].signature
      /\ new.kind = "files" => new.manifest \in {manifest, package[p].manifest}
      /\ (new.kind = "files" /\ SameColumns(r.was, package[p])) =>
           /\ new.run = k.run /\ new.off = k.off /\ new.manifest = manifest
           /\ new.signature = IF manifest # package[p].manifest THEN None
                              ELSE package[p].signature
  BY <1>1, RefreshedOK
<1>3. manifest \in Manifests
  BY DEF Build, Manifests
<1>4. Changed(s, new)
  OBVIOUS
<1>5. r.alone => manifest = Build(k.run, k.off, fs)
  OBVIOUS
<1> HIDE DEF new, manifest
<1>6. new.kind = "files" => new.manifest # None
  BY <1>1, <1>2, <1>3, PackagesAssumption
<1>7. (/\ r.alone /\ new.kind = "files"
       /\ p \notin muddled \/ new.manifest # package[p].manifest) => Signed(p, new, fs)
  <2> HAVE /\ r.alone /\ new.kind = "files"
           /\ p \notin muddled \/ new.manifest # package[p].manifest
  <2>1. /\ new.run = k.run /\ new.off = k.off /\ new.manifest = manifest
        /\ new.signature = IF manifest # package[p].manifest THEN None ELSE package[p].signature
    BY <1>1, <1>2
  <2>2. CASE manifest # package[p].manifest
    BY <1>5, <2>1, <2>2 DEF Signed
  <2>3. CASE manifest = package[p].manifest
    BY <1>1, <1>2, <1>5, <2>1, <2>3 DEF Signed
  <2> QED  BY <2>2, <2>3
<1> QED  BY <1>1, <1>2, <1>4, <1>6, <1>7, Edited

LEMMA UpdateOK ==
  ASSUME KInv, NEW s \in Slots, UpdateCommit(s)
  PROVE  CInv'
<1> DEFINE r == request[s]
           p == request[s].on
           k == [r.was EXCEPT !.run = r.body.run, !.off = r.body.off]
<1>1. r.kind = "update" /\ r.kind \in Editing
  BY DEF UpdateCommit, Is, Editing
<1>2. r.body.run \in Runs /\ r.body.off \in Runs
  BY <1>1 DEF KInv, CInv, RequestInv, RequestOK
<1>3. /\ p \in PackageIds /\ r.was \in Row /\ files[p] \in FileSets
      /\ \A n \in Names : files[p][n] # None => files[p][n] \in Kept
  BY <1>1, Carried
<1>4. k.kind = r.was.kind /\ k.run \in Runs /\ k.off \in Runs
  BY <1>2, <1>3 DEF Row
<1>5. Changed(s, Refreshed(p, k, files[p], r.was)) /\ request' = [request EXCEPT ![s] = Idle]
      /\ UNCHANGED <<files, store, lost>>
  BY DEF UpdateCommit
<1>6. files' = [files EXCEPT ![p] = files[p]]
  BY <1>5 DEF KInv, CInv, CatalogueInv
<1>7. Idle.on = None /\ RequestOK(Idle, package', files', Kept)
  BY IdleOK DEF Idle
<1> HIDE DEF k
<1> QED  BY <1>1, <1>3, <1>4, <1>5, <1>6, <1>7, RefreshedEdit

LEMMA UploadOK ==
  ASSUME KInv, NEW s \in Slots, UploadCommit(s)
  PROVE  CInv'
<1> DEFINE r == request[s]
           p == request[s].on
           file(fs) == [fs EXCEPT ![r.body.name] = r.body.content]
<1>1. r.kind = "upload" /\ r.kind \in Editing
  BY DEF UploadCommit, Is, Editing
<1>2. r.body.name \in Names /\ r.body.content \in Contents /\ r.body.content \in Kept
  BY <1>1 DEF KInv, CInv, RequestInv, RequestOK
<1>3. /\ r.was \in Row /\ r.had \in FileSets /\ files[p] \in FileSets
      /\ \A n \in Names : files[p][n] # None => files[p][n] \in Kept
      /\ r.was.kind = "files" /\ (r.alone => r.had = files[p])
  BY <1>1, Carried
<1>4. PICK fs \in {files[p], r.had} : Changed(s, Refreshed(p, r.was, file(fs), r.was))
  BY DEF UploadCommit
<1>5. files' = [files EXCEPT ![p] = file(files[p])] /\ request' = [request EXCEPT ![s] = Idle]
      /\ UNCHANGED <<store, lost>>
  BY DEF UploadCommit, Rewritten
<1>6. file(files[p]) \in FileSets /\ file(fs) \in FileSets
  BY <1>2, <1>3, FileWritten
<1>7. \A n \in Names : file(files[p])[n] # None => file(files[p])[n] \in Kept
  BY <1>2, <1>3, FileWritten
<1>8. r.alone => file(fs) = file(files[p])
  BY <1>3
<1>9. r.was.run \in Runs /\ r.was.off \in Runs
  BY <1>3 DEF Row
<1>10. Idle.on = None /\ RequestOK(Idle, package', files', Kept)
  BY IdleOK DEF Idle
<1> HIDE DEF file
<1> QED  BY <1>1, <1>3, <1>4, <1>5, <1>6, <1>7, <1>8, <1>9, <1>10, RefreshedEdit

LEMMA DeleteOK ==
  ASSUME KInv, NEW s \in Slots, DeleteCommit(s)
  PROVE  CInv'
<1> DEFINE r == request[s]
           p == request[s].on
           file(fs) == [fs EXCEPT ![r.body] = None]
           sweep == [kind |-> "sweep", on |-> None, alone |-> TRUE, content |-> r.had[r.body]]
<1>1. r.kind = "delete" /\ r.kind \in Editing
  BY DEF DeleteCommit, Is, Editing
<1>2. r.body \in Names
  BY <1>1 DEF KInv, CInv, RequestInv, RequestOK
<1>3. /\ r.was \in Row /\ r.had \in FileSets /\ files[p] \in FileSets
      /\ \A n \in Names : files[p][n] # None => files[p][n] \in Kept
      /\ r.was.kind = "files" /\ (r.alone => r.had = files[p])
  BY <1>1, Carried
<1>4. PICK fs \in {files[p], r.had} : Changed(s, Refreshed(p, r.was, file(fs), r.was))
  BY DEF DeleteCommit
<1>5. files' = [files EXCEPT ![p] = file(files[p])] /\ request' = [request EXCEPT ![s] = sweep]
      /\ UNCHANGED <<store, lost>>
  BY DEF DeleteCommit, Rewritten
<1>6. file(files[p]) \in FileSets /\ file(fs) \in FileSets
  BY <1>2, <1>3, FileWritten
<1>7. \A n \in Names : file(files[p])[n] # None => file(files[p])[n] \in Kept
  BY <1>2, <1>3, FileWritten
<1>8. r.alone => file(fs) = file(files[p])
  BY <1>3
<1>9. r.was.run \in Runs /\ r.was.off \in Runs
  BY <1>3 DEF Row
<1>10. sweep.on = None /\ RequestOK(sweep, package', files', Kept)
  BY DEF RequestOK, Editing
<1> HIDE DEF file, sweep
<1> QED  BY <1>1, <1>3, <1>4, <1>5, <1>6, <1>7, <1>8, <1>9, <1>10, RefreshedEdit

LEMMA AttachOK ==
  ASSUME KInv, NEW s \in Slots, AttachCommit(s)
  PROVE  CInv'
<1> DEFINE r == request[s]
           p == request[s].on
           signature == Write(r.was.manifest, r.was.signature, package[p].signature)
           new == [package[p] EXCEPT !.signature = signature]
<1>1. r.kind = "sign" /\ r.kind \in Editing
  BY DEF AttachCommit, Is, Editing
<1>2. /\ p \in PackageIds /\ r.was \in Row /\ package[p] \in Row /\ files[p] \in FileSets
      /\ package[p].kind = "files" /\ package[p].manifest # None
      /\ \A n \in Names : files[p][n] # None => files[p][n] \in Kept
      /\ r.alone => SameColumns(r.was, package[p])
      /\ p \notin muddled => Signed(p, package[p], files[p])
  BY <1>1, Carried
<1>3. Changed(s, new) /\ request' = [request EXCEPT ![s] = Idle] /\ UNCHANGED <<files, store, lost>>
  BY DEF AttachCommit
<1>4. signature \in {r.was.manifest, package[p].signature}
      /\ (r.alone => signature = package[p].manifest)
  BY <1>2 DEF Write, SameColumns
<1>5. signature \in Manifests \cup {None}
  BY <1>2, <1>4 DEF Row
<1> HIDE DEF signature
<1>6. /\ new \in Row /\ new.kind = package[p].kind /\ new.run = package[p].run
      /\ new.off = package[p].off /\ new.manifest = package[p].manifest /\ new.signature = signature
  BY <1>2, <1>5 DEF Row
<1>7. files' = [files EXCEPT ![p] = files[p]]
  BY <1>3 DEF KInv, CInv, CatalogueInv
<1>8. Idle.on = None /\ RequestOK(Idle, package', files', Kept)
  BY IdleOK DEF Idle
<1> HIDE DEF new
<1>9. (/\ r.alone /\ new.kind = "files"
       /\ p \notin muddled \/ new.manifest # package[p].manifest) => Signed(p, new, files[p])
  BY <1>2, <1>4, <1>6 DEF Signed
<1>10. new.kind = "files" /\ new.manifest # None
  BY <1>2, <1>6
<1> QED  BY <1>1, <1>2, <1>3, <1>6, <1>7, <1>8, <1>9, <1>10, Edited

\* A row written by no request: it keeps its kind, what it runs and its manifest, and a
\* signature it had or none; requests on it are as they were, or told.
LEMMA RowStands ==
  ASSUME KInv, NEW p \in PackageIds, NEW new, package' = [package EXCEPT ![p] = new],
         UNCHANGED <<files, store, lost, muddled>>,
         package[p] # Absent, new \in Row, new.kind = package[p].kind, new.run = package[p].run,
         new.off = package[p].off, new.manifest = package[p].manifest,
         \/ new.signature = None /\ request' = Touch(p)
         \/ new.signature = package[p].signature /\ request' = request
  PROVE  CInv'
<1>1. /\ package \in [PackageIds -> Row] /\ files \in [PackageIds -> FileSets]
  BY DEF KInv, CInv, CatalogueInv
<1>2. package'[p] = new /\ \A q \in PackageIds \ {p} : package'[q] = package[q]
  BY <1>1
<1>3. Kept' = Kept /\ files' = files /\ package[p].kind # None
  BY DEF Kept, KInv, CInv, CatalogueInv
<1>4. CatalogueInv'
  <2>1. package' \in [PackageIds -> Row]
    BY <1>1
  <2>2. ASSUME NEW q \in PackageIds
        PROVE  /\ package'[q].kind = None => package'[q] = Absent /\ files[q] = NoFile
               /\ package'[q].kind = "winget" =>
                    files[q] = NoFile /\ {package'[q].manifest, package'[q].signature} = {None}
               /\ package'[q].kind = "files" => package'[q].manifest # None
    BY <1>2, <1>3 DEF KInv, CInv, CatalogueInv
  <2> QED  BY <1>1, <1>3, <2>1, <2>2 DEF KInv, CInv, CatalogueInv
<1>5. SignedAsIs'
  BY <1>2, <1>3 DEF KInv, CInv, SignedAsIs
<1>6. DOMAIN request' = Slots
  BY DEF Touch, KInv, IInv, AttachInv
<1>7. ASSUME NEW x \in Slots
      PROVE  /\ RequestOK(request'[x], package', files, Kept)
             /\ request'[x].on = request[x].on /\ (request'[x].alone => request[x].alone)
  <2>1. /\ RequestOK(request[x], package, files, Kept) /\ request[x].alone \in BOOLEAN
        /\ {"kind", "on", "alone"} \subseteq DOMAIN request[x]
    BY DEF KInv, CInv, RequestInv, RequestOK, IInv, AttachInv
  <2>2. Muted(request[x], request'[x]) /\ request'[x].on = request[x].on
    BY <2>1, TouchMutes, Still DEF KInv, CInv, IInv
  <2>3. Spared(request'[x], package, package', files, files, Kept, Kept)
    <3>1. (request'[x].on \in PackageIds /\ request'[x].alone) =>
            SameColumns(package[request'[x].on], package'[request'[x].on])
      <4>1. CASE request'[x].on # p
        BY <1>2, <4>1 DEF SameColumns
      <4>2. CASE request'[x].on = p /\ request' = Touch(p)
        BY <2>2, <4>2, TouchMutes DEF KInv, CInv, IInv
      <4>3. CASE request'[x].on = p /\ new.signature = package[p].signature
        BY <1>2, <4>3 DEF SameColumns
      <4> QED  BY <4>1, <4>2, <4>3
    <3>2. request'[x].on \in PackageIds => package'[request'[x].on].kind = package[request'[x].on].kind
      BY <1>2
    <3> QED  BY <3>1, <3>2 DEF Spared
  <2> QED  BY <2>1, <2>2, <2>3, MutedOK DEF Muted
<1>8. RequestInv'
  BY <1>3, <1>7 DEF RequestInv
<1>9. AloneInv'
  BY <1>7 DEF AloneInv, KInv, CInv
<1> QED  BY <1>4, <1>5, <1>8, <1>9 DEF CInv

LEMMA EditOK ==
  ASSUME KInv, NEW p \in PackageIds,
         RemoveSignature(p) \/ RetirePackage(p) \/ RestorePackage(p)
  PROVE  CInv'
<1>1. package[p] \in Row
  BY DEF KInv, CInv, CatalogueInv
<1>2. DOMAIN package = PackageIds
  BY DEF KInv, CInv, CatalogueInv
<1>3. CASE RemoveSignature(p)
  <2> DEFINE new == [package[p] EXCEPT !.signature = None]
  <2>1. package' = [package EXCEPT ![p] = new] /\ package[p].signature # None
        /\ request' = Touch(p) /\ UNCHANGED <<files, store, lost, muddled>>
    BY <1>2, <1>3 DEF RemoveSignature
  <2>2. /\ new \in Row /\ new.kind = package[p].kind /\ new.run = package[p].run
        /\ new.off = package[p].off /\ new.manifest = package[p].manifest /\ new.signature = None
    BY <1>1 DEF Row
  <2>3. package[p] # Absent
    BY <2>1 DEF Absent
  <2> HIDE DEF new
  <2> QED  BY <2>1, <2>2, <2>3, RowStands
<1>4. CASE RetirePackage(p)
  <2> DEFINE new == [package[p] EXCEPT !.retired = TRUE]
  <2>1. package' = [package EXCEPT ![p] = new] /\ package[p] # Absent
        /\ request' = request /\ UNCHANGED <<files, store, lost, muddled>>
    BY <1>2, <1>4 DEF RetirePackage
  <2>2. /\ new \in Row /\ new.kind = package[p].kind /\ new.run = package[p].run
        /\ new.off = package[p].off /\ new.manifest = package[p].manifest
        /\ new.signature = package[p].signature
    BY <1>1 DEF Row
  <2> HIDE DEF new
  <2> QED  BY <2>1, <2>2, RowStands
<1>5. CASE RestorePackage(p)
  <2> DEFINE new == [package[p] EXCEPT !.retired = FALSE]
  <2>1. package' = [package EXCEPT ![p] = new] /\ package[p].retired
        /\ request' = request /\ UNCHANGED <<files, store, lost, muddled>>
    BY <1>2, <1>5 DEF RestorePackage
  <2>2. /\ new \in Row /\ new.kind = package[p].kind /\ new.run = package[p].run
        /\ new.off = package[p].off /\ new.manifest = package[p].manifest
        /\ new.signature = package[p].signature
    BY <1>1 DEF Row
  <2>3. package[p] # Absent
    BY <2>1 DEF Absent
  <2> HIDE DEF new
  <2> QED  BY <2>1, <2>2, <2>3, RowStands
<1> QED  BY <1>3, <1>4, <1>5

\* A package is created empty; no request was on it.
LEMMA CreateOK ==
  ASSUME KInv, NEW p \in PackageIds, NEW kind \in {"files", "winget"},
         NEW run \in Programs, NEW off \in Programs, CreatePackage(p, kind, run, off)
  PROVE  CInv'
<1> DEFINE manifest == IF kind = "files" THEN Build(run, off, NoFile) ELSE None
           new == [Absent EXCEPT !.kind = kind, !.run = run, !.off = off, !.manifest = manifest]
<1>1. /\ package[p] = Absent /\ package' = [package EXCEPT ![p] = new]
      /\ UNCHANGED <<files, store, request, lost, muddled>>
  BY DEF CreatePackage
<1>2. package \in [PackageIds -> Row] /\ files[p] = NoFile /\ NoFile \in FileSets
      /\ package[p].kind = None
  BY <1>1 DEF KInv, CInv, CatalogueInv, NoFile, FileSets, Absent
<1>3. /\ manifest \in Manifests \cup {None}
      /\ kind = "files" => manifest = Build(run, off, NoFile) /\ manifest # None
      /\ kind = "winget" => manifest = None
  BY <1>2, PackagesAssumption DEF Build, Manifests, Runs
<1>4. run \in Runs /\ off \in Runs
  BY DEF Runs
<1> HIDE DEF manifest
<1>5. /\ new \in Row /\ new.kind = kind /\ new.run = run /\ new.off = off
      /\ new.manifest = manifest /\ new.signature = None
  BY <1>3, <1>4 DEF Absent, Row
<1> HIDE DEF new
<1>6. package'[p] = new /\ \A q \in PackageIds \ {p} : package'[q] = package[q]
  BY <1>1, <1>2
<1>7. Kept' = Kept /\ kind # None
  BY <1>1, PackagesAssumption DEF Kept
<1>8. CatalogueInv'
  <2>1. package' \in [PackageIds -> Row]
    BY <1>1, <1>2, <1>5
  <2>2. ASSUME NEW q \in PackageIds
        PROVE  /\ package'[q].kind = None => package'[q] = Absent /\ files[q] = NoFile
               /\ package'[q].kind = "winget" =>
                    files[q] = NoFile /\ {package'[q].manifest, package'[q].signature} = {None}
               /\ package'[q].kind = "files" => package'[q].manifest # None
    BY <1>2, <1>3, <1>5, <1>6, <1>7 DEF KInv, CInv, CatalogueInv
  <2> QED  BY <1>1, <1>7, <2>1, <2>2 DEF KInv, CInv, CatalogueInv
<1>9. SignedAsIs'
  <2>1. new.kind = "files" => new.manifest = Build(new.run, new.off, files[p])
    BY <1>2, <1>3, <1>5
  <2> QED  BY <1>1, <1>5, <1>6, <2>1 DEF KInv, CInv, SignedAsIs
<1>10. ASSUME NEW x \in Slots PROVE RequestOK(request[x], package', files, Kept)
  <2>1. RequestOK(request[x], package, files, Kept) /\ request[x].alone \in BOOLEAN
        /\ {"kind", "on", "alone"} \subseteq DOMAIN request[x]
    BY DEF KInv, CInv, RequestInv, RequestOK, IInv, AttachInv
  <2>2. request[x].on # p
    BY <1>2, <2>1, PackagesAssumption DEF RequestOK
  <2>3. Spared(request[x], package, package', files, files, Kept, Kept)
    BY <1>6, <2>2 DEF Spared, SameColumns
  <2>4. Muted(request[x], request[x])
    BY <2>1, Still
  <2> QED  BY <2>1, <2>3, <2>4, MutedOK
<1>11. RequestInv' /\ AloneInv'
  BY <1>1, <1>7, <1>10 DEF RequestInv, AloneInv, KInv, CInv
<1> QED  BY <1>8, <1>9, <1>11 DEF CInv

\* A content is removed once no row names it; an upload of it under way is then lost.
LEMMA SweepOK ==
  ASSUME KInv, NEW s \in Slots, RemoveUnreferenced(s)
  PROVE  CInv'
<1> DEFINE c == request[s].content
<1>1. /\ request' = [request EXCEPT ![s] = Idle] /\ UNCHANGED <<package, files, muddled>>
      /\ Kept \ {c} \subseteq Kept'
      /\ InUse(c) \/ (\E x \in Slots : Is(x, "upload") /\ request[x].body.content = c)
           => Kept \subseteq Kept'
  BY DEF RemoveUnreferenced, Unreferenced, Kept
<1> HIDE DEF c
<1>2. CatalogueInv'
  <2>1. ASSUME NEW p \in PackageIds, NEW n \in Names, files[p][n] # None
        PROVE  files[p][n] \in Kept'
    <3>1. files[p][n] \in Kept
      BY <2>1 DEF KInv, CInv, CatalogueInv
    <3>2. files[p][n] = c => InUse(c)
      BY DEF InUse
    <3> QED  BY <1>1, <3>1, <3>2
  <2> QED  BY <1>1, <2>1 DEF KInv, CInv, CatalogueInv
<1>3. SignedAsIs'
  BY <1>1 DEF KInv, CInv, SignedAsIs
<1>4. ASSUME NEW x \in Slots PROVE RequestOK(request[x], package, files, Kept')
  <2>1. RequestOK(request[x], package, files, Kept)
    BY DEF KInv, CInv, RequestInv
  <2>2. request[x].kind = "upload" => request[x].body.content \in Kept'
    BY <1>1, <2>1 DEF RequestOK, Is
  <2> QED  BY <2>1, <2>2 DEF RequestOK
<1>5. RequestOK(Idle, package, files, Kept')
  BY IdleOK
<1>6. RequestInv' /\ AloneInv'
  BY <1>1, <1>4, <1>5 DEF RequestInv, AloneInv, KInv, CInv, IInv, AttachInv, Idle
<1> QED  BY <1>2, <1>3, <1>6 DEF CInv

LEMMA ConsoleOK ==
  ASSUME KInv, Console
  PROVE  CInv'
<1>1. ASSUME NEW p \in PackageIds, NEW run \in Programs, NEW off \in Programs, NEW s \in Slots,
             UpdatePackage(s, p, run, off)
      PROVE  CInv'
  <2> DEFINE body == [run |-> run, off |-> off]
  <2>1. body.run \in Runs /\ body.off \in Runs /\ Begin(s, p, "update", body) /\ "update" \in Editing
    BY <1>1 DEF UpdatePackage, Runs, Editing
  <2>2. UNCHANGED <<package, files, muddled>> /\ Kept \subseteq Kept'
    BY <1>1 DEF UpdatePackage, Kept
  <2> HIDE DEF body
  <2> QED  BY <2>1, <2>2, BegunOK
<1>2. ASSUME NEW p \in PackageIds, NEW n \in Names, NEW s \in Slots, DeleteFile(s, p, n)
      PROVE  CInv'
  <2>1. Begin(s, p, "delete", n) /\ package[p].kind = "files" /\ "delete" \in Editing
        /\ UNCHANGED <<package, files, muddled>> /\ Kept \subseteq Kept'
    BY <1>2 DEF DeleteFile, FilesKind, Editing, Kept
  <2> QED  BY <2>1, BegunOK
<1>3. ASSUME NEW p \in PackageIds, NEW n \in Names, NEW c \in Contents, NEW s \in Slots,
             UploadFiles(s, p, n, c)
      PROVE  CInv'
  <2> DEFINE body == [name |-> n, content |-> c]
  <2>1. /\ Begin(s, p, "upload", body) /\ package[p].kind = "files" /\ "upload" \in Editing
        /\ UNCHANGED <<package, files, muddled>> /\ Kept \subseteq Kept'
        /\ body.name \in Names /\ body.content \in Contents /\ body.content \in Kept'
    BY <1>3 DEF UploadFiles, FilesKind, Editing, Kept
  <2> HIDE DEF body
  <2> QED  BY <2>1, BegunOK
<1>4. ASSUME NEW p \in PackageIds, NEW s \in Slots, AttachSignature(s, p)
      PROVE  CInv'
  <2>1. Begin(s, p, "sign", None) /\ package[p].kind = "files" /\ "sign" \in Editing
        /\ UNCHANGED <<package, files, muddled>> /\ Kept \subseteq Kept'
    BY <1>4 DEF AttachSignature, FilesKind, Editing, Kept
  <2> QED  BY <2>1, BegunOK
<1>5. ASSUME NEW s \in Slots, RemoveUnreferenced(s)
      PROVE  CInv'
  BY <1>5, SweepOK
<1>6. ASSUME NEW s \in Slots, Abort(s)
      PROVE  CInv'
  <2>1. request' = [request EXCEPT ![s] = Idle] /\ UNCHANGED <<package, files, muddled>>
        /\ Kept \subseteq Kept'
    BY <1>6 DEF Abort, Kept
  <2> QED  BY <2>1, Dropped
<1>7. ASSUME NEW p \in PackageIds, DownloadManifest(p)
      PROVE  CInv'
  BY <1>7, CatalogueStands DEF DownloadManifest, Kept, KInv
<1>8. ASSUME NEW p \in PackageIds, NEW ms, NEW action, CreateCommands(ms, p, action)
      PROVE  CInv'
  BY <1>8, CatalogueStands DEF CreateCommands, console, Kept, KInv
<1> QED
  BY <1>1, <1>2, <1>3, <1>4, <1>5, <1>6, <1>7, <1>8, CreateOK, UpdateOK, UploadOK, DeleteOK,
     AttachOK, EditOK DEF Console

-----------------------------------------------------------------------------
(* The postes.                                                             *)

LEMMA FleetStands ==
  ASSUME FInv, UNCHANGED <<deploy, folder, transfer, inFlight, leaked, files>>
  PROVE  FInv'
<1>1. DeployInv'
  BY DEF FInv, DeployInv, DeployOK, Working
<1>2. TransferInv'
  BY DEF FInv, TransferInv, Wanted, Manifest, Has, Listed
<1>3. DownloadsBounded'
  BY DEF FInv, DownloadsBounded
<1> QED  BY <1>1, <1>2, <1>3 DEF FInv

\* The postes downloading.
Busy == {m \in Postes : transfer[m] # None}

LEMMA BusyFinite == IsFiniteSet(Busy) /\ Cardinality(Busy) \in Nat
BY FS_Subset, FS_CardinalityType, PackagesAssumption DEF Busy

\* The files of a package change: a deployment handed others is stale from then on.
LEMMA RewrittenOK ==
  ASSUME KInv, NEW p \in PackageIds, NEW fs, Rewritten(p, fs),
         UNCHANGED <<folder, transfer, inFlight, leaked>>
  PROVE  FInv'
<1>1. files' = [files EXCEPT ![p] = fs] /\ DOMAIN files = PackageIds
  BY DEF Rewritten, KInv, CInv, CatalogueInv
<1>2. ASSUME NEW m \in Postes
      PROVE  /\ DOMAIN deploy'[m] = DOMAIN deploy[m]
             /\ deploy'[m].status = deploy[m].status /\ deploy'[m].package = deploy[m].package
             /\ deploy'[m].handed = deploy[m].handed /\ deploy'[m].why = deploy[m].why
             /\ deploy'[m].stale = (deploy[m].stale \/ (deploy[m].package = p /\ fs # files[p]))
  <2> DEFINE stale == deploy[m].stale \/ (deploy[m].package = p /\ fs # files[p])
  <2>1. deploy'[m] = [deploy[m] EXCEPT !.stale = stale]
    BY DEF Rewritten
  <2>2. {"status", "package", "handed", "why", "stale"} \subseteq DOMAIN deploy[m]
    BY DEF KInv, IInv, HandedInv, NoDeploy
  <2> HIDE DEF stale
  <2> QED  BY <2>1, <2>2 DEF stale
<1>3. DeployInv'
  <2> SUFFICES ASSUME NEW m \in Postes PROVE DeployOK(deploy'[m], files')
    BY DEF DeployInv
  <2>1. DeployOK(deploy[m], files)
    BY DEF KInv, FInv, DeployInv
  <2>2. ASSUME Working(deploy[m]), ~deploy'[m].stale
        PROVE  files'[deploy[m].package] = files[deploy[m].package] /\ ~deploy[m].stale
    <3>1. deploy[m].package \in PackageIds
      BY <2>1, <2>2, PackagesAssumption DEF DeployOK, Working
    <3>2. ~deploy[m].stale /\ ~(deploy[m].package = p /\ fs # files[p])
      BY <1>2, <2>2
    <3> QED  BY <1>1, <3>1, <3>2
  <2> QED  BY <1>2, <2>1, <2>2 DEF DeployOK, Working
<1>4. TransferInv'
  BY <1>2 DEF KInv, FInv, TransferInv, Wanted, Manifest, Has, Listed
<1>5. DownloadsBounded'
  BY DEF KInv, FInv, DownloadsBounded
<1> QED  BY <1>3, <1>4, <1>5 DEF FInv

\* Deployments are created on postes that have none open.
LEMMA DeployedOK ==
  ASSUME KInv, NEW ms, NEW p \in PackageIds, NEW action, CreateCommands(ms, p, action)
  PROVE  FInv'
<1> DEFINE d == [NoDeploy EXCEPT !.status = "pending", !.package = p, !.action = action]
<1>1. /\ deploy' = [m \in Postes |-> IF m \in ms /\ ~Open(m) THEN d ELSE deploy[m]]
      /\ UNCHANGED <<files, folder, transfer, inFlight, leaked>>
  BY DEF CreateCommands, console
<1>2. d.status = "pending" /\ d.package = p /\ d.why = None /\ d.stale = FALSE
  BY DEF NoDeploy
<1> HIDE DEF d
<1>3. DeployOK(d, files)
  BY <1>2, PackagesAssumption DEF DeployOK, Working
<1>4. DeployInv'
  BY <1>1, <1>3 DEF KInv, FInv, DeployInv
<1>5. \A m \in Postes : transfer[m] # None => deploy'[m] = deploy[m]
  BY <1>1 DEF KInv, FInv, TransferInv, Open
<1>6. TransferInv'
  BY <1>1, <1>5 DEF KInv, FInv, TransferInv, Wanted, Manifest, Has, Listed
<1>7. DownloadsBounded'
  BY <1>1 DEF KInv, FInv, DownloadsBounded
<1> QED  BY <1>4, <1>6, <1>7 DEF FInv

\* The deployment of a poste that downloads nothing becomes d, its files what they may.
LEMMA Redeployed ==
  ASSUME KInv, NEW m \in Postes, transfer[m] = None, NEW d, deploy' = [deploy EXCEPT ![m] = d],
         DeployOK(d, files), UNCHANGED <<files, transfer, inFlight, leaked>>,
         NEW kept \in [PackageIds -> FileSets], folder' = [folder EXCEPT ![m] = kept]
  PROVE  FInv'
<1>1. DeployInv'
  BY DEF KInv, FInv, DeployInv, IInv, HandedInv
<1>2. \A x \in Postes \ {m} : deploy'[x] = deploy[x] /\ folder'[x] = folder[x]
  OBVIOUS
<1>3. folder' \in [Postes -> [PackageIds -> FileSets]]
  BY DEF KInv, FInv, TransferInv
<1>4. TransferInv'
  BY <1>2, <1>3 DEF KInv, FInv, TransferInv, Wanted, Manifest, Has, Listed
<1>5. DownloadsBounded'
  BY DEF KInv, FInv, DownloadsBounded
<1> QED  BY <1>1, <1>4, <1>5 DEF FInv

\* The same, its files left alone.
LEMMA RedeployedOnly ==
  ASSUME KInv, NEW m \in Postes, transfer[m] = None, NEW d, deploy' = [deploy EXCEPT ![m] = d],
         DeployOK(d, files), UNCHANGED <<files, folder, transfer, inFlight, leaked>>
  PROVE  FInv'
<1> DEFINE kept == folder[m]
<1>1. kept \in [PackageIds -> FileSets] /\ folder' = [folder EXCEPT ![m] = kept]
  BY DEF KInv, FInv, TransferInv
<1>2. UNCHANGED <<files, transfer, inFlight, leaked>>
  OBVIOUS
<1> HIDE DEF kept
<1> QED  BY <1>1, <1>2, Redeployed

\* A deployment that ends, and is not missing a file.
LEMMA EndedDeploy ==
  ASSUME KInv, NEW m \in Postes, NEW status \in {"failed", "success"}, NEW why,
         why # "missing", Open(m), Ends(m, status, why)
  PROVE  \E d : deploy' = [deploy EXCEPT ![m] = d] /\ DeployOK(d, files)
<1> DEFINE d == [deploy[m] EXCEPT !.status = status, !.why = why, !.handed = None]
<1>1. DOMAIN NoDeploy \subseteq DOMAIN deploy[m] /\ DOMAIN deploy = Postes
  BY DEF KInv, IInv, HandedInv
<1>2. deploy' = [deploy EXCEPT ![m] = d]
  BY <1>1 DEF Ends
<1>3. d.status = status /\ d.why = why /\ d.package = deploy[m].package /\ d.stale = deploy[m].stale
  BY <1>1 DEF NoDeploy
<1>4. DeployOK(deploy[m], files) /\ deploy[m].status # None
  BY PackagesAssumption DEF KInv, FInv, DeployInv, Open
<1> HIDE DEF d
<1>5. DeployOK(d, files)
  BY <1>3, <1>4 DEF DeployOK, Working
<1> QED  BY <1>2, <1>5

LEMMA DeliveryOK ==
  ASSUME KInv, NEW m \in Postes, PackageDeliveries(m)
  PROVE  FInv'
<1> DEFINE p == deploy[m].package
           k == package[p]
           h == [manifest |-> k.manifest, signature |-> k.signature]
           stale == k.kind = "files" /\ k.manifest.files # files[p]
           d == [deploy[m] EXCEPT !.status = "delivered", !.handed = h, !.stale = stale]
<1>1. DOMAIN NoDeploy \subseteq DOMAIN deploy[m] /\ DOMAIN deploy = Postes
  BY DEF KInv, IInv, HandedInv
<1>2. deploy' = [deploy EXCEPT ![m] = d] /\ deploy[m].status = "pending"
      /\ UNCHANGED <<files, folder, transfer, inFlight, leaked>>
  BY <1>1 DEF PackageDeliveries, console
<1>3. DeployOK(deploy[m], files) /\ deploy[m].status # None /\ transfer[m] = None
  BY <1>2, PackagesAssumption DEF KInv, FInv, DeployInv, TransferInv
<1>4. p \in PackageIds /\ deploy[m].why # "missing"
  BY <1>2, <1>3 DEF DeployOK
<1>5. k \in Row /\ (k.kind # "files" => k.manifest = None)
  <2>1. k \in Row /\ (k.kind = None => k = Absent)
        /\ (k.kind = "winget" => {k.manifest, k.signature} = {None})
    BY <1>4 DEF KInv, CInv, CatalogueInv
  <2>2. k.kind \in {"files", "winget", None}
    BY <2>1 DEF Row
  <2> HIDE DEF k
  <2> QED  BY <2>1, <2>2 DEF Absent
<1>6. k.manifest \in Manifests \cup {None} /\ stale \in BOOLEAN
      /\ (~stale /\ k.manifest # None => k.manifest.files = files[p])
  BY <1>5 DEF Row
<1> HIDE DEF stale
<1>7. d.status = "delivered" /\ d.why = deploy[m].why /\ d.package = p /\ d.stale = stale
      /\ d.handed.manifest = k.manifest
  BY <1>1 DEF NoDeploy
<1> HIDE DEF d, k, p
<1>8. DeployOK(d, files)
  BY <1>4, <1>6, <1>7 DEF DeployOK, Working
<1> QED  BY <1>2, <1>3, <1>8, RedeployedOnly

LEMMA ExecuteOK ==
  ASSUME KInv, NEW m \in Postes, ExecuteFiles(m)
  PROVE  FInv'
<1>1. deploy[m].status = "delivered" /\ UNCHANGED <<files, folder, transfer, inFlight, leaked>>
  BY DEF ExecuteFiles, console
<1>2. transfer[m] = None /\ Open(m)
  BY <1>1 DEF KInv, FInv, TransferInv, Open
<1>3. DOMAIN NoDeploy \subseteq DOMAIN deploy[m] /\ DOMAIN deploy = Postes
  BY DEF KInv, IInv, HandedInv
<1>4. CASE Runnable(m)
  <2> DEFINE d == [deploy[m] EXCEPT !.status = "running"]
  <2>1. deploy' = [deploy EXCEPT ![m] = d]
    BY <1>3, <1>4 DEF ExecuteFiles
  <2>2. d.status = "running" /\ d.why = deploy[m].why /\ d.package = deploy[m].package
        /\ d.stale = deploy[m].stale /\ d.handed = deploy[m].handed
    BY <1>3 DEF NoDeploy
  <2>3. DeployOK(deploy[m], files) /\ deploy[m].status # None
    BY <1>1, PackagesAssumption DEF KInv, FInv, DeployInv
  <2> HIDE DEF d
  <2>4. DeployOK(d, files)
    BY <1>1, <2>2, <2>3 DEF DeployOK, Working
  <2> QED  BY <1>1, <1>2, <2>1, <2>4, RedeployedOnly
<1>5. CASE ~Runnable(m)
  <2>1. PICK d : deploy' = [deploy EXCEPT ![m] = d] /\ DeployOK(d, files)
    BY <1>2, <1>5, EndedDeploy DEF ExecuteFiles
  <2> QED  BY <1>1, <1>2, <2>1, RedeployedOnly
<1> QED  BY <1>4, <1>5

\* The folder of a poste, a file of its package kept or thrown away.
LEMMA KeepOK ==
  ASSUME KInv, NEW m \in Postes, NEW n \in Names, NEW c \in Contents \cup {None},
         deploy[m].package \in PackageIds, Keep(m, n, c)
  PROVE  \E kept \in [PackageIds -> FileSets] :
            /\ folder' = [folder EXCEPT ![m] = kept]
            /\ kept[deploy[m].package] = [folder[m][deploy[m].package] EXCEPT ![n] = c]
<1> DEFINE p == deploy[m].package
           fs == [folder[m][p] EXCEPT ![n] = c]
           kept == [folder[m] EXCEPT ![p] = fs]
<1>1. folder \in [Postes -> [PackageIds -> FileSets]]
  BY DEF KInv, FInv, TransferInv
<1>2. fs \in FileSets
  <2>1. folder[m][p] \in FileSets
    BY <1>1
  <2> QED  BY <2>1, FileWritten
<1>3. folder' = [folder EXCEPT ![m] = kept]
  BY <1>1 DEF Keep
<1> HIDE DEF fs
<1>4. kept \in [PackageIds -> FileSets] /\ kept[p] = fs
  BY <1>1, <1>2
<1> HIDE DEF kept
<1> QED  BY <1>3, <1>4 DEF fs

\* A poste that fetches a file runs a deployment of a package, and sends for nothing else.
LEMMA FetchingOK ==
  ASSUME KInv, NEW m \in Postes, NEW n \in Names, Fetching(m, n)
  PROVE  LET d == deploy[m]
             c == Manifest(m)[n]
         IN  /\ d.status = "running" /\ Open(m) /\ d.package \in PackageIds /\ transfer[m] = None
             /\ DeployOK(d, files) /\ d.handed.manifest \in Manifests
             /\ c # None /\ c \in Contents \cup {None}
             /\ ~d.stale => c = files[d.package][n]
<1> DEFINE d == deploy[m]
           c == Manifest(m)[n]
<1>1. d.status = "running" /\ transfer[m] = None /\ n \in Wanted(m) /\ Open(m)
  BY DEF Fetching, Open
<1>2. DeployOK(d, files) /\ d.package \in PackageIds /\ d.handed.manifest \in Manifests \cup {None}
  BY <1>1, PackagesAssumption DEF KInv, FInv, DeployInv, DeployOK, Working
<1>3. c # None
  BY <1>1 DEF Wanted, Listed
<1>4. d.handed.manifest # None
  BY <1>3 DEF Manifest, NoFile
<1>5. c = d.handed.manifest.files[n] /\ d.handed.manifest \in Manifests
  BY <1>2, <1>4 DEF Manifest
<1>6. c \in Contents \cup {None}
  BY <1>5 DEF Manifests, FileSets
<1>7. ~d.stale => d.handed.manifest.files = files[d.package]
  BY <1>1, <1>2, <1>4 DEF DeployOK, Working
<1> QED  BY <1>1, <1>2, <1>3, <1>5, <1>6, <1>7

LEMMA ResumeOK ==
  ASSUME KInv, NEW m \in Postes, NEW n \in Names, ResumeOther(m, n)
  PROVE  FInv'
<1>1. /\ Open(m) /\ deploy[m].package \in PackageIds /\ transfer[m] = None
  BY FetchingOK DEF ResumeOther
<1>2. Keep(m, n, None) /\ Ends(m, "failed", "hash") /\ UNCHANGED <<files, transfer, inFlight, leaked>>
  BY DEF ResumeOther, console
<1>3. PICK d : deploy' = [deploy EXCEPT ![m] = d] /\ DeployOK(d, files)
  BY <1>1, <1>2, EndedDeploy
<1>4. PICK kept \in [PackageIds -> FileSets] : folder' = [folder EXCEPT ![m] = kept]
  BY <1>1, <1>2, KeepOK
<1> QED  BY <1>1, <1>2, <1>3, <1>4, Redeployed

LEMMA GiveUpOK ==
  ASSUME KInv, NEW m \in Postes, GiveUp(m)
  PROVE  FInv'
<1>1. Open(m) /\ transfer[m] = None
  BY FetchingOK DEF GiveUp
<1>2. Ends(m, "failed", "busy") /\ UNCHANGED <<files, folder, transfer, inFlight, leaked>>
  BY DEF GiveUp, console
<1>3. PICK d : deploy' = [deploy EXCEPT ![m] = d] /\ DeployOK(d, files)
  BY <1>1, <1>2, EndedDeploy
<1> QED  BY <1>1, <1>2, <1>3, RedeployedOnly

\* A download of what is served starts; one that is refused was of a file changed or lost.
LEMMA DownloadOK ==
  ASSUME KInv, NEW m \in Postes, NEW n \in Names, DownloadPackageFile(m, n)
  PROVE  FInv'
<1> DEFINE d == deploy[m]
           c == Manifest(m)[n]
<1>1. Fetching(m, n) /\ UNCHANGED <<files, folder, leaked>>
  BY DEF DownloadPackageFile, console
<1>2. /\ d.status = "running" /\ d.package \in PackageIds /\ transfer[m] = None
      /\ DeployOK(d, files) /\ c # None /\ c \in Contents \cup {None}
      /\ ~d.stale => c = files[d.package][n]
  BY <1>1, FetchingOK
<1>3. ~d.stale => Served(m, c) /\ c \in Kept
  <2> HAVE ~d.stale
  <2>1. c = files[d.package][n]
    BY <1>2
  <2>2. Served(m, c)
    BY <2>1 DEF Served
  <2>3. c \in Kept
    BY <1>2, <2>1 DEF KInv, CInv, CatalogueInv
  <2> QED  BY <2>2, <2>3
<1>4. CASE Served(m, c) /\ c \in store
  <2> DEFINE t == [name |-> n, content |-> c, opened |-> FALSE]
  <2>1. /\ inFlight < MaxDownloads /\ inFlight' = inFlight + 1
        /\ transfer' = [transfer EXCEPT ![m] = t] /\ UNCHANGED <<deploy, folder, files, leaked>>
    BY <1>1, <1>4 DEF DownloadPackageFile
  <2>2. t \in Transfers /\ t.name = n
    BY <1>2 DEF Transfers
  <2>3. t # None
    BY <2>2, PackagesAssumption
  <2> HIDE DEF t
  <2>4. DOMAIN transfer = Postes /\ n \in Wanted(m)
    BY <1>1 DEF KInv, FInv, TransferInv, Fetching
  <2>5. DeployInv'
    BY <2>1 DEF KInv, FInv, DeployInv, DeployOK, Working
  <2>6. \A x \in Postes : Wanted(x)' = Wanted(x)
    BY <2>1 DEF Wanted, Manifest, Has, Listed
  <2>7. TransferInv'
    BY <1>2, <2>1, <2>2, <2>4, <2>6 DEF KInv, FInv, TransferInv
  <2>8. DownloadsBounded'
    <3>1. Busy' = Busy \cup {m} /\ m \notin Busy
      BY <1>2, <2>1, <2>3, <2>4 DEF Busy
    <3>2. Cardinality(Busy') = Cardinality(Busy) + 1
      BY <3>1, BusyFinite, FS_AddElement
    <3>3. inFlight = leaked + Cardinality(Busy) /\ leaked \in Nat
      BY DEF KInv, FInv, DownloadsBounded, TransferInv, Busy
    <3>4. Cardinality(Busy) \in Nat /\ inFlight \in Nat /\ MaxDownloads \in Nat
      BY <3>3, BusyFinite, PackagesAssumption
    <3>5. inFlight' = leaked' + Cardinality(Busy') /\ inFlight' <= MaxDownloads
      BY <2>1, <3>2, <3>3, <3>4
    <3> QED  BY <3>5 DEF DownloadsBounded, Busy
  <2> QED  BY <2>5, <2>7, <2>8 DEF FInv
<1>5. CASE ~(Served(m, c) /\ c \in store)
  <2> DEFINE stale == d.stale \/ c \in lost
             e == [d EXCEPT !.status = "failed", !.why = "missing", !.handed = None, !.stale = stale]
  <2>1. Missing(m, c) /\ UNCHANGED <<transfer, inFlight>>
    BY <1>5 DEF DownloadPackageFile
  <2>2. DOMAIN NoDeploy \subseteq DOMAIN d /\ DOMAIN deploy = Postes
    BY DEF KInv, IInv, HandedInv
  <2>3. deploy' = [deploy EXCEPT ![m] = e]
    BY <2>1 DEF Missing
  <2>4. stale = TRUE
    BY <1>2, <1>3, <1>5 DEF Kept, DeployOK
  <2> HIDE DEF stale, d
  <2>5. e.status = "failed" /\ e.why = "missing" /\ e.package = d.package /\ e.stale = stale
    BY <2>2 DEF NoDeploy
  <2> HIDE DEF e
  <2>6. DeployOK(e, files)
    BY <1>2, <2>4, <2>5 DEF DeployOK, Working
  <2> QED  BY <1>1, <1>2, <2>1, <2>3, <2>6, RedeployedOnly
<1> QED  BY <1>4, <1>5

\* A transfer is opened, over or cut: the counter follows.
LEMMA TransferOver ==
  ASSUME KInv, NEW m \in Postes, transfer[m] # None, transfer' = [transfer EXCEPT ![m] = None],
         leaked' \in Nat, inFlight' - leaked' = (inFlight - leaked) - 1, inFlight' \in Nat,
         inFlight' <= inFlight
  PROVE  DownloadsBounded'
<1>1. Busy' = Busy \ {m} /\ m \in Busy
  BY DEF KInv, FInv, TransferInv, Busy
<1>2. Cardinality(Busy') = Cardinality(Busy) - 1 /\ Cardinality(Busy) \in Nat
  BY <1>1, BusyFinite, FS_RemoveElement
<1>3. inFlight = leaked + Cardinality(Busy) /\ leaked \in Nat /\ inFlight <= MaxDownloads
  BY DEF KInv, FInv, DownloadsBounded, TransferInv, Busy
<1>4. inFlight' = leaked' + Cardinality(Busy') /\ inFlight' <= MaxDownloads
  BY <1>2, <1>3, PackagesAssumption
<1> QED  BY <1>4 DEF DownloadsBounded, Busy

LEMMA OpenOK ==
  ASSUME KInv, NEW m \in Postes, OpenFile(m)
  PROVE  FInv'
<1>1. transfer[m] # None /\ UNCHANGED <<deploy, files, folder, inFlight>>
  BY DEF OpenFile, console
<1>2. transfer[m] \in Transfers /\ DOMAIN transfer = Postes /\ leaked \in Nat
  BY <1>1 DEF KInv, FInv, TransferInv
<1>3. inFlight = leaked + Cardinality(Busy) /\ inFlight \in Nat
  BY <1>2, BusyFinite DEF KInv, FInv, DownloadsBounded, Busy
<1>4. \A x \in Postes : Wanted(x)' = Wanted(x)
  BY <1>1 DEF Wanted, Manifest, Has, Listed
<1>5. DeployInv'
  BY <1>1 DEF KInv, FInv, DeployInv, DeployOK, Working
<1>6. CASE transfer[m].content \in store
  <2> DEFINE t == [transfer[m] EXCEPT !.opened = TRUE]
  <2>1. transfer' = [transfer EXCEPT ![m] = t] /\ UNCHANGED leaked
    BY <1>2, <1>6 DEF OpenFile
  <2>2. t \in Transfers /\ t.name = transfer[m].name
    BY <1>2 DEF Transfers
  <2>3. t # None
    BY <2>2, PackagesAssumption
  <2> HIDE DEF t
  <2>4. TransferInv'
    BY <1>1, <1>2, <1>4, <2>1, <2>2 DEF KInv, FInv, TransferInv
  <2>5. Busy' = Busy
    BY <1>1, <1>2, <2>1, <2>3 DEF Busy
  <2>6. DownloadsBounded'
    BY <1>1, <2>1, <2>5 DEF KInv, FInv, DownloadsBounded, Busy
  <2> QED  BY <1>5, <2>4, <2>6 DEF FInv
<1>7. CASE transfer[m].content \notin store
  <2>1. transfer' = [transfer EXCEPT ![m] = None] /\ leaked' = leaked + 1
    BY <1>7 DEF OpenFile
  <2>2. TransferInv'
    BY <1>1, <1>2, <1>4, <2>1 DEF KInv, FInv, TransferInv
  <2>3. DownloadsBounded'
    <3>1. /\ leaked' \in Nat /\ inFlight' - leaked' = (inFlight - leaked) - 1
          /\ inFlight' \in Nat /\ inFlight' <= inFlight
      BY <1>1, <1>2, <1>3, <2>1
    <3> QED  BY <1>1, <2>1, <3>1, TransferOver
  <2> QED  BY <1>5, <2>2, <2>3 DEF FInv
<1> QED  BY <1>6, <1>7

LEMMA TransferredOK ==
  ASSUME KInv, NEW m \in Postes, NEW done \in BOOLEAN, Transferred(m, done)
  PROVE  FInv'
<1> DEFINE t == transfer[m]
           p == deploy[m].package
<1>1. /\ t # None /\ transfer' = [transfer EXCEPT ![m] = None] /\ inFlight' = ReleaseDownload(inFlight)
      /\ IF done THEN Keep(m, t.name, t.content) ELSE UNCHANGED folder
      /\ UNCHANGED <<deploy, files, leaked>>
  BY DEF Transferred, console
<1>2. t \in Transfers /\ deploy[m].status = "running" /\ DOMAIN transfer = Postes /\ leaked \in Nat
  BY <1>1 DEF KInv, FInv, TransferInv
<1>3. p \in PackageIds
  BY <1>2, PackagesAssumption DEF KInv, FInv, DeployInv, DeployOK
<1>4. t.name \in Names /\ t.content \in Contents \cup {None}
  BY <1>2 DEF Transfers
<1>5. PICK kept \in [PackageIds -> FileSets] : folder' = [folder EXCEPT ![m] = kept]
  <2>1. CASE done
    BY <1>1, <1>3, <1>4, <2>1, KeepOK
  <2>2. CASE ~done
    <3> DEFINE kept == folder[m]
    <3>1. folder' = [folder EXCEPT ![m] = kept] /\ kept \in [PackageIds -> FileSets]
      BY <1>1, <2>2 DEF KInv, FInv, TransferInv
    <3> HIDE DEF kept
    <3> QED  BY <3>1
  <2> QED  BY <2>1, <2>2
<1>6. /\ folder' \in [Postes -> [PackageIds -> FileSets]]
      /\ \A x \in Postes \ {m} : folder'[x] = folder[x]
  BY <1>5 DEF KInv, FInv, TransferInv
<1>7. \A x \in Postes \ {m} : Wanted(x)' = Wanted(x)
  BY <1>1, <1>6 DEF Wanted, Manifest, Has, Listed
<1>8. TransferInv'
  BY <1>1, <1>2, <1>6, <1>7 DEF KInv, FInv, TransferInv
<1>9. DeployInv'
  BY <1>1 DEF KInv, FInv, DeployInv, DeployOK, Working
<1>10. DownloadsBounded'
  <2>1. m \in Busy /\ Cardinality(Busy) # 0 /\ Cardinality(Busy) \in Nat
    BY <1>1, BusyFinite, FS_EmptySet DEF Busy
  <2>2. inFlight = leaked + Cardinality(Busy) /\ inFlight \in Nat /\ inFlight > 0
    BY <1>2, <2>1 DEF KInv, FInv, DownloadsBounded, Busy
  <2>3. inFlight' = inFlight - 1
    BY <1>1, <2>2 DEF ReleaseDownload
  <2>4. inFlight' - leaked' = (inFlight - leaked) - 1 /\ inFlight' \in Nat /\ inFlight' <= inFlight
    BY <1>1, <1>2, <2>2, <2>3
  <2> QED  BY <1>1, <1>2, <2>4, TransferOver
<1> QED  BY <1>8, <1>9, <1>10 DEF FInv

LEMMA RunOK ==
  ASSUME KInv, NEW m \in Postes, NEW ok \in BOOLEAN, Run(m, ok)
  PROVE  FInv'
<1>1. deploy[m].status = "running" /\ Wanted(m) = {} /\ UNCHANGED <<files, transfer, inFlight, leaked>>
  BY DEF Run, console
<1>2. transfer[m] = None /\ Open(m)
  BY <1>1 DEF KInv, FInv, TransferInv, Open
<1>3. deploy[m].package \in PackageIds /\ folder \in [Postes -> [PackageIds -> FileSets]]
  BY <1>1, PackagesAssumption DEF KInv, FInv, DeployInv, DeployOK, TransferInv
<1>4. PICK d : deploy' = [deploy EXCEPT ![m] = d] /\ DeployOK(d, files)
  BY <1>2, EndedDeploy, PackagesAssumption DEF Run
<1>5. PICK kept \in [PackageIds -> FileSets] : folder' = [folder EXCEPT ![m] = kept]
  <2> DEFINE kept == IF ok THEN [folder[m] EXCEPT ![deploy[m].package] = NoFile] ELSE folder[m]
  <2>1. NoFile \in FileSets
    BY DEF NoFile, FileSets
  <2>2. kept \in [PackageIds -> FileSets]
    BY <1>3, <2>1
  <2>3. folder' = [folder EXCEPT ![m] = kept]
    BY <1>3 DEF Run
  <2> HIDE DEF kept
  <2> QED  BY <2>2, <2>3
<1> QED  BY <1>1, <1>2, <1>4, <1>5, Redeployed

LEMMA FleetOK ==
  ASSUME KInv, Fleet
  PROVE  CInv' /\ FInv'
<1>1. UNCHANGED console
  BY DEF Fleet, PackageDeliveries, ExecuteFiles, GiveUp, OpenFile, DownloadPackageFile, ResumeOther,
         Transferred, Run
<1>2. CInv'
  BY <1>1, CatalogueStands DEF console, Kept, KInv
<1>3. FInv'
  BY DeliveryOK, ExecuteOK, GiveUpOK, OpenOK, DownloadOK, ResumeOK, TransferredOK, RunOK DEF Fleet
<1> QED  BY <1>2, <1>3

LEMMA ConsoleFleetOK ==
  ASSUME KInv, Console
  PROVE  FInv'
<1>1. ASSUME NEW s \in Slots, UploadCommit(s) \/ DeleteCommit(s)
      PROVE  FInv'
  <2>1. request[s].kind \in Editing
    BY <1>1 DEF UploadCommit, DeleteCommit, Is, Editing
  <2>2. request[s].on \in PackageIds
    BY <2>1, Carried
  <2>3. UNCHANGED <<folder, transfer, inFlight, leaked>> /\ \E fs : Rewritten(request[s].on, fs)
    BY <1>1 DEF UploadCommit, DeleteCommit
  <2> QED  BY <2>2, <2>3, RewrittenOK
<1>2. ASSUME NEW p \in PackageIds, NEW ms, NEW action, CreateCommands(ms, p, action)
      PROVE  FInv'
  BY <1>2, DeployedOK
<1>3. ASSUME UNCHANGED <<files, fleet>>
      PROVE  FInv'
  BY <1>3, FleetStands DEF fleet, KInv
<1>4. ASSUME NEW s \in Slots, NEW p \in PackageIds, NEW n, NEW c, NEW run, NEW off, NEW kind,
             \/ CreatePackage(p, kind, run, off) \/ UpdatePackage(s, p, run, off)
             \/ DeleteFile(s, p, n) \/ UploadFiles(s, p, n, c) \/ AttachSignature(s, p)
             \/ DownloadManifest(p) \/ RemoveSignature(p) \/ RetirePackage(p) \/ RestorePackage(p)
             \/ UpdateCommit(s) \/ AttachCommit(s) \/ RemoveUnreferenced(s) \/ Abort(s)
      PROVE  UNCHANGED <<files, fleet>>
  BY <1>4 DEF CreatePackage, UpdatePackage, DeleteFile, UploadFiles, AttachSignature,
       DownloadManifest, RemoveSignature, RetirePackage, RestorePackage, UpdateCommit, AttachCommit,
       RemoveUnreferenced, Abort
<1>5. ASSUME NEW p \in PackageIds, NEW run, NEW off, NEW kind,
             \/ CreatePackage(p, kind, run, off)
             \/ DownloadManifest(p) \/ RemoveSignature(p) \/ RetirePackage(p) \/ RestorePackage(p)
      PROVE  UNCHANGED <<files, fleet>>
  BY <1>5 DEF CreatePackage, DownloadManifest, RemoveSignature, RetirePackage, RestorePackage
<1>6. ASSUME NEW s \in Slots,
             UpdateCommit(s) \/ AttachCommit(s) \/ RemoveUnreferenced(s) \/ Abort(s)
      PROVE  UNCHANGED <<files, fleet>>
  BY <1>6 DEF UpdateCommit, AttachCommit, RemoveUnreferenced, Abort
<1> QED  BY <1>1, <1>2, <1>3, <1>4, <1>5, <1>6 DEF Console

LEMMA RestartOK ==
  ASSUME KInv, Restart
  PROVE  CInv' /\ FInv'
<1>1. /\ inFlight' = 0 /\ leaked' = 0 /\ transfer' = [m \in Postes |-> None]
      /\ request' = [s \in Slots |-> Idle]
      /\ UNCHANGED <<package, files, store, muddled, lost, deploy, folder>>
  BY DEF Restart
<1>2. RequestInv' /\ AloneInv'
  BY <1>1, IdleOK DEF RequestInv, AloneInv, Idle, Kept
<1>3. CatalogueInv' /\ SignedAsIs'
  BY <1>1 DEF KInv, CInv, CatalogueInv, SignedAsIs, Kept
<1>4. DeployInv'
  BY <1>1 DEF KInv, FInv, DeployInv, DeployOK, Working
<1>5. TransferInv'
  BY <1>1 DEF KInv, FInv, TransferInv
<1>6. DownloadsBounded'
  <2>1. {m \in Postes : transfer'[m] # None} = {}
    BY <1>1
  <2> QED  BY <1>1, <2>1, FS_EmptySet, PackagesAssumption DEF DownloadsBounded
<1> QED  BY <1>2, <1>3, <1>4, <1>5, <1>6 DEF CInv, FInv

-----------------------------------------------------------------------------
\* A package of earlier requests says of its files what they are.
LEMMA ReadyOK ==
  ASSUME NEW run \in Names, NEW fs \in FileSets, NEW signed \in BOOLEAN
  PROVE  LET k == Ready(run, fs, signed)
         IN  k \in Row /\ k.kind = "files" /\ k.manifest # None /\ Signed(run, k, fs)
<1> DEFINE m == Build(run, None, fs)
           signature == IF signed THEN m ELSE None
           k == [Absent EXCEPT !.kind = "files", !.run = run, !.manifest = m, !.signature = signature]
<1>1. m \in Manifests /\ run \in Runs /\ None \in Runs
  BY DEF Build, Manifests, Runs
<1>2. m # None /\ signature \in {m, None}
  BY <1>1, PackagesAssumption
<1>3. Ready(run, fs, signed) = k
  BY DEF Ready
<1>4. m = Build(run, None, fs)
  OBVIOUS
<1> HIDE DEF m, signature
<1>5. /\ k \in Row /\ k.kind = "files" /\ k.run = run /\ k.off = None
      /\ k.manifest = m /\ k.signature = signature
  BY <1>1, <1>2 DEF Absent, Row
<1> HIDE DEF k
<1> QED  BY <1>2, <1>3, <1>4, <1>5 DEF Signed

LEMMA InitKInv == Init => KInv
<1> SUFFICES ASSUME Init PROVE KInv
  OBVIOUS
<1>1. files \in [PackageIds -> FileSets] /\ NoFile \in FileSets
  <2>1. NoFile \in FileSets /\ \A n \in Names, c \in Contents : [NoFile EXCEPT ![n] = c] \in FileSets
    BY DEF NoFile, FileSets
  <2>2. files \in [PackageIds -> {NoFile} \cup {[NoFile EXCEPT ![n] = c] : n \in Names, c \in Contents}]
    BY DEF Init
  <2> QED  BY <2>1, <2>2
<1>2. PICK signed \in BOOLEAN : package = [p \in PackageIds |->
         IF files[p] = NoFile THEN Absent
         ELSE Ready(CHOOSE n \in Names : files[p][n] # None, files[p], signed)]
  BY DEF Init
<1>3. ASSUME NEW p \in PackageIds
      PROVE  \/ package[p] = Absent /\ files[p] = NoFile
             \/ /\ package[p] \in Row /\ package[p].kind = "files" /\ package[p].manifest # None
                /\ Signed(p, package[p], files[p])
  <2>1. CASE files[p] = NoFile
    BY <1>2, <2>1
  <2>2. CASE files[p] # NoFile
    <3> DEFINE n == CHOOSE n \in Names : files[p][n] # None
    <3>1. \E x \in Names : files[p][x] # None
      BY <1>1, <2>2 DEF FileSets, NoFile
    <3>2. n \in Names
      BY <3>1
    <3>3. package[p] = Ready(n, files[p], signed)
      BY <1>2, <2>2
    <3> HIDE DEF n
    <3>4. files[p] \in FileSets
      BY <1>1
    <3> QED  BY <3>2, <3>3, <3>4, ReadyOK DEF Signed
  <2> QED  BY <2>1, <2>2
<1>4. Absent \in Row /\ Absent.kind = None
  BY DEF Absent, Row, Runs
<1>5. CatalogueInv
  <2>1. package \in [PackageIds -> Row]
    BY <1>2, <1>3, <1>4
  <2>2. \A p \in PackageIds, n \in Names : files[p][n] # None => files[p][n] \in Kept
    <3>1. \A p \in PackageIds, n \in Names : files[p][n] \in Contents \cup {None}
      BY <1>1 DEF FileSets
    <3> QED  BY <3>1 DEF Init, Kept, InUse
  <2> QED  BY <1>1, <1>3, <1>4, <2>1, <2>2, PackagesAssumption DEF CatalogueInv
<1>6. SignedAsIs
  BY <1>3, <1>4, PackagesAssumption DEF SignedAsIs, Signed
<1>7. RequestInv /\ AloneInv
  BY IdleOK DEF Init, RequestInv, AloneInv, Idle
<1>8. DeployInv
  BY PackagesAssumption DEF Init, DeployInv, DeployOK, NoDeploy, Working
<1>9. folder \in [Postes -> [PackageIds -> FileSets]]
  <2> DEFINE empty == [m \in Postes |-> [p \in PackageIds |-> NoFile]]
  <2>1. empty \in [Postes -> [PackageIds -> FileSets]]
    BY <1>1
  <2>2. ASSUME NEW m \in Postes, NEW p \in PackageIds, NEW n \in Names, NEW c \in Contents
        PROVE  [empty EXCEPT ![m][p][n] = c] \in [Postes -> [PackageIds -> FileSets]]
    <3>1. [NoFile EXCEPT ![n] = c] \in FileSets
      BY DEF NoFile, FileSets
    <3>2. [empty[m] EXCEPT ![p] = [NoFile EXCEPT ![n] = c]] \in [PackageIds -> FileSets]
      BY <2>1, <3>1
    <3>3. [empty EXCEPT ![m][p][n] = c] = [empty EXCEPT ![m] = [empty[m] EXCEPT ![p] = [NoFile EXCEPT ![n] = c]]]
      OBVIOUS
    <3> HIDE DEF empty
    <3> QED  BY <2>1, <3>2, <3>3
  <2>3. \/ folder = empty
        \/ \E m \in Postes, p \in PackageIds, n \in Names, c \in Contents :
             folder = [empty EXCEPT ![m][p][n] = c]
    BY DEF Init
  <2> HIDE DEF empty
  <2> QED  BY <2>1, <2>2, <2>3
<1>10. TransferInv
  BY <1>9 DEF Init, TransferInv
<1>11. DownloadsBounded
  <2>1. {m \in Postes : transfer[m] # None} = {}
    BY DEF Init
  <2>2. inFlight = 0 /\ leaked = 0
    BY DEF Init
  <2>3. Cardinality({m \in Postes : transfer[m] # None}) = 0
    BY <2>1, FS_EmptySet
  <2>4. MaxDownloads \in Nat
    BY PackagesAssumption
  <2> QED  BY <2>2, <2>3, <2>4 DEF DownloadsBounded
<1> QED
  BY <1>5, <1>6, <1>7, <1>8, <1>10, <1>11, InitIInv DEF KInv, CInv, FInv

LEMMA NextKInv == KInv /\ [Next]_vars => KInv'
<1> SUFFICES ASSUME KInv, [Next]_vars PROVE KInv'
  OBVIOUS
<1>1. IInv'
  BY NextIInv DEF KInv
<1>2. CInv' /\ FInv'
  <2>1. ASSUME UNCHANGED vars PROVE CInv' /\ FInv'
    BY <2>1, CatalogueStands, FleetStands DEF vars, console, fleet, Kept, KInv
  <2> QED  BY <2>1, ConsoleOK, ConsoleFleetOK, FleetOK, RestartOK DEF Next
<1> QED  BY <1>1, <1>2 DEF KInv

(* However the uploads, deletions, edits and signatures of administrators  *)
(* overlap, a package that no two left together says signed only what is:  *)
(* its manifest and the signature are over it as it stands                 *)
(* (package/crud.py:43).                                                   *)
THEOREM SignsWhatIs == Spec => []SignedAsIs
<1>1. KInv => SignedAsIs
  BY DEF KInv, CInv
<1> QED  BY <1>1, InitKInv, NextKInv, PTL DEF Spec

(* A poste handed a deployment is refused a file only when its package     *)
(* changed since, or the content was removed under its upload              *)
(* (packages.py:560).                                                      *)
THEOREM FindsItsFiles == Spec => []StillThere
<1>1. KInv => StillThere
  BY DEF KInv, FInv, DeployInv, DeployOK, StillThere
<1> QED  BY <1>1, InitKInv, NextKInv, PTL DEF Spec

LEMMA LoadKept == TypeOK /\ [Next]_vars => load' \in 0 .. MaxLoad
<1> SUFFICES ASSUME load \in 0 .. MaxLoad, [Next]_vars PROVE load' \in 0 .. MaxLoad
  BY DEF TypeOK
<1>1. ASSUME NEW class \in {"create", "change", "sign", "retire", "deploy", "restart"}, Spend(class)
      PROVE  load' \in 0 .. MaxLoad
  BY <1>1, PackagesAssumption DEF Spend
<1>2. CASE Console
  <2>1. \/ UNCHANGED load
        \/ \E class \in {"create", "change", "sign", "retire", "deploy", "restart"} : Spend(class)
    BY <1>2 DEF Console, CreatePackage, UpdatePackage, DeleteFile, UploadFiles, AttachSignature,
       DownloadManifest, RemoveSignature, RetirePackage, RestorePackage, CreateCommands,
       UpdateCommit, UploadCommit, DeleteCommit, AttachCommit, RemoveUnreferenced, Abort
  <2> QED  BY <1>1, <2>1
<1>3. CASE Fleet
  BY <1>3 DEF Fleet, PackageDeliveries, ExecuteFiles, GiveUp, OpenFile, DownloadPackageFile,
       ResumeOther, Transferred, Run
<1>4. CASE Restart
  BY <1>1, <1>4 DEF Restart
<1>5. CASE UNCHANGED vars
  BY <1>5 DEF vars
<1> QED  BY <1>2, <1>3, <1>4, <1>5 DEF Next

(* A content stays on the volume while a row names it, unless it was       *)
(* removed under the upload of it (storage.py:76); downloads stay within   *)
(* their bound, a slot lost only to a file gone before it was opened       *)
(* (agent.py:951); what the catalogue and the postes keep has its type.    *)
THEOREM KeepsFiles == Spec => []FilesKept
<1>1. KInv /\ load \in 0 .. MaxLoad => FilesKept
  <2> SUFFICES ASSUME KInv, load \in 0 .. MaxLoad PROVE FilesKept
    OBVIOUS
  <2>1. ASSUME NEW p \in PackageIds
        PROVE  /\ package[p] = Absent => files[p] = NoFile
               /\ package[p].signature # None => package[p].signature \in documents
    BY DEF KInv, CInv, CatalogueInv, IInv, SignatureInv, Absent
  <2> QED
    BY <2>1 DEF KInv, CInv, CatalogueInv, FInv, TransferInv, TypeOK, FilesKept, Kept
<1>2. Init => load \in 0 .. MaxLoad
  BY PackagesAssumption DEF Init
<1>3. (load \in 0 .. MaxLoad) /\ KInv /\ [Next]_vars => (load \in 0 .. MaxLoad)'
  BY <1>1, LoadKept DEF FilesKept
<1> QED  BY <1>1, <1>2, <1>3, InitKInv, NextKInv, PTL DEF Spec
=============================================================================
