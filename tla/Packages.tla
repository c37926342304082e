------------------------------- MODULE Packages -------------------------------
(***************************************************************************)
(* Software deployment: the packages the console keeps, their files under  *)
(* the name of their content, the manifest an administrator signs, and the *)
(* deployments that postes download and run (routes/packages.py,           *)
(* features/package, commands.py, agent.py, agent/internal/deploy).        *)
(*                                                                         *)
(* A request that changes a package reads it, then writes what it changed: *)
(* others commit in between.  A manifest is what it says, a signature the  *)
(* manifest it is over; the arguments and the display fields are left out. *)
(***************************************************************************)
EXTENDS Integers, FiniteSets, SequencesExt

CONSTANTS
  PackageIds, Names, Contents, None,
  Programs,      \* what a package may run: a name, msiexec or None
  Postes,        \* one deployment each at a time: the queue is CommandQueue's
  Publishers,    \* postes that trust the publisher of the file they run
  Slots,         \* requests of administrators handled at once
  MaxDownloads,  \* PACKAGE_MAX_CONCURRENT_DOWNLOADS
  MaxLoad, Load  \* bound: the operations by what each weighs

Runs      == Programs \cup Names \cup {None}
FileSets  == [Names -> Contents \cup {None}]
Manifests == [run : Runs, off : Runs, files : FileSets]
Transfers == [name : Names, content : Contents \cup {None}, opened : BOOLEAN]

ASSUME PackagesAssumption ==
  /\ None \notin {"pending", "delivered", "running", "missing", "files", "winget"}
  /\ None \notin PackageIds \cup Manifests \cup Transfers /\ IsFiniteSet(Postes)
  /\ Programs \subseteq Names \cup {"msiexec", None} /\ Publishers \subseteq Postes
  /\ MaxDownloads \in Nat \ {0} /\ MaxLoad \in Nat
  /\ Load \in [{"create", "change", "sign", "retire", "deploy", "restart"} -> Nat]

VARIABLES
  package,   \* the rows of packages
  files,     \* the rows of package_files: the content of each name
  store,     \* the contents on the packages volume
  request,   \* the requests being handled
  deploy,    \* of each poste: its deployment and what it was handed
  folder,    \* of each poste and package: the files it has downloaded
  transfer,  \* the downloads under way
  inFlight,  \* _downloads_in_flight
  documents, \* the manifests administrators signed
  muddled,   \* history: packages that overlapping requests left
  lost,      \* history: contents removed under an upload of them
  leaked,    \* history: downloads whose file went before it was opened
  ran,       \* history: what postes that trust signers ran
  load

console == <<package, files, store, request, documents, muddled, lost>>
fleet   == <<deploy, folder, transfer, inFlight, leaked, ran>>
vars    == <<console, fleet, load>>

MsiExec == "msiexec"
Absent  == [kind |-> None, run |-> None, off |-> None, manifest |-> None, signature |-> None,
            retired |-> FALSE]
Idle    == [kind |-> "idle", on |-> None, alone |-> TRUE]
NoFile  == [n \in Names |-> None]
NoDeploy == [status |-> None, package |-> None, action |-> None, handed |-> None,
             why |-> None, stale |-> FALSE]

Listed(fs) == {n \in Names : fs[n] # None}
InUse(c)   == \E p \in PackageIds : \E n \in Names : files[p][n] = c

\* What the postes will receive of a package of files.
Build(run, off, fs) == [run |-> run, off |-> off, files |-> fs]

\* What stands between a package of files and a deployment.
Complete(k, fs) ==
  /\ Listed(fs) # {} /\ k.run # None
  /\ {k.run, k.off} \subseteq Listed(fs) \cup {MsiExec, None}

\* A package of winget runs no file.
Coherent(kind, run, off) == kind = "winget" => run = None /\ off = None

Ready(run, fs, signed) ==
  LET m == Build(run, None, fs)
  IN  [Absent EXCEPT !.kind = "files", !.run = run, !.manifest = m,
                     !.signature = IF signed THEN m ELSE None]

\* The catalogue as earlier requests left it, and what one poste may have kept of an
\* earlier version of the one package (bound), whose installation failed.
Init ==
  /\ files \in [PackageIds -> {NoFile} \cup {[NoFile EXCEPT ![n] = c] : n \in Names, c \in Contents}]
  /\ \E signed \in BOOLEAN :
       package = [p \in PackageIds |->
         IF files[p] = NoFile THEN Absent
         ELSE Ready(CHOOSE n \in Names : files[p][n] # None, files[p], signed)]
  /\ store = {c \in Contents : InUse(c)}
  /\ documents = {package[p].manifest : p \in PackageIds} \ {None}
  /\ request = [s \in Slots |-> Idle]
  /\ deploy = [m \in Postes |-> NoDeploy]
  /\ LET empty == [m \in Postes |-> [p \in PackageIds |-> NoFile]]
     IN  \/ folder = empty
         \/ \E m \in Postes, p \in PackageIds, n \in Names, c \in Contents :
              /\ package[p].signature # None /\ files[p][n] \notin {None, c}
              /\ \A q \in PackageIds \ {p} : files[q] = NoFile
              /\ folder = [empty EXCEPT ![m][p][n] = c]
  /\ transfer = [m \in Postes |-> None]
  /\ inFlight = 0 /\ muddled = {} /\ lost = {} /\ leaked = 0 /\ ran = {} /\ load = 0

Spend(class) == load' = load + Load[class] /\ load' <= MaxLoad

\* Another request on the package is no longer alone on it.
Touch(p) == [s \in Slots |-> [request[s] EXCEPT !.alone = @ /\ request[s].on # p]]

Begin(s, p, kind, body) ==
  /\ request[s] = Idle /\ package[p] # Absent
  /\ request' = [Touch(p) EXCEPT ![s] =
       [kind |-> kind, body |-> body, on |-> p, alone |-> \A x \in Slots : request[x].on # p,
        was |-> package[p], had |-> files[p]]]

Is(s, kind) == request[s].kind = kind

\* What the ORM writes of a column: nothing, when it is what was read.
Write(new, read, now) == IF new = read THEN now ELSE new

-----------------------------------------------------------------------------
(* The catalogue. *)

CreatePackage(p, kind, run, off) ==
  /\ package[p] = Absent /\ Coherent(kind, run, off) /\ Spend("create")
  /\ package' = [package EXCEPT ![p] =
       [Absent EXCEPT !.kind = kind, !.run = run, !.off = off,
                      !.manifest = IF kind = "files" THEN Build(run, off, NoFile) ELSE None]]
  /\ UNCHANGED <<files, store, request, documents, muddled, lost, fleet>>

\* Faulty variant: the signature is kept when the file that runs is the same.
VoidedByRun(built, was) == built.run # was.manifest.run

\* Whether the bytes to sign moved, which voids the signature over them.
Voided(built, was) == built # was.manifest

\* The package with its manifest rebuilt from columns k and the files fs,
\* by a request that read it as was.
Refreshed(p, k, fs, was) ==
  LET built == Build(k.run, k.off, fs)
      now   == [package[p] EXCEPT !.run = Write(k.run, was.run, @),
                                  !.off = Write(k.off, was.off, @)]
  IN  IF k.kind # "files" THEN now
      ELSE [now EXCEPT !.manifest  = Write(built, was.manifest, @),
                       !.signature = IF Voided(built, was) THEN Write(None, was.signature, @) ELSE @]

\* The end of a request that changed its package.
Changed(s, new) ==
  LET p == request[s].on
  IN  /\ package' = [package EXCEPT ![p] = new]
      /\ muddled' = CASE ~request[s].alone                        -> muddled \cup {p}
                      [] request[s].alone /\ new.manifest # package[p].manifest -> muddled \ {p}
                      [] OTHER                                    -> muddled

\* Its files become fs: those handed to a poste are no longer the package's.
Rewritten(p, fs) ==
  /\ files' = [files EXCEPT ![p] = fs]
  /\ deploy' = [m \in Postes |->
       [deploy[m] EXCEPT !.stale = @ \/ (deploy[m].package = p /\ fs # files[p])]]

UpdatePackage(s, p, run, off) ==
  /\ package[p] # Absent /\ Coherent(package[p].kind, run, off) /\ Spend("change")
  /\ Begin(s, p, "update", [run |-> run, off |-> off])
  /\ UNCHANGED <<package, files, store, documents, muddled, lost, fleet>>

\* The row is locked by its own update before the files are read.
UpdateCommit(s) ==
  /\ Is(s, "update")
  /\ LET r == request[s]
         k == [r.was EXCEPT !.run = r.body.run, !.off = r.body.off]
     IN  Changed(s, Refreshed(r.on, k, files[r.on], r.was))
  /\ request' = [request EXCEPT ![s] = Idle]
  /\ UNCHANGED <<files, store, documents, lost, fleet, load>>

FilesKind(p) == package[p].kind = "files"

\* The upload is on the volume, under its content, before its row is written.
UploadFiles(s, p, n, c) ==
  /\ FilesKind(p) /\ Spend("change")
  /\ Begin(s, p, "upload", [name |-> n, content |-> c])
  /\ store' = store \cup {c} /\ lost' = lost \ {c}
  /\ UNCHANGED <<package, files, documents, muddled, fleet>>

\* A row of the name is replaced; the manifest is built from the files as
\* they were when the request read them, which another may have changed since.
UploadCommit(s) ==
  /\ Is(s, "upload")
  /\ LET r == request[s]
     IN  /\ Rewritten(r.on, [files[r.on] EXCEPT ![r.body.name] = r.body.content])
         /\ \E fs \in {files[r.on], r.had} :
              Changed(s, Refreshed(r.on, r.was, [fs EXCEPT ![r.body.name] = r.body.content], r.was))
  /\ request' = [request EXCEPT ![s] = Idle]
  /\ UNCHANGED <<store, documents, lost, folder, transfer, inFlight, leaked, ran, load>>

DeleteFile(s, p, n) ==
  /\ FilesKind(p) /\ files[p][n] # None /\ Spend("change")
  /\ Begin(s, p, "delete", n)
  /\ UNCHANGED <<package, files, store, documents, muddled, lost, fleet>>

DeleteCommit(s) ==
  /\ Is(s, "delete")
  /\ LET r == request[s]
     IN  /\ Rewritten(r.on, [files[r.on] EXCEPT ![r.body] = None])
         /\ \E fs \in {files[r.on], r.had} :
              Changed(s, Refreshed(r.on, r.was, [fs EXCEPT ![r.body] = None], r.was))
         /\ request' = [request EXCEPT ![s] =
              [kind |-> "sweep", on |-> None, alone |-> TRUE, content |-> r.had[r.body]]]
  /\ UNCHANGED <<store, documents, lost, folder, transfer, inFlight, leaked, ran, load>>

\* Faulty variant: the file goes with the row.
UnreferencedAlways(c) == TRUE

Unreferenced(c) == ~InUse(c)

\* After its commit, a deletion removes the content no row names any more.
RemoveUnreferenced(s) ==
  /\ Is(s, "sweep")
  /\ LET c == request[s].content
     IN  IF Unreferenced(c)
         THEN /\ store' = store \ {c}
              /\ lost' = IF \E x \in Slots : Is(x, "upload") /\ request[x].body.content = c
                         THEN lost \cup {c} ELSE lost
         ELSE UNCHANGED <<store, lost>>
  /\ request' = [request EXCEPT ![s] = Idle]
  /\ UNCHANGED <<package, files, documents, muddled, fleet, load>>

\* A request fails before its commit: an upload stays on the volume.
Abort(s) ==
  /\ request[s] # Idle
  /\ request' = [request EXCEPT ![s] = Idle]
  /\ UNCHANGED <<package, files, store, documents, muddled, lost, fleet, load>>

-----------------------------------------------------------------------------
(* Signatures, and what is no longer offered. *)

\* The manifest downloaded, and signed by Sign-TiaiPackage.ps1 elsewhere.
DownloadManifest(p) ==
  /\ FilesKind(p) /\ package[p].manifest \notin documents /\ Spend("sign")
  /\ documents' = documents \cup {package[p].manifest}
  /\ UNCHANGED <<package, files, store, request, muddled, lost, fleet>>

\* A document over these bytes was made: no other verifies.
Verify(manifest) == manifest \in documents

\* Refused unless it verifies over the manifest of a complete package.
AttachSignature(s, p) ==
  /\ FilesKind(p) /\ Complete(package[p], files[p])
  /\ Verify(package[p].manifest) /\ Spend("sign")
  /\ Begin(s, p, "sign", None)
  /\ UNCHANGED <<package, files, store, documents, muddled, lost, fleet>>

\* The document is over the manifest that was read.
AttachCommit(s) ==
  /\ Is(s, "sign")
  /\ LET r == request[s]
     IN  Changed(s, [package[r.on] EXCEPT
           !.signature = Write(r.was.manifest, r.was.signature, @)])
  /\ request' = [request EXCEPT ![s] = Idle]
  /\ UNCHANGED <<files, store, documents, lost, fleet, load>>

RemoveSignature(p) ==
  /\ package[p].signature # None /\ Spend("sign")
  /\ package' = [package EXCEPT ![p].signature = None]
  /\ request' = Touch(p)
  /\ UNCHANGED <<files, store, documents, muddled, lost, fleet>>

RetirePackage(p) ==
  /\ package[p] # Absent /\ ~package[p].retired /\ Spend("retire")
  /\ package' = [package EXCEPT ![p].retired = TRUE]
  /\ UNCHANGED <<files, store, request, documents, muddled, lost, fleet>>

RestorePackage(p) ==
  /\ package[p].retired /\ Spend("retire")
  /\ package' = [package EXCEPT ![p].retired = FALSE]
  /\ UNCHANGED <<files, store, request, documents, muddled, lost, fleet>>

-----------------------------------------------------------------------------
(* Deployments. *)

Open(m) == deploy[m].status \in {"pending", "delivered", "running"}

DeployablePackage(p, action) ==
  /\ package[p] # Absent
  /\ package[p].retired => action = "uninstall"
  /\ package[p].kind = "files" =>
       /\ Complete(package[p], files[p])
       /\ action = "uninstall" => package[p].off # None

\* Postes that have one open are skipped.
CreateCommands(ms, p, action) ==
  /\ DeployablePackage(p, action) /\ \E m \in ms : ~Open(m)
  /\ Spend("deploy")
  /\ deploy' = [m \in Postes |->
       IF m \in ms /\ ~Open(m)
       THEN [NoDeploy EXCEPT !.status = "pending", !.package = p, !.action = action]
       ELSE deploy[m]]
  /\ UNCHANGED <<console, folder, transfer, inFlight, leaked, ran>>

\* Handed with the heartbeat: the package as it is then.
PackageDeliveries(m) ==
  /\ deploy[m].status = "pending"
  /\ LET p == deploy[m].package
         k == package[p]
     IN  deploy' = [deploy EXCEPT ![m] =
           [@ EXCEPT !.status = "delivered",
                     !.handed = [manifest |-> k.manifest, signature |-> k.signature],
                     !.stale  = k.kind = "files" /\ k.manifest.files # files[p]]]
  /\ UNCHANGED <<console, folder, transfer, inFlight, leaked, ran, load>>

Ends(m, status, why) ==
  deploy' = [deploy EXCEPT ![m].status = status, ![m].why = why, ![m].handed = None]

\* Faulty variant: a signature is there, whatever it is over.
VerifiedPresent(h) == h.signature # None

\* Method B: the signature holds over the manifest handed.
Verified(h) == h.signature = h.manifest

\* What the poste runs of a manifest; a name it does not list is refused.
Step(m) ==
  LET h == deploy[m].handed.manifest
  IN  IF deploy[m].action = "install" THEN h.run ELSE h.off

Runnable(m) ==
  LET h == deploy[m].handed
  IN  /\ h.manifest # None => /\ Listed(h.manifest.files) # {}
                              /\ {h.manifest.run, h.manifest.off} \subseteq
                                   Listed(h.manifest.files) \cup {MsiExec, None}
                              /\ Step(m) # None
                              /\ Verified(h) \/ m \in Publishers

ExecuteFiles(m) ==
  /\ deploy[m].status = "delivered"
  /\ IF Runnable(m) THEN deploy' = [deploy EXCEPT ![m].status = "running"]
     ELSE Ends(m, "failed", "refused")
  /\ UNCHANGED <<console, folder, transfer, inFlight, leaked, ran, load>>

\* The files of the manifest handed, and those the poste does not have yet.
Manifest(m) == IF deploy[m].handed.manifest = None THEN NoFile ELSE deploy[m].handed.manifest.files
Has(m, n)   == folder[m][deploy[m].package][n]
Wanted(m)   == {n \in Listed(Manifest(m)) : Has(m, n) # Manifest(m)[n]}

Keep(m, n, c) == folder' = [folder EXCEPT ![m][deploy[m].package][n] = c]

Fetching(m, n) ==
  deploy[m].status = "running" /\ transfer[m] = None /\ n \in Wanted(m)

\* What an earlier version left under the name is resumed, unless it is
\* longer: its hash is wrong, and it is thrown away.
ResumeOther(m, n) ==
  /\ Fetching(m, n) /\ Has(m, n) # None
  /\ Keep(m, n, None) /\ Ends(m, "failed", "hash")
  /\ UNCHANGED <<console, transfer, inFlight, leaked, ran, load>>

\* Faulty variant: a package no longer offered is no longer served.
ServedOffered(m, c) ==
  ~package[deploy[m].package].retired /\ \E n \in Names : files[deploy[m].package][n] = c

\* A content of the package, asked by a poste with a deployment of it open.
Served(m, c) == \E n \in Names : files[deploy[m].package][n] = c

\* The download of c is refused: its deployment ends there.
Missing(m, c) ==
  LET d == deploy[m]
  IN  deploy' = [deploy EXCEPT ![m] = [d EXCEPT !.status = "failed", !.why = "missing",
                                                !.handed = None, !.stale = d.stale \/ c \in lost]]

DownloadPackageFile(m, n) ==
  /\ Fetching(m, n)
  /\ LET c == Manifest(m)[n]
     IN  IF Served(m, c) /\ c \in store
         THEN /\ inFlight < MaxDownloads
              /\ inFlight' = inFlight + 1
              /\ transfer' = [transfer EXCEPT ![m] = [name |-> n, content |-> c, opened |-> FALSE]]
              /\ UNCHANGED deploy
         ELSE Missing(m, c) /\ UNCHANGED <<transfer, inFlight>>
  /\ UNCHANGED <<console, folder, leaked, ran, load>>

\* Told to come back later once too often.
GiveUp(m) ==
  /\ \E n \in Names : Fetching(m, n)
  /\ inFlight >= MaxDownloads
  /\ Ends(m, "failed", "busy")
  /\ UNCHANGED <<console, folder, transfer, inFlight, leaked, ran, load>>

\* The response opens the file; removed since, it fails and releases nothing.
OpenFile(m) ==
  /\ transfer[m] # None /\ ~transfer[m].opened
  /\ IF transfer[m].content \in store
     THEN transfer' = [transfer EXCEPT ![m].opened = TRUE] /\ UNCHANGED leaked
     ELSE transfer' = [transfer EXCEPT ![m] = None] /\ leaked' = leaked + 1
  /\ UNCHANGED <<console, deploy, folder, inFlight, ran, load>>

ReleaseDownload(n) == IF n > 0 THEN n - 1 ELSE 0

\* The response is over, sent to the end or cut.
Transferred(m, done) ==
  /\ transfer[m] # None /\ transfer[m].opened
  /\ transfer' = [transfer EXCEPT ![m] = None]
  /\ inFlight' = ReleaseDownload(inFlight)
  /\ IF done THEN Keep(m, transfer[m].name, transfer[m].content) ELSE UNCHANGED folder
  /\ UNCHANGED <<console, deploy, leaked, ran, load>>

\* Everything is there, by its hash: it runs, and the result is reported; the
\* files stay for a retry of what failed.
Run(m, ok) ==
  /\ deploy[m].status = "running" /\ Wanted(m) = {}
  /\ ran' = IF m \in Publishers \/ deploy[m].handed.manifest = None THEN ran
            ELSE ran \cup {deploy[m].handed.manifest}
  /\ IF ok THEN /\ Ends(m, "success", None)
                /\ folder' = [folder EXCEPT ![m][deploy[m].package] = NoFile]
     ELSE Ends(m, "failed", "code") /\ UNCHANGED folder
  /\ UNCHANGED <<console, transfer, inFlight, leaked, load>>

\* The server restarts: its counter and what it was sending are gone.
Restart ==
  /\ Spend("restart")
  /\ inFlight' = 0 /\ leaked' = 0
  /\ transfer' = [m \in Postes |-> None]
  /\ request' = [s \in Slots |-> Idle]
  /\ UNCHANGED <<package, files, store, documents, muddled, lost, deploy, folder, ran>>

Console ==
  \/ \E p \in PackageIds, run, off \in Programs :
       \/ \E kind \in {"files", "winget"} : CreatePackage(p, kind, run, off)
       \/ \E s \in Slots : UpdatePackage(s, p, run, off)
  \/ \E s \in Slots, p \in PackageIds :
       \/ \E n \in Names : DeleteFile(s, p, n) \/ \E c \in Contents : UploadFiles(s, p, n, c)
       \/ AttachSignature(s, p)
  \/ \E p \in PackageIds : \/ DownloadManifest(p) \/ RemoveSignature(p)
                           \/ RetirePackage(p) \/ RestorePackage(p)
                           \/ \E ms \in SUBSET Postes, action \in {"install", "uninstall"} :
                                CreateCommands(ms, p, action)
  \/ \E s \in Slots : \/ UpdateCommit(s) \/ UploadCommit(s) \/ DeleteCommit(s) \/ AttachCommit(s)
                      \/ RemoveUnreferenced(s) \/ Abort(s)

Fleet ==
  \E m \in Postes :
    \/ PackageDeliveries(m) \/ ExecuteFiles(m) \/ GiveUp(m) \/ OpenFile(m)
    \/ \E n \in Names : DownloadPackageFile(m, n) \/ ResumeOther(m, n)
    \/ \E done \in BOOLEAN : Transferred(m, done) \/ Run(m, done)

Next == Console \/ Fleet \/ Restart

Spec == Init /\ [][Next]_vars
-----------------------------------------------------------------------------
TypeOK ==
  /\ load \in 0 .. MaxLoad
  /\ \A p \in PackageIds :
       /\ package[p] = Absent => files[p] = NoFile
       /\ package[p].kind = "winget" =>
            files[p] = NoFile /\ {package[p].manifest, package[p].signature} = {None}
       /\ package[p].kind = "files" => package[p].manifest # None
       /\ package[p].signature # None => package[p].signature \in documents
  /\ \A m \in Postes : transfer[m] # None => deploy[m].status = "running"

(* The catalogue says signed only what is: the manifest is the package as  *)
(* it stands, and its signature over it, but for packages that overlapping *)
(* requests left (package/crud.py:43).                                     *)
SignedAsIs ==
  \A p \in PackageIds \ muddled :
    package[p].kind = "files" =>
      /\ package[p].manifest = Build(package[p].run, package[p].off, files[p])
      /\ package[p].signature \in {None, package[p].manifest}

(* Downloads are bounded, and a slot is lost only to a file removed before *)
(* it was opened (agent.py:951).                                           *)
DownloadsBounded ==
  /\ inFlight = leaked + Cardinality({m \in Postes : transfer[m] # None})
  /\ inFlight <= MaxDownloads

(* Two packages may share a content: it is on the volume while a row names *)
(* it, unless it was removed under the upload of it (storage.py:76).       *)
FilesKept == TypeOK /\ DownloadsBounded /\ \A p \in PackageIds, n \in Names :
  files[p][n] # None => files[p][n] \in store \cup lost

(* A poste handed a deployment finds its files through retirements and     *)
(* changes of other packages (packages.py:560), unless its own files       *)
(* changed since it was handed them, or that one was removed under its     *)
(* upload.                                                                 *)
StillThere == \A m \in Postes : deploy[m].why = "missing" => deploy[m].stale

(* A poste that trusts signers runs what one signed, whole, whatever        *)
(* changed or was mistaken for signed on the way (executor.go:103).        *)
RanAsSigned == ran \subseteq documents
=============================================================================
