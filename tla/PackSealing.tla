---------------------------- MODULE PackSealing ----------------------------
(***************************************************************************)
(* How a pack's files are vouched for: the hashes in pack.json and the     *)
(* manifest beside it (packs/integrity.py), its signature, the manifest of *)
(* the integrity command (integrity/), and the bundle made for             *)
(* distribution (distribution/).  Processes seal, sign, list and bundle    *)
(* one pack while it is edited; any may die, and a bundle may be damaged   *)
(* on its way.  A hash is what it is taken of; of the files of a pack      *)
(* without a part in this, one stands for all.                             *)
(*                                                                         *)
(* A command reads a file in one step and writes it in another; the moment *)
(* a file is cut while it is written shows when its writer dies then.      *)
(***************************************************************************)
EXTENDS Naturals, Sequences, SequencesExt

CONSTANTS
    Sealers,      \* processes
    KeyPairs,         \* key pairs for bundles
    NoFile, Cut,  \* a file that is not there, one whose writer died
    MaxJobs, MaxEdits, MaxLosses    \* bounds: commands, edits, deaths and damages

ASSUME SealingBounds == MaxJobs \in Nat /\ MaxEdits \in Nat /\ MaxLosses \in Nat

FileNames == {"claims", "extra", "pack", "provenance"}

\* What the files of a pack come to hold: an edit goes from one text to the
\* other.
FileTexts == {1, 2}

ContentHashes == [claims : FileTexts, provenance : {1}, base : FileTexts]

PackForms(roots) == [base : FileTexts, hash : {NoFile} \cup ContentHashes, merkle : roots, snapshot : {NoFile} \cup FileTexts]

FileHashes == [claims : FileTexts, provenance : {1}, pack : PackForms({NoFile})]

PackJsons == PackForms({NoFile} \cup FileHashes)

\* What a signature says of a pack; one who makes the key names it.
Signed == [hash : ContentHashes, merkle : FileHashes]
Signatures == [of : Signed, key : Sealers]

FileForms == {Cut} \cup FileTexts \cup PackJsons

\* A file that is missing or cut is not taken for one that holds something.
ASSUME MissingIsNothing ==
    /\ NoFile # Cut
    /\ NoFile \notin ContentHashes /\ NoFile \notin FileHashes
    /\ Cut \notin PackJsons
    /\ \A m \in {NoFile, Cut} : m \notin Signatures /\ m \notin Sealers
    /\ \A m \in {NoFile, Cut}, names \in SUBSET FileNames :
         /\ m \notin [names -> FileForms]
         /\ m \notin [key : KeyPairs, payload : [names -> FileForms]]

VARIABLES
    sealing,     \* the pack's files
    bundle,      \* the bundle's files
    keyFiles,    \* those of the key packs are signed with
    labour,        \* what each process does, and how far it is
    vouched,     \* what was signed, the listings made or signed, who made keys,
                 \* and whether one bundler read back what another wrote
    fresh,       \* what nobody has touched since it was sealed, signed or bundled
    counts       \* jobs, edits, losses

sealingVars == <<sealing, bundle, keyFiles, labour, vouched, fresh, counts>>

\* The list of files in a manifest that lists none.
NoFiles == [f \in {} |-> NoFile]

NoBundle == [files |-> [f \in FileNames |-> NoFile], manifest |-> NoFile, signature |-> NoFile]

NoTask == [op |-> "none", stage |-> "idle", saw |-> << >>, key |-> NoFile, left |-> << >>, undisturbed |-> TRUE]

SealingInit ==
    /\ sealing = [claims |-> 1, provenance |-> 1, extra |-> NoFile, manifest |-> NoFile, signature |-> NoFile,
                  pack |-> [base |-> 1, hash |-> NoFile, merkle |-> NoFile, snapshot |-> NoFile]]
    /\ bundle = NoBundle
    /\ keyFiles = [private |-> NoFile, public |-> NoFile]
    /\ labour = [w \in Sealers |-> NoTask]
    /\ vouched = [packs |-> {}, bundles |-> {}, makers |-> {}, crossed |-> FALSE]
    /\ fresh = {}
    /\ counts = [jobs |-> 0, edits |-> 0, losses |-> 0]

-----------------------------------------------------------------------------
(* What is computed of a pack and of a bundle. *)

\* compute_pack_hash: pack.json without the fields that hashes are kept in.
ContentHash(s) == [claims |-> s.claims, provenance |-> s.provenance, base |-> s.pack.base]

\* build_manifest: of pack.json, without the root that depends on it.
HashedFiles(s) == [claims |-> s.claims, provenance |-> s.provenance, pack |-> [s.pack EXCEPT !.merkle = NoFile]]

SealManifest(s) == [kind |-> "seal", files |-> HashedFiles(s)]

\* create_manifest of the integrity command: another form under the same name.
PlainManifest(s) ==
    [kind |-> "plain",
     files |-> [claims |-> s.claims, provenance |-> s.provenance, pack |-> s.pack, extra |-> s.extra, signature |-> s.signature]]

\* verify_pack_integrity: a manifest of the other form has other hashes, and
\* without one the files are compared with themselves.
IntegrityValid(s) == s.manifest = NoFile \/ s.manifest = SealManifest(s)

MetadataMatches(s) ==
    /\ s.pack.merkle \in {NoFile, HashedFiles(s)}
    /\ s.pack.hash \in {NoFile, ContentHash(s)}

\* verify_pack_signature: pack.json's fields, not the files, and the key in
\* the public file, which need not be the one of the private file.
SignatureValid(s) ==
    /\ s.signature \notin {NoFile, Cut}
    /\ keyFiles.public = s.signature.key
    /\ s.signature.of.hash = s.pack.hash /\ s.signature.of.merkle = s.pack.merkle

Present(files) == {f \in DOMAIN files : files[f] # NoFile}

Listing(files, names) == [f \in names \cap Present(files) |-> files[f]]

\* Mutant: that a file is there is enough.
AllThere(b) == DOMAIN b.manifest \subseteq Present(b.files)

\* The hashes of what is there are those in the manifest.
Intact(b) == Listing(b.files, DOMAIN b.manifest) = b.manifest

\* manifest_payload_for_signature
Payload(listing) == listing

\* verify_signature, of what is there of the files that are listed.
SignatureStatus(b, key) ==
    IF b.signature = NoFile THEN "MISSING"
    ELSE IF key = NoFile THEN "UNTRUSTED"
    ELSE CASE b.signature = Cut -> "ERROR"
           [] b.signature = [key |-> key, payload |-> Payload(Listing(b.files, DOMAIN b.manifest))] -> "VALID"
           [] OTHER -> "INVALID"

\* verify_pack_bundle
BundleStatus(b, key) ==
    IF b.manifest \in {NoFile, Cut} THEN "BUNDLE_ERROR"
    ELSE IF ~Intact(b) THEN "BUNDLE_TAMPERED"
    ELSE CASE SignatureStatus(b, key) = "VALID" -> "BUNDLE_VALID"
           [] SignatureStatus(b, key) \in {"MISSING", "UNTRUSTED"} -> "BUNDLE_UNSIGNED"
           [] OTHER -> "BUNDLE_INVALID"

-----------------------------------------------------------------------------
\* Process w goes on to a stage, or ends; what it wrote is news to others.
Advance(w, job, wrote) ==
    labour' = [v \in Sealers |->
        IF v = w THEN job
        ELSE IF wrote /\ labour[v] # NoTask THEN [labour[v] EXCEPT !.undisturbed = FALSE] ELSE labour[v]]

Stage(w, op, stage) == labour[w].op = op /\ labour[w].stage = stage

BeginJob(w, job) ==
    /\ labour[w] = NoTask /\ counts.jobs < MaxJobs
    /\ counts' = [counts EXCEPT !.jobs = @ + 1]
    /\ Advance(w, job, FALSE)
    /\ UNCHANGED <<sealing, bundle, keyFiles, vouched, fresh>>

\* Commands that read pack.json first.
BeginSeal(w) == sealing.pack # Cut /\ BeginJob(w, [NoTask EXCEPT !.op = "seal", !.stage = "hash"])
BeginSign(w) == sealing.pack # Cut /\ BeginJob(w, [NoTask EXCEPT !.op = "sign", !.stage = "manifest"])

\* _collect_pack_files
Collected(s) ==
    IF s.extra # NoFile THEN <<"claims", "extra", "pack", "provenance">> ELSE <<"claims", "pack", "provenance">>

\* create_pack_bundle: the files to copy are listed once.
BeginBundle(w) ==
    \E key \in KeyPairs \cup {NoFile} :
        /\ sealing.pack # Cut
        /\ BeginJob(w, [NoTask EXCEPT !.op = "bundle", !.stage = "copy", !.key = key, !.saw = bundle = NoBundle,
                        !.left = Collected(sealing)])

Keeps == UNCHANGED <<bundle, keyFiles, vouched, counts>>

\* update_pack_integrity_metadata: pack.json is read and all is hashed, it is
\* written with the hash, the manifest is taken and written, its root added.
TakeHash(w) ==
    /\ Stage(w, "seal", "hash") /\ sealing.pack # Cut
    /\ Advance(w, [labour[w] EXCEPT !.stage = "metadata", !.saw = [sealing.pack EXCEPT !.hash = ContentHash(sealing)]], FALSE)
    /\ Keeps /\ UNCHANGED <<sealing, fresh>>

WriteHash(w) ==
    /\ Stage(w, "seal", "metadata")
    /\ sealing' = [sealing EXCEPT !.pack = [labour[w].saw EXCEPT !.snapshot = sealing.claims]]
    /\ fresh' = {}
    /\ Advance(w, [labour[w] EXCEPT !.stage = "manifest", !.saw = << >>], TRUE)
    /\ Keeps

WriteSealManifest(w) ==
    /\ Stage(w, "seal", "manifest") /\ sealing.pack # Cut
    /\ sealing' = [sealing EXCEPT !.manifest = SealManifest(sealing)]
    /\ fresh' = {}
    /\ Advance(w, [labour[w] EXCEPT !.stage = "root", !.saw = HashedFiles(sealing)], TRUE)
    /\ Keeps

WriteRoot(w) ==
    /\ Stage(w, "seal", "root") /\ sealing.pack # Cut
    /\ sealing' = [sealing EXCEPT !.pack.merkle = labour[w].saw]
    /\ fresh' = IF labour[w].undisturbed THEN {"sealed"} ELSE {}
    /\ Advance(w, NoTask, TRUE)
    /\ Keeps

\* sign_pack_manifest, writing what it makes; the key is made at first use.
TakeManifest(w) ==
    /\ Stage(w, "sign", "manifest") /\ sealing.pack # Cut
    /\ Advance(w, [labour[w] EXCEPT !.stage = "hash", !.saw = [merkle |-> HashedFiles(sealing)]], FALSE)
    /\ Keeps /\ UNCHANGED <<sealing, fresh>>

TakeSignedHash(w) ==
    /\ Stage(w, "sign", "hash") /\ sealing.pack # Cut
    /\ Advance(w, [labour[w] EXCEPT !.stage = "key", !.saw = [hash |-> ContentHash(sealing), merkle |-> labour[w].saw.merkle]], FALSE)
    /\ Keeps /\ UNCHANGED <<sealing, fresh>>

\* _load_or_create_signing_key: whoever finds no private key makes one, and
\* writes it over what another wrote since.
LoadKey(w) ==
    /\ Stage(w, "sign", "key") /\ keyFiles.private \notin {NoFile, Cut}
    /\ Advance(w, [labour[w] EXCEPT !.stage = "write manifest", !.key = keyFiles.private], FALSE)
    /\ Keeps /\ UNCHANGED <<sealing, fresh>>

MakeKey(w) ==
    /\ Stage(w, "sign", "key") /\ keyFiles.private = NoFile
    /\ Advance(w, [labour[w] EXCEPT !.stage = "private", !.key = w], FALSE)
    /\ Keeps /\ UNCHANGED <<sealing, fresh>>

WritePrivateKey(w) ==
    /\ Stage(w, "sign", "private")
    /\ keyFiles' = [keyFiles EXCEPT !.private = labour[w].key]
    /\ vouched' = [vouched EXCEPT !.makers = @ \cup {labour[w].key}]
    /\ Advance(w, [labour[w] EXCEPT !.stage = "public"], FALSE)
    /\ UNCHANGED <<sealing, bundle, fresh, counts>>

WritePublicKey(w) ==
    /\ Stage(w, "sign", "public")
    /\ keyFiles' = [keyFiles EXCEPT !.public = labour[w].key]
    /\ Advance(w, [labour[w] EXCEPT !.stage = "write manifest"], FALSE)
    /\ UNCHANGED <<sealing, bundle, vouched, fresh, counts>>

WriteSignedManifest(w) ==
    /\ Stage(w, "sign", "write manifest")
    /\ sealing' = [sealing EXCEPT !.manifest = [kind |-> "seal", files |-> labour[w].saw.merkle]]
    /\ fresh' = IF labour[w].undisturbed THEN fresh ELSE {}
    /\ Advance(w, [labour[w] EXCEPT !.stage = "signature"], TRUE)
    /\ Keeps

WriteSignature(w) ==
    /\ Stage(w, "sign", "signature")
    /\ sealing' = [sealing EXCEPT !.signature = [of |-> labour[w].saw, key |-> labour[w].key]]
    /\ vouched' = [vouched EXCEPT !.packs = @ \cup {labour[w].saw}]
    /\ fresh' = IF labour[w].undisturbed /\ "sealed" \in fresh THEN fresh \cup {"signed"} ELSE {}
    /\ Advance(w, NoTask, TRUE)
    /\ UNCHANGED <<bundle, keyFiles, counts>>

\* run_pack_verify --write-artifacts, and integrity manifest.
WriteManifestNow(w) ==
    /\ labour[w] = NoTask /\ counts.jobs < MaxJobs /\ sealing.pack # Cut
    /\ counts' = [counts EXCEPT !.jobs = @ + 1]
    /\ \E m \in {SealManifest(sealing), PlainManifest(sealing)} : sealing' = [sealing EXCEPT !.manifest = m]
    /\ fresh' = {}
    /\ Advance(w, NoTask, TRUE)
    /\ UNCHANGED <<bundle, keyFiles, vouched>>

-----------------------------------------------------------------------------
\* create_pack_bundle: what an earlier bundle left in the directory stays,
\* and is listed too.
KeepsPack == UNCHANGED <<sealing, keyFiles, counts>>

CopyInto(w) ==
    /\ Stage(w, "bundle", "copy") /\ labour[w].left # << >>
    /\ sealing[Head(labour[w].left)] # NoFile
    /\ bundle' = [bundle EXCEPT !.files[Head(labour[w].left)] = sealing[Head(labour[w].left)]]
    /\ fresh' = fresh \ {"bundled"}
    /\ Advance(w, [labour[w] EXCEPT !.left = Tail(@)], TRUE)
    /\ KeepsPack /\ UNCHANGED vouched

WriteScaffold(w) ==
    /\ Stage(w, "bundle", "copy") /\ labour[w].left = << >>
    /\ bundle' = [bundle EXCEPT !.manifest = NoFiles]
    /\ fresh' = fresh \ {"bundled"}
    /\ Advance(w, [labour[w] EXCEPT !.stage = "list"], TRUE)
    /\ KeepsPack /\ UNCHANGED vouched

\* The files are listed and hashed, the list is written, read back, and
\* those of the files it names that are there hashed again: the list that is
\* read may be another bundler's, one of no files yet.
HashBundle(w) ==
    /\ Stage(w, "bundle", "list")
    /\ LET listing == Listing(bundle.files, Present(bundle.files))
       IN  /\ Advance(w, [labour[w] EXCEPT !.stage = "seed", !.left = listing], FALSE)
           /\ vouched' = [vouched EXCEPT !.bundles = @ \cup {[key |-> NoFile, listing |-> listing]}]
    /\ KeepsPack /\ UNCHANGED <<bundle, fresh>>

WriteListing(w) ==
    /\ Stage(w, "bundle", "seed")
    /\ bundle' = [bundle EXCEPT !.manifest = labour[w].left]
    /\ fresh' = fresh \ {"bundled"}
    /\ Advance(w, [labour[w] EXCEPT !.stage = "rebuild"], TRUE)
    /\ KeepsPack /\ UNCHANGED vouched

RebuildListing(w) ==
    /\ Stage(w, "bundle", "rebuild") /\ bundle.manifest \notin {NoFile, Cut}
    /\ LET listing == Listing(bundle.files, DOMAIN bundle.manifest)
       IN  /\ Advance(w, [labour[w] EXCEPT !.stage = IF labour[w].key # NoFile THEN "sign" ELSE "final",
                                         !.left = listing], FALSE)
           /\ vouched' = [vouched EXCEPT !.bundles = @ \cup {[key |-> NoFile, listing |-> listing]},
                                        !.crossed = @ \/ bundle.manifest # labour[w].left]
    /\ KeepsPack /\ UNCHANGED <<bundle, fresh>>

SignListing(w) ==
    /\ Stage(w, "bundle", "sign")
    /\ bundle' = [bundle EXCEPT !.signature = [key |-> labour[w].key, payload |-> Payload(labour[w].left)]]
    /\ vouched' = [vouched EXCEPT !.bundles = @ \cup {[key |-> labour[w].key, listing |-> labour[w].left]}]
    /\ fresh' = fresh \ {"bundled"}
    /\ Advance(w, [labour[w] EXCEPT !.stage = "final"], TRUE)
    /\ KeepsPack

WriteListingAgain(w) ==
    /\ Stage(w, "bundle", "final")
    /\ bundle' = [bundle EXCEPT !.manifest = labour[w].left]
    /\ fresh' = IF labour[w].saw /\ labour[w].undisturbed THEN fresh \cup {"bundled"} ELSE fresh \ {"bundled"}
    /\ Advance(w, NoTask, TRUE)
    /\ KeepsPack /\ UNCHANGED vouched

-----------------------------------------------------------------------------
Disturbed == [w \in Sealers |-> IF labour[w] = NoTask THEN NoTask ELSE [labour[w] EXCEPT !.undisturbed = FALSE]]

\* Any other command of the pack that writes its files.
EditPack ==
    /\ counts.edits < MaxEdits
    /\ counts' = [counts EXCEPT !.edits = @ + 1]
    /\ \/ sealing' = [sealing EXCEPT !.claims = 3 - @]
       \/ sealing.pack # Cut /\ sealing' = [sealing EXCEPT !.pack.base = 3 - @]
       \/ sealing' = [sealing EXCEPT !.extra = IF @ = NoFile THEN 1 ELSE NoFile]
    /\ labour' = Disturbed /\ fresh' = {}
    /\ UNCHANGED <<bundle, keyFiles, vouched>>

\* On its way a file of the bundle is lost or changed.
DamageBundle ==
    /\ counts.losses < MaxLosses /\ counts' = [counts EXCEPT !.losses = @ + 1]
    /\ \A w \in Sealers : labour[w].op # "bundle"
    /\ \E f \in Present(bundle.files) : \E x \in {NoFile, Cut} : bundle' = [bundle EXCEPT !.files[f] = x]
    /\ labour' = Disturbed /\ fresh' = fresh \ {"bundled"}
    /\ UNCHANGED <<sealing, keyFiles, vouched>>

\* The file a process is about to write.
CutWriting(w) ==
    LET s == labour[w].stage
    IN  \/ /\ \/ s \in {"metadata", "root"} /\ sealing' = [sealing EXCEPT !.pack = Cut]
              \/ (Stage(w, "seal", "manifest") \/ s = "write manifest") /\ sealing' = [sealing EXCEPT !.manifest = Cut]
              \/ s = "signature" /\ sealing' = [sealing EXCEPT !.signature = Cut]
           /\ UNCHANGED <<bundle, keyFiles>>
        \/ s \in {"private", "public"} /\ keyFiles' = [keyFiles EXCEPT ![s] = Cut] /\ UNCHANGED <<sealing, bundle>>
        \/ /\ \/ s = "copy" /\ labour[w].left # << >> /\ bundle' = [bundle EXCEPT !.files[Head(labour[w].left)] = Cut]
              \/ s = "copy" /\ labour[w].left = << >> /\ bundle' = [bundle EXCEPT !.manifest = Cut]
              \/ s \in {"seed", "final"} /\ bundle' = [bundle EXCEPT !.manifest = Cut]
              \/ s = "sign" /\ bundle' = [bundle EXCEPT !.signature = Cut]
           /\ UNCHANGED <<sealing, keyFiles>>

SealerDies(w) ==
    /\ labour[w] # NoTask /\ counts.losses < MaxLosses
    /\ counts' = [counts EXCEPT !.losses = @ + 1]
    /\ CutWriting(w) \/ UNCHANGED <<sealing, bundle, keyFiles>>
    /\ fresh' = {}
    /\ Advance(w, NoTask, TRUE)
    /\ UNCHANGED vouched

\* A file a command needs is cut, or gone.
Refused(w) ==
    /\ \/ labour[w].op \in {"seal", "sign"} /\ labour[w].stage \in {"hash", "manifest", "root"} /\ sealing.pack = Cut
       \/ labour[w].stage = "key" /\ keyFiles.private = Cut
       \/ labour[w].stage = "rebuild" /\ bundle.manifest \in {NoFile, Cut}
       \/ labour[w].stage = "copy" /\ labour[w].left # << >> /\ sealing[Head(labour[w].left)] = NoFile
    /\ Advance(w, NoTask, FALSE)
    /\ UNCHANGED <<sealing, bundle, keyFiles, vouched, fresh, counts>>

SealingStep(w) ==
    \/ BeginSeal(w) \/ BeginSign(w) \/ BeginBundle(w)
    \/ TakeHash(w) \/ WriteHash(w) \/ WriteSealManifest(w) \/ WriteRoot(w)
    \/ TakeManifest(w) \/ TakeSignedHash(w)
    \/ LoadKey(w) \/ MakeKey(w) \/ WritePrivateKey(w) \/ WritePublicKey(w)
    \/ WriteSignedManifest(w) \/ WriteSignature(w) \/ WriteManifestNow(w)
    \/ CopyInto(w) \/ WriteScaffold(w) \/ HashBundle(w) \/ WriteListing(w) \/ RebuildListing(w) \/ SignListing(w) \/ WriteListingAgain(w)
    \/ SealerDies(w) \/ Refused(w)

SealingNext == EditPack \/ DamageBundle \/ \E w \in Sealers : SealingStep(w)

SealingSpec == SealingInit /\ [][SealingNext]_sealingVars

-----------------------------------------------------------------------------
\* What is said of a pack or a bundle was vouched for: a pack whose files
\* and signature are both VALID, and match its metadata, is one that was
\* signed as it is; a bundle that is BUNDLE_VALID holds what somebody listed
\* and signed with that key, and one that nobody signed what was listed.  And
\* what nobody touched since it was made is found so (verify_pack_integrity,
\* verify_pack_signature, verify_pack_bundle).  There are three exceptions.
\* What was listed is all of the pack, unless one bundler read back the empty
\* list another had just written, and signed that; an empty list without a
\* signature is also what a bundler leaves that was cut off.  And a fresh
\* signature is VALID unless two processes made the key at once, or the
\* public half of it was never wholly written.
VerdictsAreVouchedFor ==
    /\ (sealing.pack # Cut /\ IntegrityValid(sealing) /\ MetadataMatches(sealing) /\ SignatureValid(sealing)) =>
         [hash |-> ContentHash(sealing), merkle |-> HashedFiles(sealing)] \in vouched.packs
    /\ \A key \in KeyPairs \cup {NoFile} : BundleStatus(bundle, key) \in {"BUNDLE_VALID", "BUNDLE_UNSIGNED"} =>
         LET held == Listing(bundle.files, DOMAIN bundle.manifest)
             by == IF BundleStatus(bundle, key) = "BUNDLE_VALID" THEN {key} ELSE KeyPairs \cup {NoFile}
         IN  \/ /\ \E k \in by : [key |-> k, listing |-> held] \in vouched.bundles
                /\ {"claims", "pack", "provenance"} \subseteq DOMAIN held \/ (held = NoFiles /\ vouched.crossed)
             \/ BundleStatus(bundle, key) = "BUNDLE_UNSIGNED" /\ bundle.manifest = NoFiles
    /\ "sealed" \in fresh => IntegrityValid(sealing) /\ MetadataMatches(sealing)
    /\ "signed" \in fresh => \/ SignatureValid(sealing)
                             \/ \E v, w \in vouched.makers : v # w
                             \/ keyFiles.public \in {NoFile, Cut}
    /\ "bundled" \in fresh =>
         /\ \E key \in KeyPairs \cup {NoFile} : BundleStatus(bundle, key) \in {"BUNDLE_VALID", "BUNDLE_UNSIGNED"}
         /\ bundle.files = [f \in DOMAIN bundle.files |-> sealing[f]]
=============================================================================
