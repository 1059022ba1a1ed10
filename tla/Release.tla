------------------------------- MODULE Release -------------------------------
(***************************************************************************)
(* Publishing the incident library while it is being recorded:             *)
(* `firebreak lab package` and `unpack` (lab/package.py) over the bundle   *)
(* directories of module Recorder, which go on changing under them.        *)
(*                                                                         *)
(* An archive was published before.  A digest is the number of the archive *)
(* it was computed from.  An archive's members are what was read of the    *)
(* directories, at two moments: the data files, then the manifest, which   *)
(* the archive takes among them, by its name.                              *)
(***************************************************************************)
EXTENDS Recorder

CONSTANTS
  MaxReleases  \* bound: archives made

VARIABLES
  packing,   \* where package_library is, and the directories still to be seen
  archive,   \* the file at the destination
  checksum   \* the number in the file beside it, or Torn

rvars == <<packing, archive, checksum>>

allvars == <<vars, rvars>>

Torn == 0

Idle == [at |-> "idle", bundles |-> << >>, left |-> << >>]

Nothing == [number |-> 1, closed |-> TRUE, index |-> {}, members |-> << >>]

(***************************************************************************)
(* The directories under bundles/: a glob of */manifest.json passes over   *)
(* no name that begins with a dot, so a recording that is still staged is  *)
(* a bundle too once its manifest is written.                              *)
(***************************************************************************)
Places == {"staging", "bundle"} \X Scenario

At(place) == IF place[1] = "staging" THEN staging[place[2]] ELSE bundle[place[2]]

IterBundles == {place \in Places : At(place).manifest}

(***************************************************************************)
(* A member of the archive: its data files, the recording they are of, and *)
(* the recording its manifest is of.                                       *)
(***************************************************************************)
Cut == [archive EXCEPT !.index = {}, !.members = << >>]

Member(dir) == [files |-> dir.files, take |-> dir.take, shows |-> dir.shows, stale |-> dir.stale,
                manifest |-> 0]

(***************************************************************************)
(* verify_bundle of what arrives: every file the manifest lists is there   *)
(* and has the checksum the manifest has of it.                            *)
(***************************************************************************)
Verifies(member) == member.files = NFiles /\ member.manifest = member.take

-----------------------------------------------------------------------------
(***************************************************************************)
(* package_library lists the bundles and refuses an empty library.  Bound: *)
(* it begins when nothing is recorded; a recording can begin before it     *)
(* ends.                                                                   *)
(***************************************************************************)
ListBundles ==
  /\ packing = Idle /\ archive.number <= MaxReleases
  /\ step = "idle" /\ queue = << >>
  /\ IterBundles # {}
  /\ packing' = [at |-> "verify", bundles |-> SetToSeq(IterBundles), left |-> SetToSeq(IterBundles)]
  /\ UNCHANGED <<archive, checksum>>

(***************************************************************************)
(* Each is verified; one that fails is refused, and the archive is as it   *)
(* was.                                                                    *)
(***************************************************************************)
VerifyEach ==
  /\ packing.at = "verify" /\ packing.left # << >>
  /\ packing' = IF Whole(At(Head(packing.left))) THEN [packing EXCEPT !.left = Tail(@)] ELSE Idle
  /\ UNCHANGED <<archive, checksum>>

(***************************************************************************)
(* build_index looks for bundles again; the archive that was there is      *)
(* overwritten from now on.                                                *)
(***************************************************************************)
OpenArchive ==
  /\ packing.at = "verify" /\ packing.left = << >>
  /\ packing' = [packing EXCEPT !.at = "files", !.left = packing.bundles]
  /\ archive' = [number |-> archive.number + 1, closed |-> FALSE, index |-> IterBundles, members |-> << >>]
  /\ UNCHANGED checksum

(***************************************************************************)
(* archive.add of a directory reads its data files and then the manifest,  *)
(* if it was there when the directory was listed.  What has gone since     *)
(* raises.                                                                 *)
(***************************************************************************)
AddFiles ==
  /\ packing.at = "files" /\ packing.left # << >>
  /\ LET place == Head(packing.left)
         dir   == At(place)
     IN IF ~Exists(dir)
        THEN packing' = Idle /\ archive' = Cut
        ELSE /\ packing' = IF dir.manifest THEN [packing EXCEPT !.at = "manifest"]
                           ELSE [packing EXCEPT !.left = Tail(@)]
             /\ archive' = [archive EXCEPT !.members =
                   [p \in DOMAIN archive.members \cup {place} |->
                      IF p = place THEN Member(dir) ELSE archive.members[p]]]
  /\ UNCHANGED checksum

AddManifest ==
  /\ packing.at = "manifest"
  /\ LET place == Head(packing.left) IN
       IF ~At(place).manifest
       THEN packing' = Idle /\ archive' = Cut
       ELSE /\ packing' = [packing EXCEPT !.at = "files", !.left = Tail(@)]
            /\ archive' = [archive EXCEPT !.members[place].manifest = At(place).take]
  /\ UNCHANGED checksum

\* Mutant: the checksum is written while the archive is.
CloseArchive_Checksummed ==
  /\ packing.at = "files" /\ packing.left = << >>
  /\ packing' = [packing EXCEPT !.at = "checksum"]
  /\ checksum' = archive.number
  /\ UNCHANGED archive

CloseArchive ==
  /\ packing.at = "files" /\ packing.left = << >>
  /\ packing' = [packing EXCEPT !.at = "checksum"]
  /\ archive' = [archive EXCEPT !.closed = TRUE]
  /\ UNCHANGED checksum

WriteChecksum ==
  /\ packing.at = "checksum"
  /\ packing' = Idle
  /\ checksum' = archive.number
  /\ UNCHANGED archive

(***************************************************************************)
(* The command is killed, or the disk is full.                             *)
(***************************************************************************)
StopPackaging ==
  /\ packing # Idle
  /\ packing' = Idle
  /\ checksum' \in {checksum} \cup IF packing.at = "checksum" THEN {Torn} ELSE {}
  /\ archive' = IF archive.closed THEN archive ELSE Cut

Package ==
  \/ ListBundles \/ VerifyEach \/ OpenArchive \/ AddFiles \/ AddManifest
  \/ CloseArchive \/ WriteChecksum \/ StopPackaging

ReleaseInit == Init /\ packing = Idle /\ archive = Nothing /\ checksum = archive.number

ReleaseNext == (Next /\ UNCHANGED rvars) \/ (Package /\ UNCHANGED vars)

\* Nobody has to package anything, and a recording goes on beside it.
ReleaseSpec == ReleaseInit /\ [][ReleaseNext]_allvars /\ Fairness

-----------------------------------------------------------------------------
(***************************************************************************)
(* unpack_library into an empty directory: what is found there to be a     *)
(* bundle, if the digest is the archive's and everything found verifies.   *)
(***************************************************************************)
Arriving == {place \in DOMAIN archive.members : archive.members[place].manifest # 0}

VerifyArchive == checksum = archive.number

Unpacks == VerifyArchive /\ \A place \in Arriving : Verifies(archive.members[place])

(***************************************************************************)
(* What unpack accepts was packaged to its end, whatever crashed between   *)
(* the archive and its checksum, and each bundle in it is one recording    *)
(* that shows the faults its scenario names and no others, but what flagd  *)
(* had not yet dropped when it began, though bundles were recorded,        *)
(* replaced and removed while it was made, and though one may be a         *)
(* recording that was never moved into place.                              *)
(***************************************************************************)
OnlyRecordings ==
  Unpacks =>
    /\ archive.closed
    /\ \A place \in Arriving : ShowsFaults(archive.members[place], place[2])

(***************************************************************************)
(* A recording nobody replaces by force is released as it is: what arrives *)
(* of its bundle is what the index names, what the library still has and   *)
(* what the label, where there is one, belongs to.  The index can name     *)
(* more: it is made after the list of what goes in.                        *)
(***************************************************************************)
MatchesTheLibrary ==
  Unpacks =>
    \A place \in Arriving :
      place[1] = "bundle" /\ place[2] \notin Forced =>
        /\ place \in archive.index
        /\ archive.members[place].take = bundle[place[2]].take
        /\ label[place[2]].whole => label[place[2]].take = archive.members[place].take

(***************************************************************************)
(* A package somebody can unpack is finished, shows what it says, and is the *)
(* library's own recordings, though packaging reads directories and labels *)
(* that go on changing, and can stop anywhere.                             *)
(***************************************************************************)
ReleaseIsSound == OnlyRecordings /\ MatchesTheLibrary
=============================================================================
