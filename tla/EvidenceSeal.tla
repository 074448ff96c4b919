---------------------------- MODULE EvidenceSeal ----------------------------
(***************************************************************************)
(* What the Evidence Lock promises to those who verify a clip, without     *)
(* captures, processes or temporary files: the clip and its manifest are   *)
(* worked on until they are sealed, the seal is the digest of that very    *)
(* clip, the alert is given the same, and from then on nothing changes.    *)
(* Evidence implements it (see Lock in EvidenceRefinement).                *)
(***************************************************************************)
CONSTANTS Digests, None

VARIABLES
    clip,     \* the digest of the clip in its place
    manifest, \* the digest its manifest states
    hash,     \* the alert's copy
    seal,     \* the digest of COMPLETE evidence
    void      \* captures overlapped: no promise from then on

seals == <<clip, manifest, hash, seal, void>>

Stated == Digests \cup {None}

LockInit == clip = None /\ manifest = None /\ hash = None /\ seal = None /\ void = FALSE

Work ==
    /\ seal = None
    /\ clip' \in Stated /\ manifest' \in Stated
    /\ UNCHANGED <<hash, seal, void>>

Seal ==
    /\ seal = None /\ clip # None /\ manifest \in {clip, None}
    /\ seal' = clip /\ hash' = clip
    /\ UNCHANGED <<clip, manifest, void>>

Overlap ==
    /\ void' = TRUE
    /\ {clip', manifest', hash', seal'} \subseteq Stated

LockNext == Work \/ Seal \/ Overlap

LockSpec == LockInit /\ [][LockNext]_seals

=============================================================================
