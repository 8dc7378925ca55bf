----------------------------- MODULE FileReplica -----------------------------
(***************************************************************************)
(* What file synchronisation promises: an authority edits its files and    *)
(* publishes from time to time which version it is at; a replica installs  *)
(* versions, file by file, and never goes back behind the version that an  *)
(* earlier installation was made from.  Until the authority has published  *)
(* anything the replica may lose files: the authority then appears to have *)
(* none.                                                                   *)
(***************************************************************************)
EXTENDS Naturals, Sequences

CONSTANTS Files, FileState, Absent

VARIABLES
    hist,       \* the versions of the authority's files, the last is current
    published,  \* index in hist of the last one published, 0 for none
    replica,    \* the replica's files
    seen        \* index of the published version last installed

vars == <<hist, published, replica, seen>>

FileMap == [Files -> FileState]

Init ==
    /\ \E m \in FileMap : hist = <<m>>
    /\ published = 0
    /\ replica \in FileMap
    /\ seen = 0

Edit ==
    /\ \E m \in FileMap : hist' = Append(hist, m)
    /\ UNCHANGED <<published, replica, seen>>

Publish ==
    /\ published' = Len(hist)
    /\ UNCHANGED <<hist, replica, seen>>

(* Installing what was published as version n: a file may be left alone,   *)
(* or be what it is in version n or in a later one.                        *)
Installable(f, n) ==
    {replica[f]} \cup {hist[i][f] : i \in n..Len(hist)}

Install ==
    /\ \E n \in seen..published :
          /\ n > 0
          /\ seen' = n
          /\ \A f \in Files : replica'[f] \in Installable(f, n)
    /\ DOMAIN replica' = Files
    /\ UNCHANGED <<hist, published>>

Lose ==
    /\ seen = 0
    /\ \A f \in Files : replica'[f] \in Installable(f, 1) \cup {Absent}
    /\ DOMAIN replica' = Files
    /\ UNCHANGED <<hist, published, seen>>

Next == Edit \/ Publish \/ Install \/ Lose

Spec == Init /\ [][Next]_vars

(* Once edits stop, the replica ends up equal to the authority.            *)
Converges == <>[](replica = hist[Len(hist)])
=============================================================================
