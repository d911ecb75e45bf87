--------------------------- MODULE MCRuntimeSync ---------------------------
(* Instances of RuntimeSync for TLC.                                        *)
EXTENDS RuntimeSync, TLC

CONSTANTS p1, p2, f, g

\* A save of all fields has none to keep.
KeepsOne == \A p \in Pods : edits'[p] # Fields
SmallSpec == Init /\ [][Next /\ KeepsOne]_vars

PodSymmetry == Permutations(Pods)

\* Without what no later step reads: the settings a task no longer carries, the
\* masked fields of a form, and what is known of a save that has reached MySQL.
LiveVal(p, k) == CASE at[p][k] \in {"idle", "load", "bump"} -> <<>>
                   [] at[p][k] = "form" -> [x \in Fields \ Secrets |-> val[p][k][x]]
                   [] OTHER -> val[p][k]
Saving == {p \in Pods : at[p]["put"] \in {"file", "mysql"}}
Working == {p \in Pods : at[p]["put"] \in {"form", "file", "mysql"}}
LiveView ==
    <<mysql, rev, file, mem, pool, last, at, [p \in Pods |-> [k \in Tasks |-> LiveVal(p, k)]],
      [p \in Saving |-> edits[p]], abreast \cap Working,
      booting, saves, faults, seen, clean, blind>>
=============================================================================
