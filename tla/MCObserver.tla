----------------------------- MODULE MCObserver -----------------------------
(* Instances of Observer for TLC; the configurations choose what varies. *)
EXTENDS Observer, TLC

\* Directories differ only by name.
DirSymmetry == Permutations(Dirs)

Settings == [live : BOOLEAN, locked : BOOLEAN, muted : BOOLEAN, through : BOOLEAN, only : BOOLEAN]

\* Pauses, either mode, mute and the through-pause setting (not both at once;
\* with no session in front there is nothing a mute could end).
PauseWorlds == {v \in Settings : ~v.locked /\ (v.muted => v.live /\ ~v.through)}

\* Sessions and locks.
SessionWorlds == {v \in Settings : ~v.muted /\ ~v.through /\ ~v.only}

\* Sessions alone.
SoundWorlds == {v \in SessionWorlds : ~v.locked}
=============================================================================
