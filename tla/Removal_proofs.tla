--------------------------- MODULE Removal_proofs ---------------------------
(***************************************************************************)
(* Theorems about Removal, for any number of commands, kills, exceptions   *)
(* and edits.                                                              *)
(*                                                                         *)
(* A running removal, its rollback and its recovery know what the project  *)
(* was before: MarkerInv says which of them the marker lets run, RecordInv *)
(* that what the memory and the receipt keep is worth going back to, and   *)
(* HomeInv, LifeInv, RollbackFiles and RecoveryFiles how far each has      *)
(* come.  Together they are inductive and say that a project without a     *)
(* marker is whole.                                                        *)
(***************************************************************************)
EXTENDS Removal, TLAPS

-----------------------------------------------------------------------------
(* The inductive invariant.  What a rollback left behind is excepted, part  *)
(* by part.                                                                 *)

Contents == {"on", "off", "user"}
Lives == Stable \cup {"removing", "removed"}
RollingBack == {"rb_routing", "rb_data", "rb_config", "rb_codex", "rb_life", "rb_marker"}
Mems == [before : [File -> Contents], applied : SUBSET Routing, moved : BOOLEAN,
         config : BOOLEAN, codex : BOOLEAN, marked : BOOLEAN, life : Lives \cup {"none"}]
Receipts == [status : {"none", "removing", "removed"}, life : Lives \cup {"none"},
             before : [File -> Contents]]
Counts == [ops : Nat, kills : Nat, raises : Nat, edits : Nat,
           failures : Nat]

DiskTypes ==
  /\ file \in [File -> Contents] /\ home \in {"data", "none", "stray"} /\ saved \in BOOLEAN
  /\ life \in Lives /\ marker \in {"none", "removing", "removed"} /\ receipt \in Receipts
CommandTypes ==
  /\ pc \in {"idle"} \cup Removing \cup RollingBack \cup Recovering \cup Restoring \cup Undoing
  /\ at \in 0..3 /\ (pc = "routing" => at \in 1..3) /\ mem \in Mems
  /\ late \in Late \cup {"none"} /\ written \subseteq File
  /\ failed \subseteq Parts /\ count \in Counts

\* Which command the marker lets run.
MarkerInv ==
  /\ pc \in {"receipt", "marker"} => marker = "none"
  /\ pc \in Removing \ {"receipt", "marker"} => marker = "removing"
  /\ pc \in Removing \cup RollingBack => marker # "removed" /\ (mem.marked => marker = "removing")
  /\ pc \in Removing => (marker = "removing" => mem.marked)
  /\ pc \in Recovering => marker = "removing"
  /\ pc \in Restoring \cup Undoing => marker = "removed"

\* The state kept of the project is one it can be in at rest.
LivesInv ==
  /\ pc \in Removing \cup RollingBack => mem.life \in Stable
  /\ pc \in Removing \ {"receipt"} => receipt.life = mem.life
  /\ marker = "removing" => receipt.life \in Stable

\* A state and files a project can be brought back to: configured, and if it was
\* ready nothing of it was missing.
Sound(state, contents) ==
  /\ state \in Stable /\ contents["config"] # "off"
  /\ state = "ready" => \A f \in File : contents[f] # "off" \/ PartOf(f) \in failed

\* What is kept of the project before a removal.
RecordInv ==
  /\ pc \in Removing \cup RollingBack => Sound(mem.life, mem.before)
  /\ pc \in Removing \ {"receipt"} => receipt.before = mem.before /\ receipt.life = mem.life
  /\ marker = "removing" => Sound(receipt.life, receipt.before)

\* Without a marker nothing was changed yet; the last step before the marker goes
\* has written the state.
LifeInv ==
  /\ pc \in Removing \cup RollingBack /\ marker = "none" =>
       life = mem.life /\ mem.applied = {} /\ ~mem.moved /\ ~mem.config /\ ~mem.codex
  /\ pc \in Removing \cup RollingBack => life \in {mem.life, "removing", "removed"}
  /\ pc = "rb_marker" => life = mem.life \/ {"data", "life"} \cap failed # {}
  /\ pc = "r_marker" => life = receipt.life
  /\ pc = "s_marker" => life = "stopped"

\* Where the data are.
HomeInv ==
  /\ saved <=> home # "data"
  /\ pc \in Removing \cup {"rb_routing", "rb_data"} => (saved <=> mem.moved)
  /\ pc \in {"rb_config", "rb_codex", "rb_life", "rb_marker"} => ~saved \/ "data" \in failed
  /\ pc \in {"r_config", "r_codex", "r_life", "r_marker", "s_config", "s_life", "s_marker"} => ~saved

\* A file the project had and no longer has is one that the rollback, or the
\* recovery, is still going to write, or that a rollback left behind.
Missing(f, contents) == file[f] = "off" /\ contents[f] # "off" /\ PartOf(f) \notin failed
RollbackFiles ==
  /\ pc \in Removing \cup {"rb_routing"} =>
       \A f \in Routing : Missing(f, mem.before) => f \in mem.applied \ written
  /\ pc \in RollingBack \ {"rb_routing"} => \A f \in Routing : ~Missing(f, mem.before)
  /\ pc \in Removing \cup {"rb_routing", "rb_data", "rb_config"} =>
       (file["config"] = "off" => mem.config)
  /\ pc \in {"rb_codex", "rb_life", "rb_marker"} => file["config"] # "off" \/ "config" \in failed
  /\ pc \in Removing \cup (RollingBack \ {"rb_life", "rb_marker"}) =>
       (Missing("codex", mem.before) => mem.codex /\ "codex" \notin written)
  /\ pc \in {"rb_life", "rb_marker"} => ~Missing("codex", mem.before)
  /\ pc \in {"receipt", "marker", "life", "codex"} => ~mem.codex
  /\ pc \in Removing /\ "codex" \in written => file["codex"] = "user"
RecoveryFiles ==
  /\ pc \in Recovering \ {"r_routing"} => \A f \in Routing : ~Missing(f, receipt.before)
  /\ pc \in {"r_routing", "r_data", "r_config"} => (file["config"] = "off" => mem.config)
  /\ pc \in {"r_codex", "r_life", "r_marker"} => file["config"] # "off"
  /\ pc \in {"r_routing", "r_data", "r_config", "r_codex"} =>
       (Missing("codex", receipt.before) => mem.codex)
  /\ pc \in {"r_life", "r_marker"} => ~Missing("codex", receipt.before)

\* A project at rest without a marker.
RestInv ==
  pc = "idle" /\ marker = "none" =>
    /\ ~saved \/ "data" \in failed
    /\ life \in Stable \/ {"data", "life"} \cap failed # {}
    /\ life = "ready" => \A f \in File : file[f] # "off" \/ PartOf(f) \in failed

Types == DiskTypes /\ CommandTypes /\ MarkerInv /\ LivesInv
WholeInv ==
  /\ Types /\ RecordInv /\ LifeInv /\ HomeInv
  /\ RollbackFiles /\ RecoveryFiles /\ RestInv

-----------------------------------------------------------------------------
(* Each part is kept by each step. *)

\* The routing assets, and what the remembered state of no command is.
LEMMA AssetFacts ==
  /\ Len(Assets) = 2 /\ Assets[1] = "rule" /\ Assets[2] = "skill"
  BY DEF Assets

LEMMA NoTypes ==
  /\ NoMem \in Mems /\ NoReceipt \in Receipts
  BY DEF NoMem, NoReceipt, Mems, Receipts, Contents

LEMMA MemSet ==
  ASSUME NEW m \in Mems
  PROVE  /\ [m EXCEPT !.moved = TRUE] \in Mems
         /\ [m EXCEPT !.config = TRUE] \in Mems
  BY DEF Mems

LEMMA MemOf ==
  ASSUME NEW m \in Mems, NEW b \in [File -> Contents]
  PROVE  /\ \A s \in SUBSET Routing : [m EXCEPT !.applied = s, !.before = b] \in Mems
         /\ \A c, x \in BOOLEAN : [m EXCEPT !.before = b, !.config = c, !.codex = x] \in Mems
  BY DEF Mems

LEMMA DiskKept ==
  ASSUME DiskTypes, CommandTypes, MarkerInv, LivesInv, [Next]_vars
  PROVE  DiskTypes'
<1>1. CASE Remove
  BY <1>1, NoTypes, AssetFacts DEF Remove, Count, NoMem, Configured, Stable, DiskTypes,
     CommandTypes, LivesInv, Mems, Receipts, Contents, Lives, File, Routing
<1>2. CASE PublishReceipt
  BY <1>2, NoTypes, AssetFacts DEF PublishReceipt, Step, DiskTypes, CommandTypes,
     LivesInv, Mems, Receipts, Contents, Lives, Stable, File, Routing
<1>3. CASE PublishMarker
  BY <1>3, NoTypes, AssetFacts DEF PublishMarker, Step, DiskTypes, CommandTypes,
     LivesInv, Mems, Receipts, Contents, Lives, Stable, File, Routing
<1>4. CASE PublishRemoving
  BY <1>4, NoTypes, AssetFacts DEF PublishRemoving, Step, DiskTypes, CommandTypes,
     LivesInv, Mems, Receipts, Contents, Lives, Stable, File, Routing
<1>5. CASE RemoveCodex
  BY <1>5, NoTypes, AssetFacts DEF RemoveCodex, Step, Put, DiskTypes, CommandTypes,
     LivesInv, Mems, Receipts, Contents, Lives, Stable, File, Routing
<1>6. CASE RemoveAsset
  BY <1>6, NoTypes, AssetFacts DEF RemoveAsset, Put, After, DiskTypes, CommandTypes,
     LivesInv, Mems, Receipts, Contents, Lives, Stable, File, Routing
<1>7. CASE UnlinkConfig
  BY <1>7, NoTypes, AssetFacts DEF UnlinkConfig, Put, DiskTypes, CommandTypes,
     LivesInv, Mems, Receipts, Contents, Lives, Stable, File, Routing
<1>8. CASE PublishRemoved
  BY <1>8, NoTypes, AssetFacts DEF PublishRemoved, Step, DiskTypes, CommandTypes,
     LivesInv, Mems, Receipts, Contents, Lives, Stable, File, Routing
<1>9. CASE MoveData
  BY <1>9, NoTypes, AssetFacts DEF MoveData, Step, DiskTypes, CommandTypes, LivesInv,
     Mems, Receipts, Contents, Lives, Stable, File, Routing
<1>10. CASE CompleteReceipt
  BY <1>10, NoTypes, AssetFacts DEF CompleteReceipt, Step, DiskTypes, CommandTypes,
     LivesInv, Mems, Receipts, Contents, Lives, Stable, File, Routing
<1>11. CASE CompleteMarker
  BY <1>11, NoTypes, AssetFacts DEF CompleteMarker, Step, NoMem, DiskTypes,
     CommandTypes, LivesInv, Mems, Receipts, Contents, Lives, Stable, File, Routing
<1>12. CASE RollbackRouting("rb_routing", "rb_data")
  BY <1>12, NoTypes, AssetFacts DEF RollbackRouting, Step, DiskTypes, CommandTypes,
     LivesInv, Mems, Receipts, Contents, Lives, Stable, File, Routing
<1>13. CASE RollbackData
  <2>1. home' \in {"data", "none", "stray"} /\ saved' \in BOOLEAN
    BY <1>13 DEF RollbackData, DiskTypes
  <2>. QED
    BY <1>13, <2>1 DEF RollbackData, Step, DiskTypes
<1>14. CASE RollbackConfig
  BY <1>14, NoTypes, AssetFacts DEF RollbackConfig, Step, Put, Configured, DiskTypes,
     CommandTypes, LivesInv, Mems, Receipts, Contents, Lives, Stable, File, Routing
<1>15. CASE RollbackCodex
  BY <1>15, NoTypes, AssetFacts DEF RollbackCodex, Step, Put, DiskTypes, CommandTypes,
     LivesInv, Mems, Receipts, Contents, Lives, Stable, File, Routing
<1>16. CASE RollbackLife
  BY <1>16, NoTypes, AssetFacts DEF RollbackLife, Step, DiskTypes, CommandTypes,
     LivesInv, Mems, Receipts, Contents, Lives, Stable, File, Routing, RollingBack
<1>17. CASE RollbackMarker
  BY <1>17, NoTypes, AssetFacts DEF RollbackMarker, Step, NoMem, DiskTypes,
     CommandTypes, LivesInv, Mems, Receipts, Contents, Lives, Stable, File, Routing
<1>18. CASE RollbackRouting("u_routing", "u_life")
  BY <1>18, NoTypes, AssetFacts DEF RollbackRouting, Step, DiskTypes, CommandTypes,
     LivesInv, Mems, Receipts, Contents, Lives, Stable, File, Routing
<1>19. CASE UndoLife
  BY <1>19, NoTypes, AssetFacts DEF UndoLife, Step, DiskTypes, CommandTypes, LivesInv,
     Mems, Receipts, Contents, Lives, Stable, File, Routing
<1>20. CASE UndoConfig
  BY <1>20, NoTypes, AssetFacts DEF UndoConfig, Step, Put, DiskTypes, CommandTypes,
     LivesInv, Mems, Receipts, Contents, Lives, Stable, File, Routing
<1>21. CASE UndoData
  <2>1. home' \in {"data", "none", "stray"} /\ saved' \in BOOLEAN
    BY <1>21 DEF UndoData, DiskTypes
  <2>. QED
    BY <1>21, <2>1 DEF UndoData, Step, DiskTypes
<1>22. CASE Recover
  BY <1>22, NoTypes, AssetFacts DEF Recover, Recoverable, Known, Original, NoMem,
     DiskTypes, CommandTypes, LivesInv, Mems, Receipts, Contents, Lives, Stable, File,
     Routing
<1>23. CASE RecoverRouting
  BY <1>23, NoTypes, AssetFacts DEF RecoverRouting, Known, Original, DiskTypes,
     CommandTypes, LivesInv, Mems, Receipts, Contents, Lives, Stable, File, Routing
<1>24. CASE RecoverData
  BY <1>24, NoTypes, AssetFacts, ZenonT(40) DEF RecoverData, DiskTypes, CommandTypes, LivesInv,
     Mems, Receipts, Contents, Lives, Stable, File, Routing
<1>25. CASE RecoverConfig
  BY <1>25, NoTypes, AssetFacts DEF RecoverConfig, Step, Put, Original, DiskTypes,
     CommandTypes, LivesInv, Mems, Receipts, Contents, Lives, Stable, File, Routing
<1>26. CASE RecoverCodex
  BY <1>26, NoTypes, AssetFacts DEF RecoverCodex, Step, Put, Original, DiskTypes,
     CommandTypes, LivesInv, Mems, Receipts, Contents, Lives, Stable, File, Routing
<1>27. CASE RecoverLife
  BY <1>27, NoTypes, AssetFacts DEF RecoverLife, Step, DiskTypes, CommandTypes,
     LivesInv, Mems, Receipts, Contents, Lives, Stable, File, Routing, MarkerInv,
     Recovering
<1>28. CASE RecoverMarker
  BY <1>28, NoTypes, AssetFacts DEF RecoverMarker, Step, NoReceipt, DiskTypes,
     CommandTypes, LivesInv, Mems, Receipts, Contents, Lives, Stable, File, Routing
<1>29. CASE Restore
  BY <1>29, NoTypes, AssetFacts DEF Restore, Count, NoMem, Configured, DiskTypes,
     CommandTypes, LivesInv, Mems, Receipts, Contents, Lives, Stable, File, Routing
<1>30. CASE RestoreRouting
  BY <1>30, NoTypes, AssetFacts DEF RestoreRouting, Original, Removed, DiskTypes,
     CommandTypes, LivesInv, Mems, Receipts, Contents, Lives, Stable, File, Routing
<1>31. CASE RestoreData
  BY <1>31, NoTypes, AssetFacts, ZenonT(40) DEF RestoreData, DiskTypes, CommandTypes, LivesInv,
     Mems, Receipts, Contents, Lives, Stable, File, Routing
<1>32. CASE RestoreConfig
  BY <1>32, NoTypes, AssetFacts DEF RestoreConfig, Configured, Put, Original,
     DiskTypes, CommandTypes, LivesInv, Mems, Receipts, Contents, Lives, Stable, File,
     Routing
<1>33. CASE RestoreLife
  BY <1>33, NoTypes, AssetFacts DEF RestoreLife, DiskTypes, CommandTypes,
     LivesInv, Mems, Receipts, Contents, Lives, Stable, File, Routing
<1>34. CASE RestoreMarker
  BY <1>34, NoTypes, AssetFacts DEF RestoreMarker, Step, NoMem, DiskTypes,
     CommandTypes, LivesInv, Mems, Receipts, Contents, Lives, Stable, File, Routing
<1>35. CASE Enable
  BY <1>35, NoTypes, AssetFacts DEF Enable, Configured, DiskTypes, CommandTypes,
     LivesInv, Mems, Receipts, Contents, Lives, Stable, File, Routing
<1>36. CASE Raise
  BY <1>36, NoTypes, AssetFacts DEF Raise, Count, Removing, Restoring, DiskTypes,
     CommandTypes, LivesInv, Mems, Receipts, Contents, Lives, Stable, File, Routing
<1>37. CASE Kill
  BY <1>37, NoTypes, AssetFacts DEF Kill, Count, NoMem, Restoring, Undoing, DiskTypes,
     CommandTypes, LivesInv, Mems, Receipts, Contents, Lives, Stable, File, Routing
<1>38. ASSUME NEW f \in File, Edit(f) PROVE DiskTypes'
  BY <1>38, NoTypes, AssetFacts DEF Edit, Count, Put, Recovering, DiskTypes,
     CommandTypes, LivesInv, Mems, Receipts, Contents, Lives, Stable, File, Routing
<1>39. ASSUME NEW p \in Late, Check(p) PROVE DiskTypes'
  BY <1>39, NoTypes, AssetFacts DEF Check, DiskTypes, CommandTypes, LivesInv, Mems,
     Receipts, Contents, Lives, Stable, File, Routing
<1>40. CASE TakeLease
  BY <1>40, NoTypes, AssetFacts DEF TakeLease, DiskTypes, CommandTypes, LivesInv, Mems,
     Receipts, Contents, Lives, Stable, File, Routing
<1>41. CASE UNCHANGED vars
  BY <1>41, NoTypes, AssetFacts DEF vars, DiskTypes, CommandTypes, LivesInv, Mems,
     Receipts, Contents, Lives, Stable, File, Routing
<1>42. CASE RaiseUnrecorded
  BY <1>42, NoTypes, AssetFacts DEF RaiseUnrecorded, Count, Put, Configured, Removing,
     Restoring, DiskTypes,
     CommandTypes, LivesInv, Mems, Receipts, Contents, Lives, Stable, File, Routing
<1>43. CASE RollbackRaises
  BY <1>43, NoTypes, AssetFacts DEF RollbackRaises, LeavesAssets, Leaves, Step, Count,
     NoMem, Removing, Restoring, DiskTypes,
     CommandTypes, LivesInv, Mems, Receipts, Contents, Lives, Stable, File, Routing
<1>. QED
  BY <1>1, <1>2, <1>3, <1>4, <1>5, <1>6, <1>7, <1>8, <1>9, <1>10, <1>11, <1>12, <1>13,
     <1>14, <1>15, <1>16, <1>17, <1>18, <1>19, <1>20, <1>21, <1>22, <1>23, <1>24,
     <1>25, <1>26, <1>27, <1>28, <1>29, <1>30, <1>31, <1>32, <1>33, <1>34, <1>35,
     <1>36, <1>37, <1>38, <1>39, <1>40, <1>41, <1>42, <1>43 DEF Next, RemoveStep, RollbackStep,
     RecoverStep, RestoreStep

LEMMA CommandKept ==
  ASSUME DiskTypes, CommandTypes, [Next]_vars
  PROVE  CommandTypes'
<1>1. CASE Remove
  <2>1. mem' \in Mems
    BY <1>1, NoTypes DEF Remove, NoMem, DiskTypes, CommandTypes, Mems, Contents, Lives, Stable, File,
       Routing
  <2>2. pc' \in {"idle"} \cup Removing \cup RollingBack \cup Recovering \cup Restoring \cup Undoing
    BY <1>1 DEF Remove, Count, CommandTypes, Removing, RollingBack, Recovering, Restoring, Undoing
  <2>3. at' \in 0..3 /\ (pc' = "routing" => at' \in 1..3) /\ count' \in Counts
    BY <1>1 DEF Remove, Count, CommandTypes, Counts
  <2>. QED
    BY <1>1, <2>1, <2>2, <2>3 DEF Remove, Count, CommandTypes
<1>2. CASE PublishReceipt
  BY <1>2, NoTypes, AssetFacts DEF PublishReceipt, Step, DiskTypes, CommandTypes, Mems,
     Receipts, Counts, Parts, PartOf, Contents, Lives, Stable, File, Routing, Removing, RollingBack,
     Recovering, Restoring, Undoing
<1>3. CASE PublishMarker
  BY <1>3, NoTypes, AssetFacts DEF PublishMarker, Step, DiskTypes, CommandTypes, Mems,
     Receipts, Counts, Parts, PartOf, Contents, Lives, Stable, File, Routing, Removing, RollingBack,
     Recovering, Restoring, Undoing
<1>4. CASE PublishRemoving
  BY <1>4, NoTypes, AssetFacts DEF PublishRemoving, Step, DiskTypes, CommandTypes,
     Mems, Receipts, Counts, Parts, PartOf, Contents, Lives, Stable, File, Routing, Removing,
     RollingBack, Recovering, Restoring, Undoing
<1>5. CASE RemoveCodex
  <2>1. mem' \in Mems
    BY <1>5, NoTypes DEF RemoveCodex, DiskTypes, CommandTypes, Mems, Contents, Lives, Stable, File,
       Routing
  <2>2. pc' \in {"idle"} \cup Removing \cup RollingBack \cup Recovering \cup Restoring \cup Undoing
    BY <1>5 DEF RemoveCodex, Step, CommandTypes, Removing, RollingBack, Recovering, Restoring, Undoing
  <2>3. at' \in 0..3 /\ (pc' = "routing" => at' \in 1..3) /\ count' \in Counts
    BY <1>5 DEF RemoveCodex, Step, CommandTypes, Counts
  <2>. QED
    BY <1>5, <2>1, <2>2, <2>3 DEF RemoveCodex, Step, CommandTypes
<1>6. CASE RemoveAsset
  BY <1>6, NoTypes, AssetFacts DEF RemoveAsset, Put, After, DiskTypes, CommandTypes,
     Mems, Receipts, Counts, Parts, PartOf, Contents, Lives, Stable, File, Routing, Removing,
     RollingBack, Recovering, Restoring, Undoing
<1>7. CASE UnlinkConfig
  <2>1. mem' \in Mems
    BY <1>7, MemSet DEF UnlinkConfig, CommandTypes
  <2>2. pc' \in {"idle"} \cup Removing \cup RollingBack \cup Recovering \cup Restoring \cup Undoing
    BY <1>7 DEF UnlinkConfig, CommandTypes, Removing, RollingBack, Recovering, Restoring, Undoing
  <2>3. at' \in 0..3 /\ (pc' = "routing" => at' \in 1..3) /\ count' \in Counts
    BY <1>7 DEF UnlinkConfig, CommandTypes, Counts
  <2>. QED
    BY <1>7, <2>1, <2>2, <2>3 DEF UnlinkConfig, CommandTypes
<1>8. CASE PublishRemoved
  BY <1>8, NoTypes, AssetFacts DEF PublishRemoved, Step, DiskTypes, CommandTypes, Mems,
     Receipts, Counts, Parts, PartOf, Contents, Lives, Stable, File, Routing, Removing, RollingBack,
     Recovering, Restoring, Undoing
<1>9. CASE MoveData
  BY <1>9, NoTypes, AssetFacts DEF MoveData, Step, DiskTypes, CommandTypes, Mems,
     Receipts, Counts, Parts, PartOf, Contents, Lives, Stable, File, Routing, Removing, RollingBack,
     Recovering, Restoring, Undoing
<1>10. CASE CompleteReceipt
  BY <1>10, NoTypes, AssetFacts DEF CompleteReceipt, Step, DiskTypes, CommandTypes,
     Mems, Receipts, Counts, Parts, PartOf, Contents, Lives, Stable, File, Routing, Removing,
     RollingBack, Recovering, Restoring, Undoing
<1>11. CASE CompleteMarker
  BY <1>11, NoTypes, AssetFacts DEF CompleteMarker, Step, NoMem, DiskTypes,
     CommandTypes, Mems, Receipts, Counts, Parts, PartOf, Contents, Lives, Stable, File, Routing,
     Removing, RollingBack, Recovering, Restoring, Undoing
<1>12. CASE RollbackRouting("rb_routing", "rb_data")
  BY <1>12, NoTypes, AssetFacts DEF RollbackRouting, Step, DiskTypes, CommandTypes,
     Mems, Receipts, Counts, Parts, PartOf, Contents, Lives, Stable, File, Routing, Removing,
     RollingBack, Recovering, Restoring, Undoing
<1>13. CASE RollbackData
  BY <1>13, NoTypes, AssetFacts DEF RollbackData, Step, DiskTypes, CommandTypes, Mems,
     Receipts, Counts, Parts, PartOf, Contents, Lives, Stable, File, Routing, Removing, RollingBack,
     Recovering, Restoring, Undoing
<1>14. CASE RollbackConfig
  BY <1>14, NoTypes, AssetFacts DEF RollbackConfig, Step, Put, Configured, DiskTypes,
     CommandTypes, Mems, Receipts, Counts, Parts, PartOf, Contents, Lives, Stable, File, Routing,
     Removing, RollingBack, Recovering, Restoring, Undoing
<1>15. CASE RollbackCodex
  BY <1>15, NoTypes, AssetFacts DEF RollbackCodex, Step, Put, DiskTypes, CommandTypes,
     Mems, Receipts, Counts, Parts, PartOf, Contents, Lives, Stable, File, Routing, Removing,
     RollingBack, Recovering, Restoring, Undoing
<1>16. CASE RollbackLife
  BY <1>16, NoTypes, AssetFacts DEF RollbackLife, Step, DiskTypes, CommandTypes, Mems,
     Receipts, Counts, Parts, PartOf, Contents, Lives, Stable, File, Routing, Removing, RollingBack,
     Recovering, Restoring, Undoing
<1>17. CASE RollbackMarker
  BY <1>17, NoTypes, AssetFacts DEF RollbackMarker, Step, NoMem, DiskTypes,
     CommandTypes, Mems, Receipts, Counts, Parts, PartOf, Contents, Lives, Stable, File, Routing,
     Removing, RollingBack, Recovering, Restoring, Undoing
<1>18. CASE RollbackRouting("u_routing", "u_life")
  BY <1>18, NoTypes, AssetFacts DEF RollbackRouting, Step, DiskTypes, CommandTypes,
     Mems, Receipts, Counts, Parts, PartOf, Contents, Lives, Stable, File, Routing, Removing,
     RollingBack, Recovering, Restoring, Undoing
<1>19. CASE UndoLife
  BY <1>19, NoTypes, AssetFacts DEF UndoLife, Step, DiskTypes, CommandTypes, Mems,
     Receipts, Counts, Parts, PartOf, Contents, Lives, Stable, File, Routing, Removing, RollingBack,
     Recovering, Restoring, Undoing
<1>20. CASE UndoConfig
  BY <1>20, NoTypes, AssetFacts DEF UndoConfig, Step, Put, DiskTypes, CommandTypes,
     Mems, Receipts, Counts, Parts, PartOf, Contents, Lives, Stable, File, Routing, Removing,
     RollingBack, Recovering, Restoring, Undoing
<1>21. CASE UndoData
  BY <1>21, NoTypes, AssetFacts DEF UndoData, Step, NoMem, DiskTypes, CommandTypes,
     Mems, Receipts, Counts, Parts, PartOf, Contents, Lives, Stable, File, Routing, Removing,
     RollingBack, Recovering, Restoring, Undoing
<1>22. CASE Recover
  <2>1. mem' \in Mems
    <3>1. receipt.before \in [File -> Contents]
      BY DEF DiskTypes, Receipts
    <3>2. (file["config"] = "off") \in BOOLEAN /\ (file["codex"] # Original("codex")) \in BOOLEAN
      OBVIOUS
    <3> DEFINE c == file["config"] = "off"
               x == file["codex"] # Original("codex")
    <3>3. [NoMem EXCEPT !.before = receipt.before, !.config = c, !.codex = x] \in Mems
      BY NoTypes, MemOf, <3>1, <3>2
    <3>. QED
      BY <1>22, <3>3 DEF Recover, CommandTypes
  <2>2. pc' \in {"idle"} \cup Removing \cup RollingBack \cup Recovering \cup Restoring \cup Undoing
    BY <1>22 DEF Recover, CommandTypes, Removing, RollingBack, Recovering, Restoring, Undoing
  <2>3. at' \in 0..3 /\ (pc' = "routing" => at' \in 1..3) /\ count' \in Counts
    BY <1>22 DEF Recover, CommandTypes, Counts
  <2>. QED
    BY <1>22, <2>1, <2>2, <2>3 DEF Recover, CommandTypes
<1>23. CASE RecoverRouting
  BY <1>23, NoTypes, AssetFacts DEF RecoverRouting, Known, Original, DiskTypes,
     CommandTypes, Mems, Receipts, Counts, Parts, PartOf, Contents, Lives, Stable, File, Routing,
     Removing, RollingBack, Recovering, Restoring, Undoing
<1>24. CASE RecoverData
  BY <1>24, NoTypes, AssetFacts DEF RecoverData, DiskTypes, CommandTypes, Mems,
     Receipts, Counts, Parts, PartOf, Contents, Lives, Stable, File, Routing, Removing, RollingBack,
     Recovering, Restoring, Undoing
<1>25. CASE RecoverConfig
  BY <1>25, NoTypes, AssetFacts DEF RecoverConfig, Step, Put, Original, DiskTypes,
     CommandTypes, Mems, Receipts, Counts, Parts, PartOf, Contents, Lives, Stable, File, Routing,
     Removing, RollingBack, Recovering, Restoring, Undoing
<1>26. CASE RecoverCodex
  BY <1>26, NoTypes, AssetFacts DEF RecoverCodex, Step, Put, Original, DiskTypes,
     CommandTypes, Mems, Receipts, Counts, Parts, PartOf, Contents, Lives, Stable, File, Routing,
     Removing, RollingBack, Recovering, Restoring, Undoing
<1>27. CASE RecoverLife
  BY <1>27, NoTypes, AssetFacts DEF RecoverLife, Step, DiskTypes, CommandTypes, Mems,
     Receipts, Counts, Parts, PartOf, Contents, Lives, Stable, File, Routing, Removing, RollingBack,
     Recovering, Restoring, Undoing
<1>28. CASE RecoverMarker
  BY <1>28, NoTypes, AssetFacts DEF RecoverMarker, Step, NoReceipt, DiskTypes,
     CommandTypes, Mems, Receipts, Counts, Parts, PartOf, Contents, Lives, Stable, File, Routing,
     Removing, RollingBack, Recovering, Restoring, Undoing
<1>29. CASE Restore
  BY <1>29, NoTypes, AssetFacts DEF Restore, Count, NoMem, Configured, DiskTypes,
     CommandTypes, Mems, Receipts, Counts, Parts, PartOf, Contents, Lives, Stable, File, Routing,
     Removing, RollingBack, Recovering, Restoring, Undoing
<1>30. CASE RestoreRouting
  <2>1. mem' \in Mems
    <3>1. [f \in File |-> Removed(f)] \in [File -> Contents]
      BY DEF DiskTypes, Receipts, Removed, Original, Contents
    <3>2. {f \in Routing : Original(f) # Removed(f)} \in SUBSET Routing
      OBVIOUS
    <3> DEFINE s == {f \in Routing : Original(f) # Removed(f)}
               b == [f \in File |-> Removed(f)]
    <3>3. mem \in Mems
      BY DEF CommandTypes
    <3>4. [mem EXCEPT !.applied = s, !.before = b] \in Mems
      BY MemOf, <3>1, <3>2, <3>3
    <3>. QED
      BY <1>30, <3>3, <3>4 DEF RestoreRouting
  <2>2. pc' \in {"idle"} \cup Removing \cup RollingBack \cup Recovering \cup Restoring \cup Undoing
    BY <1>30 DEF RestoreRouting, CommandTypes, Removing, RollingBack, Recovering, Restoring, Undoing
  <2>3. at' \in 0..3 /\ (pc' = "routing" => at' \in 1..3) /\ count' \in Counts
    BY <1>30 DEF RestoreRouting, CommandTypes, Counts
  <2>. QED
    BY <1>30, <2>1, <2>2, <2>3 DEF RestoreRouting, CommandTypes
<1>31. CASE RestoreData
  <2>1. mem' \in Mems
    BY <1>31, MemSet DEF RestoreData, CommandTypes
  <2>2. pc' \in {"idle"} \cup Removing \cup RollingBack \cup Recovering \cup Restoring \cup Undoing
    BY <1>31 DEF RestoreData, CommandTypes, Removing, RollingBack, Recovering, Restoring, Undoing
  <2>3. at' \in 0..3 /\ (pc' = "routing" => at' \in 1..3) /\ count' \in Counts
    BY <1>31 DEF RestoreData, CommandTypes, Counts
  <2>. QED
    BY <1>31, <2>1, <2>2, <2>3 DEF RestoreData, CommandTypes
<1>32. CASE RestoreConfig
  <2>1. mem' \in Mems
    BY <1>32, MemSet DEF RestoreConfig, CommandTypes
  <2>2. pc' \in {"idle"} \cup Removing \cup RollingBack \cup Recovering \cup Restoring \cup Undoing
    BY <1>32 DEF RestoreConfig, CommandTypes, Removing, RollingBack, Recovering, Restoring, Undoing
  <2>3. at' \in 0..3 /\ (pc' = "routing" => at' \in 1..3) /\ count' \in Counts
    BY <1>32 DEF RestoreConfig, CommandTypes, Counts
  <2>. QED
    BY <1>32, <2>1, <2>2, <2>3 DEF RestoreConfig, CommandTypes
<1>33. CASE RestoreLife
  BY <1>33, NoTypes, AssetFacts DEF RestoreLife, DiskTypes, CommandTypes, Mems,
     Receipts, Counts, Parts, PartOf, Contents, Lives, Stable, File, Routing, Removing, RollingBack,
     Recovering, Restoring, Undoing
<1>34. CASE RestoreMarker
  BY <1>34, NoTypes, AssetFacts DEF RestoreMarker, Step, NoMem, DiskTypes,
     CommandTypes, Mems, Receipts, Counts, Parts, PartOf, Contents, Lives, Stable, File, Routing,
     Removing, RollingBack, Recovering, Restoring, Undoing
<1>35. CASE Enable
  BY <1>35, NoTypes, AssetFacts DEF Enable, Configured, DiskTypes, CommandTypes, Mems,
     Receipts, Counts, Parts, PartOf, Contents, Lives, Stable, File, Routing, Removing, RollingBack,
     Recovering, Restoring, Undoing
<1>36. CASE Raise
  BY <1>36, NoTypes, AssetFacts DEF Raise, Count, Removing, Restoring, DiskTypes,
     CommandTypes, Mems, Receipts, Counts, Parts, PartOf, Contents, Lives, Stable, File, Routing,
     RollingBack, Recovering, Undoing
<1>37. CASE Kill
  BY <1>37, NoTypes, AssetFacts DEF Kill, Count, NoMem, Restoring, Undoing, DiskTypes,
     CommandTypes, Mems, Receipts, Counts, Parts, PartOf, Contents, Lives, Stable, File, Routing,
     Removing, RollingBack, Recovering
<1>38. ASSUME NEW f \in File, Edit(f) PROVE CommandTypes'
  BY <1>38, NoTypes, AssetFacts DEF Edit, Count, Put, Recovering, DiskTypes,
     CommandTypes, Mems, Receipts, Counts, Parts, PartOf, Contents, Lives, Stable, File, Routing,
     Removing, RollingBack, Restoring, Undoing
<1>39. ASSUME NEW p \in Late, Check(p) PROVE CommandTypes'
  BY <1>39, NoTypes, AssetFacts DEF Check, DiskTypes, CommandTypes, Mems, Receipts,
     Counts, Parts, PartOf, Contents, Lives, Stable, File, Routing, Removing, RollingBack, Recovering,
     Restoring, Undoing
<1>40. CASE TakeLease
  BY <1>40, NoTypes, AssetFacts DEF TakeLease, DiskTypes, CommandTypes, Mems, Receipts,
     Counts, Parts, PartOf, Contents, Lives, Stable, File, Routing, Removing, RollingBack, Recovering,
     Restoring, Undoing
<1>41. CASE UNCHANGED vars
  BY <1>41, NoTypes, AssetFacts DEF vars, DiskTypes, CommandTypes, Mems, Receipts,
     Counts, Parts, PartOf, Contents, Lives, Stable, File, Routing, Removing, RollingBack, Recovering,
     Restoring, Undoing
<1>42. CASE RaiseUnrecorded
  <2>1. pc' \in RollingBack \cup Undoing /\ failed' \subseteq Parts
    BY <1>42 DEF RaiseUnrecorded, CommandTypes, Parts, RollingBack, Undoing
  <2>2. count' \in Counts
    BY <1>42 DEF RaiseUnrecorded, Count, CommandTypes, Counts
  <2>. QED
    BY <1>42, <2>1, <2>2 DEF RaiseUnrecorded, CommandTypes, RollingBack, Undoing
<1>43. CASE RollbackRaises
  <2>1. /\ pc' \in {"idle"} \cup RollingBack \cup Undoing /\ pc' # "routing"
        /\ failed' \subseteq Parts /\ mem' \in Mems
    BY <1>43, NoTypes DEF RollbackRaises, LeavesAssets, Leaves, Step, CommandTypes, Parts,
       RollingBack, Undoing
  <2>2. count' \in Counts
    BY <1>43 DEF RollbackRaises, Count, CommandTypes, Counts
  <2>. QED
    BY <1>43, <2>1, <2>2 DEF RollbackRaises, CommandTypes
<1>. QED
  BY <1>1, <1>2, <1>3, <1>4, <1>5, <1>6, <1>7, <1>8, <1>9, <1>10, <1>11, <1>12, <1>13,
     <1>14, <1>15, <1>16, <1>17, <1>18, <1>19, <1>20, <1>21, <1>22, <1>23, <1>24,
     <1>25, <1>26, <1>27, <1>28, <1>29, <1>30, <1>31, <1>32, <1>33, <1>34, <1>35,
     <1>36, <1>37, <1>38, <1>39, <1>40, <1>41, <1>42, <1>43 DEF Next, RemoveStep, RollbackStep,
     RecoverStep, RestoreStep

LEMMA MarkerKept ==
  ASSUME CommandTypes, DiskTypes, MarkerInv, [Next]_vars
  PROVE  MarkerInv'
<1>1. CASE Remove
  BY <1>1 DEF Remove, Count, NoMem, Configured, Stable, DiskTypes, CommandTypes, Mems,
     MarkerInv, Removing, RollingBack, Recovering, Restoring, Undoing
<1>2. CASE PublishReceipt
  BY <1>2 DEF PublishReceipt, Step, DiskTypes, CommandTypes, Mems, MarkerInv, Removing,
     RollingBack, Recovering, Restoring, Undoing
<1>3. CASE PublishMarker
  BY <1>3 DEF PublishMarker, Step, DiskTypes, CommandTypes, Mems, MarkerInv, Removing,
     RollingBack, Recovering, Restoring, Undoing
<1>4. CASE PublishRemoving
  BY <1>4 DEF PublishRemoving, Step, DiskTypes, CommandTypes, Mems, MarkerInv,
     Removing, RollingBack, Recovering, Restoring, Undoing
<1>5. CASE RemoveCodex
  BY <1>5 DEF RemoveCodex, Step, Put, DiskTypes, CommandTypes, Mems, MarkerInv,
     Removing, RollingBack, Recovering, Restoring, Undoing
<1>6. CASE RemoveAsset
  BY <1>6 DEF RemoveAsset, Put, After, DiskTypes, CommandTypes, Mems, MarkerInv,
     Removing, RollingBack, Recovering, Restoring, Undoing
<1>7. CASE UnlinkConfig
  BY <1>7 DEF UnlinkConfig, Put, DiskTypes, CommandTypes, Mems, MarkerInv, Removing,
     RollingBack, Recovering, Restoring, Undoing
<1>8. CASE PublishRemoved
  BY <1>8 DEF PublishRemoved, Step, DiskTypes, CommandTypes, Mems, MarkerInv, Removing,
     RollingBack, Recovering, Restoring, Undoing
<1>9. CASE MoveData
  BY <1>9 DEF MoveData, Step, DiskTypes, CommandTypes, Mems, MarkerInv, Removing,
     RollingBack, Recovering, Restoring, Undoing
<1>10. CASE CompleteReceipt
  BY <1>10 DEF CompleteReceipt, Step, DiskTypes, CommandTypes, Mems, MarkerInv,
     Removing, RollingBack, Recovering, Restoring, Undoing
<1>11. CASE CompleteMarker
  BY <1>11 DEF CompleteMarker, Step, NoMem, DiskTypes, CommandTypes, Mems, MarkerInv,
     Removing, RollingBack, Recovering, Restoring, Undoing
<1>12. CASE RollbackRouting("rb_routing", "rb_data")
  BY <1>12 DEF RollbackRouting, Step, DiskTypes, CommandTypes, Mems, MarkerInv,
     Removing, RollingBack, Recovering, Restoring, Undoing
<1>13. CASE RollbackData
  BY <1>13 DEF RollbackData, Step, DiskTypes, CommandTypes, Mems, MarkerInv, Removing,
     RollingBack, Recovering, Restoring, Undoing
<1>14. CASE RollbackConfig
  BY <1>14 DEF RollbackConfig, Step, Put, Configured, DiskTypes, CommandTypes, Mems,
     MarkerInv, Removing, RollingBack, Recovering, Restoring, Undoing
<1>15. CASE RollbackCodex
  BY <1>15 DEF RollbackCodex, Step, Put, DiskTypes, CommandTypes, Mems, MarkerInv,
     Removing, RollingBack, Recovering, Restoring, Undoing
<1>16. CASE RollbackLife
  BY <1>16 DEF RollbackLife, Step, DiskTypes, CommandTypes, Mems, MarkerInv, Removing,
     RollingBack, Recovering, Restoring, Undoing
<1>17. CASE RollbackMarker
  BY <1>17 DEF RollbackMarker, Step, NoMem, DiskTypes, CommandTypes, Mems, MarkerInv,
     Removing, RollingBack, Recovering, Restoring, Undoing
<1>18. CASE RollbackRouting("u_routing", "u_life")
  BY <1>18 DEF RollbackRouting, Step, DiskTypes, CommandTypes, Mems, MarkerInv,
     Removing, RollingBack, Recovering, Restoring, Undoing
<1>19. CASE UndoLife
  BY <1>19 DEF UndoLife, Step, DiskTypes, CommandTypes, Mems, MarkerInv, Removing,
     RollingBack, Recovering, Restoring, Undoing
<1>20. CASE UndoConfig
  BY <1>20 DEF UndoConfig, Step, Put, DiskTypes, CommandTypes, Mems, MarkerInv,
     Removing, RollingBack, Recovering, Restoring, Undoing
<1>21. CASE UndoData
  BY <1>21 DEF UndoData, Step, NoMem, DiskTypes, CommandTypes, Mems, MarkerInv,
     Removing, RollingBack, Recovering, Restoring, Undoing
<1>22. CASE Recover
  BY <1>22 DEF Recover, Recoverable, Known, Original, NoMem, DiskTypes, CommandTypes,
     Mems, MarkerInv, Removing, RollingBack, Recovering, Restoring, Undoing
<1>23. CASE RecoverRouting
  BY <1>23 DEF RecoverRouting, Known, Original, DiskTypes, CommandTypes, Mems,
     MarkerInv, Removing, RollingBack, Recovering, Restoring, Undoing
<1>24. CASE RecoverData
  BY <1>24 DEF RecoverData, DiskTypes, CommandTypes, Mems, MarkerInv, Removing,
     RollingBack, Recovering, Restoring, Undoing
<1>25. CASE RecoverConfig
  BY <1>25 DEF RecoverConfig, Step, Put, Original, DiskTypes, CommandTypes, Mems,
     MarkerInv, Removing, RollingBack, Recovering, Restoring, Undoing
<1>26. CASE RecoverCodex
  BY <1>26 DEF RecoverCodex, Step, Put, Original, DiskTypes, CommandTypes, Mems,
     MarkerInv, Removing, RollingBack, Recovering, Restoring, Undoing
<1>27. CASE RecoverLife
  BY <1>27 DEF RecoverLife, Step, DiskTypes, CommandTypes, Mems, MarkerInv, Removing,
     RollingBack, Recovering, Restoring, Undoing
<1>28. CASE RecoverMarker
  BY <1>28 DEF RecoverMarker, Step, NoReceipt, DiskTypes, CommandTypes, Mems,
     MarkerInv, Removing, RollingBack, Recovering, Restoring, Undoing
<1>29. CASE Restore
  BY <1>29 DEF Restore, Count, NoMem, Configured, DiskTypes, CommandTypes, Mems,
     MarkerInv, Removing, RollingBack, Recovering, Restoring, Undoing
<1>30. CASE RestoreRouting
  BY <1>30 DEF RestoreRouting, Original, Removed, DiskTypes, CommandTypes, Mems,
     MarkerInv, Removing, RollingBack, Recovering, Restoring, Undoing
<1>31. CASE RestoreData
  BY <1>31 DEF RestoreData, DiskTypes, CommandTypes, Mems, MarkerInv, Removing,
     RollingBack, Recovering, Restoring, Undoing
<1>32. CASE RestoreConfig
  BY <1>32 DEF RestoreConfig, Configured, Put, Original, DiskTypes, CommandTypes, Mems,
     MarkerInv, Removing, RollingBack, Recovering, Restoring, Undoing
<1>33. CASE RestoreLife
  BY <1>33 DEF RestoreLife, DiskTypes, CommandTypes, Mems, MarkerInv, Removing,
     RollingBack, Recovering, Restoring, Undoing
<1>34. CASE RestoreMarker
  BY <1>34 DEF RestoreMarker, Step, NoMem, DiskTypes, CommandTypes, Mems, MarkerInv,
     Removing, RollingBack, Recovering, Restoring, Undoing
<1>35. CASE Enable
  BY <1>35 DEF Enable, Configured, DiskTypes, CommandTypes, Mems, MarkerInv, Removing,
     RollingBack, Recovering, Restoring, Undoing
<1>36. CASE Raise
  BY <1>36 DEF Raise, Count, Removing, Restoring, DiskTypes, CommandTypes, Mems,
     MarkerInv, RollingBack, Recovering, Undoing
<1>37. CASE Kill
  BY <1>37 DEF Kill, Count, NoMem, Restoring, Undoing, DiskTypes, CommandTypes, Mems,
     MarkerInv, Removing, RollingBack, Recovering
<1>38. ASSUME NEW f \in File, Edit(f) PROVE MarkerInv'
  BY <1>38 DEF Edit, Count, Put, Recovering, DiskTypes, CommandTypes, Mems, MarkerInv,
     Removing, RollingBack, Restoring, Undoing
<1>39. ASSUME NEW p \in Late, Check(p) PROVE MarkerInv'
  BY <1>39 DEF Check, DiskTypes, CommandTypes, Mems, MarkerInv, Removing, RollingBack,
     Recovering, Restoring, Undoing
<1>40. CASE TakeLease
  BY <1>40 DEF TakeLease, DiskTypes, CommandTypes, Mems, MarkerInv, Removing,
     RollingBack, Recovering, Restoring, Undoing
<1>41. CASE UNCHANGED vars
  BY <1>41 DEF vars, DiskTypes, CommandTypes, Mems, MarkerInv, Removing, RollingBack,
     Recovering, Restoring, Undoing
<1>42. CASE RaiseUnrecorded
  BY <1>42 DEF RaiseUnrecorded, Count, Put, Configured, Removing, Restoring, DiskTypes,
     CommandTypes, Mems,
     MarkerInv, RollingBack, Recovering, Undoing
<1>43. CASE RollbackRaises
  BY <1>43 DEF RollbackRaises, LeavesAssets, Leaves, Step, Count, NoMem, Removing,
     Restoring, DiskTypes, CommandTypes, Mems,
     MarkerInv, RollingBack, Recovering, Undoing
<1>. QED
  BY <1>1, <1>2, <1>3, <1>4, <1>5, <1>6, <1>7, <1>8, <1>9, <1>10, <1>11, <1>12, <1>13,
     <1>14, <1>15, <1>16, <1>17, <1>18, <1>19, <1>20, <1>21, <1>22, <1>23, <1>24,
     <1>25, <1>26, <1>27, <1>28, <1>29, <1>30, <1>31, <1>32, <1>33, <1>34, <1>35,
     <1>36, <1>37, <1>38, <1>39, <1>40, <1>41, <1>42, <1>43 DEF Next, RemoveStep, RollbackStep,
     RecoverStep, RestoreStep

LEMMA LivesKept ==
  ASSUME CommandTypes, DiskTypes, MarkerInv, LivesInv, [Next]_vars
  PROVE  LivesInv'
<1>1. CASE Remove
  BY <1>1 DEF Remove, Count, NoMem, Configured, Stable, DiskTypes, CommandTypes, Mems,
     Receipts, MarkerInv, LivesInv, Removing, RollingBack, Recovering, Restoring,
     Undoing
<1>2. CASE PublishReceipt
  BY <1>2 DEF PublishReceipt, Step, DiskTypes, CommandTypes, Mems, Receipts, MarkerInv,
     LivesInv, Removing, RollingBack, Recovering, Restoring, Undoing
<1>3. CASE PublishMarker
  BY <1>3 DEF PublishMarker, Step, DiskTypes, CommandTypes, Mems, Receipts, MarkerInv,
     LivesInv, Removing, RollingBack, Recovering, Restoring, Undoing
<1>4. CASE PublishRemoving
  BY <1>4 DEF PublishRemoving, Step, DiskTypes, CommandTypes, Mems, Receipts,
     MarkerInv, LivesInv, Removing, RollingBack, Recovering, Restoring, Undoing
<1>5. CASE RemoveCodex
  BY <1>5 DEF RemoveCodex, Step, Put, DiskTypes, CommandTypes, Mems, Receipts,
     MarkerInv, LivesInv, Removing, RollingBack, Recovering, Restoring, Undoing
<1>6. CASE RemoveAsset
  BY <1>6 DEF RemoveAsset, Put, After, DiskTypes, CommandTypes, Mems, Receipts,
     MarkerInv, LivesInv, Removing, RollingBack, Recovering, Restoring, Undoing
<1>7. CASE UnlinkConfig
  BY <1>7 DEF UnlinkConfig, Put, DiskTypes, CommandTypes, Mems, Receipts, MarkerInv,
     LivesInv, Removing, RollingBack, Recovering, Restoring, Undoing
<1>8. CASE PublishRemoved
  BY <1>8 DEF PublishRemoved, Step, DiskTypes, CommandTypes, Mems, Receipts, MarkerInv,
     LivesInv, Removing, RollingBack, Recovering, Restoring, Undoing
<1>9. CASE MoveData
  BY <1>9 DEF MoveData, Step, DiskTypes, CommandTypes, Mems, Receipts, MarkerInv,
     LivesInv, Removing, RollingBack, Recovering, Restoring, Undoing
<1>10. CASE CompleteReceipt
  BY <1>10 DEF CompleteReceipt, Step, DiskTypes, CommandTypes, Mems, Receipts,
     MarkerInv, LivesInv, Removing, RollingBack, Recovering, Restoring, Undoing
<1>11. CASE CompleteMarker
  BY <1>11 DEF CompleteMarker, Step, NoMem, DiskTypes, CommandTypes, Mems, Receipts,
     MarkerInv, LivesInv, Removing, RollingBack, Recovering, Restoring, Undoing
<1>12. CASE RollbackRouting("rb_routing", "rb_data")
  BY <1>12 DEF RollbackRouting, Step, DiskTypes, CommandTypes, Mems, Receipts,
     MarkerInv, LivesInv, Removing, RollingBack, Recovering, Restoring, Undoing
<1>13. CASE RollbackData
  BY <1>13 DEF RollbackData, Step, DiskTypes, CommandTypes, Mems, Receipts, MarkerInv,
     LivesInv, Removing, RollingBack, Recovering, Restoring, Undoing
<1>14. CASE RollbackConfig
  BY <1>14 DEF RollbackConfig, Step, Put, Configured, DiskTypes, CommandTypes, Mems,
     Receipts, MarkerInv, LivesInv, Removing, RollingBack, Recovering, Restoring,
     Undoing
<1>15. CASE RollbackCodex
  BY <1>15 DEF RollbackCodex, Step, Put, DiskTypes, CommandTypes, Mems, Receipts,
     MarkerInv, LivesInv, Removing, RollingBack, Recovering, Restoring, Undoing
<1>16. CASE RollbackLife
  BY <1>16 DEF RollbackLife, Step, DiskTypes, CommandTypes, Mems, Receipts, MarkerInv,
     LivesInv, Removing, RollingBack, Recovering, Restoring, Undoing
<1>17. CASE RollbackMarker
  BY <1>17 DEF RollbackMarker, Step, NoMem, DiskTypes, CommandTypes, Mems, Receipts,
     MarkerInv, LivesInv, Removing, RollingBack, Recovering, Restoring, Undoing
<1>18. CASE RollbackRouting("u_routing", "u_life")
  BY <1>18 DEF RollbackRouting, Step, DiskTypes, CommandTypes, Mems, Receipts,
     MarkerInv, LivesInv, Removing, RollingBack, Recovering, Restoring, Undoing
<1>19. CASE UndoLife
  BY <1>19 DEF UndoLife, Step, DiskTypes, CommandTypes, Mems, Receipts, MarkerInv,
     LivesInv, Removing, RollingBack, Recovering, Restoring, Undoing
<1>20. CASE UndoConfig
  BY <1>20 DEF UndoConfig, Step, Put, DiskTypes, CommandTypes, Mems, Receipts,
     MarkerInv, LivesInv, Removing, RollingBack, Recovering, Restoring, Undoing
<1>21. CASE UndoData
  BY <1>21 DEF UndoData, Step, NoMem, DiskTypes, CommandTypes, Mems, Receipts,
     MarkerInv, LivesInv, Removing, RollingBack, Recovering, Restoring, Undoing
<1>22. CASE Recover
  BY <1>22 DEF Recover, Recoverable, Known, Original, NoMem, DiskTypes, CommandTypes,
     Mems, Receipts, MarkerInv, LivesInv, Removing, RollingBack, Recovering, Restoring,
     Undoing
<1>23. CASE RecoverRouting
  BY <1>23 DEF RecoverRouting, Known, Original, DiskTypes, CommandTypes, Mems,
     Receipts, MarkerInv, LivesInv, Removing, RollingBack, Recovering, Restoring,
     Undoing
<1>24. CASE RecoverData
  BY <1>24 DEF RecoverData, DiskTypes, CommandTypes, Mems, Receipts, MarkerInv,
     LivesInv, Removing, RollingBack, Recovering, Restoring, Undoing
<1>25. CASE RecoverConfig
  BY <1>25 DEF RecoverConfig, Step, Put, Original, DiskTypes, CommandTypes, Mems,
     Receipts, MarkerInv, LivesInv, Removing, RollingBack, Recovering, Restoring,
     Undoing
<1>26. CASE RecoverCodex
  BY <1>26 DEF RecoverCodex, Step, Put, Original, DiskTypes, CommandTypes, Mems,
     Receipts, MarkerInv, LivesInv, Removing, RollingBack, Recovering, Restoring,
     Undoing
<1>27. CASE RecoverLife
  BY <1>27 DEF RecoverLife, Step, DiskTypes, CommandTypes, Mems, Receipts, MarkerInv,
     LivesInv, Removing, RollingBack, Recovering, Restoring, Undoing
<1>28. CASE RecoverMarker
  BY <1>28 DEF RecoverMarker, Step, NoReceipt, DiskTypes, CommandTypes, Mems, Receipts,
     MarkerInv, LivesInv, Removing, RollingBack, Recovering, Restoring, Undoing
<1>29. CASE Restore
  BY <1>29 DEF Restore, Count, NoMem, Configured, DiskTypes, CommandTypes, Mems,
     Receipts, MarkerInv, LivesInv, Removing, RollingBack, Recovering, Restoring,
     Undoing
<1>30. CASE RestoreRouting
  BY <1>30 DEF RestoreRouting, Original, Removed, DiskTypes, CommandTypes, Mems,
     Receipts, MarkerInv, LivesInv, Removing, RollingBack, Recovering, Restoring,
     Undoing
<1>31. CASE RestoreData
  BY <1>31 DEF RestoreData, DiskTypes, CommandTypes, Mems, Receipts, MarkerInv,
     LivesInv, Removing, RollingBack, Recovering, Restoring, Undoing
<1>32. CASE RestoreConfig
  BY <1>32 DEF RestoreConfig, Configured, Put, Original, DiskTypes, CommandTypes, Mems,
     Receipts, MarkerInv, LivesInv, Removing, RollingBack, Recovering, Restoring,
     Undoing
<1>33. CASE RestoreLife
  BY <1>33 DEF RestoreLife, DiskTypes, CommandTypes, Mems, Receipts, MarkerInv,
     LivesInv, Removing, RollingBack, Recovering, Restoring, Undoing
<1>34. CASE RestoreMarker
  BY <1>34 DEF RestoreMarker, Step, NoMem, DiskTypes, CommandTypes, Mems, Receipts,
     MarkerInv, LivesInv, Removing, RollingBack, Recovering, Restoring, Undoing
<1>35. CASE Enable
  BY <1>35 DEF Enable, Configured, DiskTypes, CommandTypes, Mems, Receipts, MarkerInv,
     LivesInv, Removing, RollingBack, Recovering, Restoring, Undoing
<1>36. CASE Raise
  BY <1>36 DEF Raise, Count, Removing, Restoring, DiskTypes, CommandTypes, Mems,
     Receipts, MarkerInv, LivesInv, RollingBack, Recovering, Undoing
<1>37. CASE Kill
  BY <1>37 DEF Kill, Count, NoMem, Restoring, Undoing, DiskTypes, CommandTypes, Mems,
     Receipts, MarkerInv, LivesInv, Removing, RollingBack, Recovering
<1>38. ASSUME NEW f \in File, Edit(f) PROVE LivesInv'
  BY <1>38 DEF Edit, Count, Put, Recovering, DiskTypes, CommandTypes, Mems, Receipts,
     MarkerInv, LivesInv, Removing, RollingBack, Restoring, Undoing
<1>39. ASSUME NEW p \in Late, Check(p) PROVE LivesInv'
  BY <1>39 DEF Check, DiskTypes, CommandTypes, Mems, Receipts, MarkerInv, LivesInv,
     Removing, RollingBack, Recovering, Restoring, Undoing
<1>40. CASE TakeLease
  BY <1>40 DEF TakeLease, DiskTypes, CommandTypes, Mems, Receipts, MarkerInv, LivesInv,
     Removing, RollingBack, Recovering, Restoring, Undoing
<1>41. CASE UNCHANGED vars
  BY <1>41 DEF vars, DiskTypes, CommandTypes, Mems, Receipts, MarkerInv, LivesInv,
     Removing, RollingBack, Recovering, Restoring, Undoing
<1>42. CASE RaiseUnrecorded
  BY <1>42 DEF RaiseUnrecorded, Count, Put, Configured, Removing, Restoring, DiskTypes,
     CommandTypes, Mems,
     Receipts, MarkerInv, LivesInv, RollingBack, Recovering, Undoing
<1>43. CASE RollbackRaises
  BY <1>43 DEF RollbackRaises, LeavesAssets, Leaves, Step, Count, NoMem, Removing,
     Restoring, DiskTypes, CommandTypes, Mems,
     Receipts, MarkerInv, LivesInv, RollingBack, Recovering, Undoing
<1>. QED
  BY <1>1, <1>2, <1>3, <1>4, <1>5, <1>6, <1>7, <1>8, <1>9, <1>10, <1>11, <1>12, <1>13,
     <1>14, <1>15, <1>16, <1>17, <1>18, <1>19, <1>20, <1>21, <1>22, <1>23, <1>24,
     <1>25, <1>26, <1>27, <1>28, <1>29, <1>30, <1>31, <1>32, <1>33, <1>34, <1>35,
     <1>36, <1>37, <1>38, <1>39, <1>40, <1>41, <1>42, <1>43 DEF Next, RemoveStep, RollbackStep,
     RecoverStep, RestoreStep

LEMMA RecordKept ==
  ASSUME CommandTypes, DiskTypes, MarkerInv, RecordInv, RestInv, [Next]_vars
  PROVE  RecordInv'
<1>1. CASE Remove
  BY <1>1 DEF Remove, Count, NoMem, Configured, Stable, DiskTypes, CommandTypes, Mems,
     Receipts, MarkerInv, RecordInv, RestInv, Sound, PartOf, File, Routing, Removing,
     RollingBack, Recovering, Restoring, Undoing
<1>2. CASE PublishReceipt
  BY <1>2 DEF PublishReceipt, Step, DiskTypes, CommandTypes, Mems, Receipts, MarkerInv,
     RecordInv, RestInv, Sound, PartOf, File, Routing, Removing, RollingBack, Recovering,
     Restoring, Undoing
<1>3. CASE PublishMarker
  BY <1>3 DEF PublishMarker, Step, DiskTypes, CommandTypes, Mems, Receipts, MarkerInv,
     RecordInv, RestInv, Sound, PartOf, File, Routing, Removing, RollingBack, Recovering,
     Restoring, Undoing
<1>4. CASE PublishRemoving
  BY <1>4 DEF PublishRemoving, Step, DiskTypes, CommandTypes, Mems, Receipts,
     MarkerInv, RecordInv, RestInv, Sound, PartOf, File, Routing, Removing, RollingBack,
     Recovering, Restoring, Undoing
<1>5. CASE RemoveCodex
  BY <1>5 DEF RemoveCodex, Step, Put, DiskTypes, CommandTypes, Mems, Receipts,
     MarkerInv, RecordInv, RestInv, Sound, PartOf, File, Routing, Removing, RollingBack,
     Recovering, Restoring, Undoing
<1>6. CASE RemoveAsset
  BY <1>6 DEF RemoveAsset, Put, After, DiskTypes, CommandTypes, Mems, Receipts,
     MarkerInv, RecordInv, RestInv, Sound, PartOf, File, Routing, Removing, RollingBack,
     Recovering, Restoring, Undoing
<1>7. CASE UnlinkConfig
  BY <1>7 DEF UnlinkConfig, Put, DiskTypes, CommandTypes, Mems, Receipts, MarkerInv,
     RecordInv, RestInv, Sound, PartOf, File, Routing, Removing, RollingBack, Recovering,
     Restoring, Undoing
<1>8. CASE PublishRemoved
  BY <1>8 DEF PublishRemoved, Step, DiskTypes, CommandTypes, Mems, Receipts, MarkerInv,
     RecordInv, RestInv, Sound, PartOf, File, Routing, Removing, RollingBack, Recovering,
     Restoring, Undoing
<1>9. CASE MoveData
  BY <1>9 DEF MoveData, Step, DiskTypes, CommandTypes, Mems, Receipts, MarkerInv,
     RecordInv, RestInv, Sound, PartOf, File, Routing, Removing, RollingBack, Recovering,
     Restoring, Undoing
<1>10. CASE CompleteReceipt
  BY <1>10 DEF CompleteReceipt, Step, DiskTypes, CommandTypes, Mems, Receipts,
     MarkerInv, RecordInv, RestInv, Sound, PartOf, File, Routing, Removing, RollingBack,
     Recovering, Restoring, Undoing
<1>11. CASE CompleteMarker
  BY <1>11 DEF CompleteMarker, Step, NoMem, DiskTypes, CommandTypes, Mems, Receipts,
     MarkerInv, RecordInv, RestInv, Sound, PartOf, File, Routing, Removing, RollingBack,
     Recovering, Restoring, Undoing
<1>12. CASE RollbackRouting("rb_routing", "rb_data")
  BY <1>12 DEF RollbackRouting, Step, DiskTypes, CommandTypes, Mems, Receipts,
     MarkerInv, RecordInv, RestInv, Sound, PartOf, File, Routing, Removing, RollingBack,
     Recovering, Restoring, Undoing
<1>13. CASE RollbackData
  BY <1>13 DEF RollbackData, Step, DiskTypes, CommandTypes, Mems, Receipts, MarkerInv,
     RecordInv, RestInv, Sound, PartOf, File, Routing, Removing, RollingBack, Recovering,
     Restoring, Undoing
<1>14. CASE RollbackConfig
  BY <1>14 DEF RollbackConfig, Step, Put, Configured, DiskTypes, CommandTypes, Mems,
     Receipts, MarkerInv, RecordInv, RestInv, Sound, PartOf, File, Routing, Removing,
     RollingBack, Recovering, Restoring, Undoing
<1>15. CASE RollbackCodex
  BY <1>15 DEF RollbackCodex, Step, Put, DiskTypes, CommandTypes, Mems, Receipts,
     MarkerInv, RecordInv, RestInv, Sound, PartOf, File, Routing, Removing, RollingBack,
     Recovering, Restoring, Undoing
<1>16. CASE RollbackLife
  BY <1>16 DEF RollbackLife, Step, DiskTypes, CommandTypes, Mems, Receipts, MarkerInv,
     RecordInv, RestInv, Sound, PartOf, File, Routing, Removing, RollingBack, Recovering,
     Restoring, Undoing
<1>17. CASE RollbackMarker
  BY <1>17 DEF RollbackMarker, Step, NoMem, DiskTypes, CommandTypes, Mems, Receipts,
     MarkerInv, RecordInv, RestInv, Sound, PartOf, File, Routing, Removing, RollingBack,
     Recovering, Restoring, Undoing
<1>18. CASE RollbackRouting("u_routing", "u_life")
  BY <1>18 DEF RollbackRouting, Step, DiskTypes, CommandTypes, Mems, Receipts,
     MarkerInv, RecordInv, RestInv, Sound, PartOf, File, Routing, Removing, RollingBack,
     Recovering, Restoring, Undoing
<1>19. CASE UndoLife
  BY <1>19 DEF UndoLife, Step, DiskTypes, CommandTypes, Mems, Receipts, MarkerInv,
     RecordInv, RestInv, Sound, PartOf, File, Routing, Removing, RollingBack, Recovering,
     Restoring, Undoing
<1>20. CASE UndoConfig
  BY <1>20 DEF UndoConfig, Step, Put, DiskTypes, CommandTypes, Mems, Receipts,
     MarkerInv, RecordInv, RestInv, Sound, PartOf, File, Routing, Removing, RollingBack,
     Recovering, Restoring, Undoing
<1>21. CASE UndoData
  BY <1>21 DEF UndoData, Step, NoMem, DiskTypes, CommandTypes, Mems, Receipts,
     MarkerInv, RecordInv, RestInv, Sound, PartOf, File, Routing, Removing, RollingBack,
     Recovering, Restoring, Undoing
<1>22. CASE Recover
  BY <1>22 DEF Recover, Recoverable, Known, Original, NoMem, DiskTypes, CommandTypes,
     Mems, Receipts, MarkerInv, RecordInv, RestInv, Sound, PartOf, File, Routing, Removing,
     RollingBack, Recovering, Restoring, Undoing
<1>23. CASE RecoverRouting
  BY <1>23 DEF RecoverRouting, Known, Original, DiskTypes, CommandTypes, Mems,
     Receipts, MarkerInv, RecordInv, RestInv, Sound, PartOf, File, Routing, Removing,
     RollingBack, Recovering, Restoring, Undoing
<1>24. CASE RecoverData
  BY <1>24 DEF RecoverData, DiskTypes, CommandTypes, Mems, Receipts, MarkerInv,
     RecordInv, RestInv, Sound, PartOf, File, Routing, Removing, RollingBack, Recovering,
     Restoring, Undoing
<1>25. CASE RecoverConfig
  BY <1>25 DEF RecoverConfig, Step, Put, Original, DiskTypes, CommandTypes, Mems,
     Receipts, MarkerInv, RecordInv, RestInv, Sound, PartOf, File, Routing, Removing,
     RollingBack, Recovering, Restoring, Undoing
<1>26. CASE RecoverCodex
  BY <1>26 DEF RecoverCodex, Step, Put, Original, DiskTypes, CommandTypes, Mems,
     Receipts, MarkerInv, RecordInv, RestInv, Sound, PartOf, File, Routing, Removing,
     RollingBack, Recovering, Restoring, Undoing
<1>27. CASE RecoverLife
  BY <1>27 DEF RecoverLife, Step, DiskTypes, CommandTypes, Mems, Receipts, MarkerInv,
     RecordInv, RestInv, Sound, PartOf, File, Routing, Removing, RollingBack, Recovering,
     Restoring, Undoing
<1>28. CASE RecoverMarker
  BY <1>28 DEF RecoverMarker, Step, NoReceipt, DiskTypes, CommandTypes, Mems, Receipts,
     MarkerInv, RecordInv, RestInv, Sound, PartOf, File, Routing, Removing, RollingBack,
     Recovering, Restoring, Undoing
<1>29. CASE Restore
  BY <1>29 DEF Restore, Count, NoMem, Configured, DiskTypes, CommandTypes, Mems,
     Receipts, MarkerInv, RecordInv, RestInv, Sound, PartOf, File, Routing, Removing,
     RollingBack, Recovering, Restoring, Undoing
<1>30. CASE RestoreRouting
  BY <1>30 DEF RestoreRouting, Original, Removed, DiskTypes, CommandTypes, Mems,
     Receipts, MarkerInv, RecordInv, RestInv, Sound, PartOf, File, Routing, Removing,
     RollingBack, Recovering, Restoring, Undoing
<1>31. CASE RestoreData
  BY <1>31 DEF RestoreData, DiskTypes, CommandTypes, Mems, Receipts, MarkerInv,
     RecordInv, RestInv, Sound, PartOf, File, Routing, Removing, RollingBack, Recovering,
     Restoring, Undoing
<1>32. CASE RestoreConfig
  BY <1>32 DEF RestoreConfig, Configured, Put, Original, DiskTypes, CommandTypes, Mems,
     Receipts, MarkerInv, RecordInv, RestInv, Sound, PartOf, File, Routing, Removing,
     RollingBack, Recovering, Restoring, Undoing
<1>33. CASE RestoreLife
  BY <1>33 DEF RestoreLife, DiskTypes, CommandTypes, Mems, Receipts, MarkerInv,
     RecordInv, RestInv, Sound, PartOf, File, Routing, Removing, RollingBack, Recovering,
     Restoring, Undoing
<1>34. CASE RestoreMarker
  BY <1>34 DEF RestoreMarker, Step, NoMem, DiskTypes, CommandTypes, Mems, Receipts,
     MarkerInv, RecordInv, RestInv, Sound, PartOf, File, Routing, Removing, RollingBack,
     Recovering, Restoring, Undoing
<1>35. CASE Enable
  BY <1>35 DEF Enable, Configured, DiskTypes, CommandTypes, Mems, Receipts, MarkerInv,
     RecordInv, RestInv, Sound, PartOf, File, Routing, Removing, RollingBack, Recovering,
     Restoring, Undoing
<1>36. CASE Raise
  BY <1>36 DEF Raise, Count, Removing, Restoring, DiskTypes, CommandTypes, Mems,
     Receipts, MarkerInv, RecordInv, RestInv, Sound, PartOf, File, Routing, RollingBack,
     Recovering, Undoing
<1>37. CASE Kill
  BY <1>37 DEF Kill, Count, NoMem, Restoring, Undoing, DiskTypes, CommandTypes, Mems,
     Receipts, MarkerInv, RecordInv, RestInv, Sound, PartOf, File, Routing, Removing,
     RollingBack, Recovering
<1>38. ASSUME NEW f \in File, Edit(f) PROVE RecordInv'
  BY <1>38 DEF Edit, Count, Put, Recovering, DiskTypes, CommandTypes, Mems, Receipts,
     MarkerInv, RecordInv, RestInv, Sound, PartOf, File, Routing, Removing, RollingBack,
     Restoring, Undoing
<1>39. ASSUME NEW p \in Late, Check(p) PROVE RecordInv'
  BY <1>39 DEF Check, DiskTypes, CommandTypes, Mems, Receipts, MarkerInv, RecordInv,
     RestInv, Sound, PartOf, File, Routing, Removing, RollingBack, Recovering, Restoring,
     Undoing
<1>40. CASE TakeLease
  BY <1>40 DEF TakeLease, DiskTypes, CommandTypes, Mems, Receipts, MarkerInv,
     RecordInv, RestInv, Sound, PartOf, File, Routing, Removing, RollingBack, Recovering,
     Restoring, Undoing
<1>41. CASE UNCHANGED vars
  BY <1>41 DEF vars, DiskTypes, CommandTypes, Mems, Receipts, MarkerInv, RecordInv,
     RestInv, Sound, PartOf, File, Routing, Removing, RollingBack, Recovering, Restoring,
     Undoing
<1>42. CASE RaiseUnrecorded
  BY <1>42 DEF RaiseUnrecorded, Count, Put, Configured, Removing, Restoring, DiskTypes,
     CommandTypes, Mems,
     Receipts, MarkerInv, RecordInv, RestInv, Sound, PartOf, File, Routing, RollingBack,
     Recovering, Undoing
<1>43. CASE RollbackRaises
  BY <1>43 DEF RollbackRaises, LeavesAssets, Leaves, Step, Count, NoMem, Removing,
     Restoring, DiskTypes, CommandTypes, Mems,
     Receipts, MarkerInv, RecordInv, RestInv, Sound, PartOf, File, Routing, RollingBack,
     Recovering, Undoing
<1>. QED
  BY <1>1, <1>2, <1>3, <1>4, <1>5, <1>6, <1>7, <1>8, <1>9, <1>10, <1>11, <1>12, <1>13,
     <1>14, <1>15, <1>16, <1>17, <1>18, <1>19, <1>20, <1>21, <1>22, <1>23, <1>24,
     <1>25, <1>26, <1>27, <1>28, <1>29, <1>30, <1>31, <1>32, <1>33, <1>34, <1>35,
     <1>36, <1>37, <1>38, <1>39, <1>40, <1>41, <1>42, <1>43 DEF Next, RemoveStep, RollbackStep,
     RecoverStep, RestoreStep

LEMMA LifeKept ==
  ASSUME CommandTypes, DiskTypes, MarkerInv, RecordInv, HomeInv, LifeInv, [Next]_vars
  PROVE  LifeInv'
<1>1. CASE Remove
  BY <1>1 DEF Remove, Count, NoMem, Configured, Stable, DiskTypes, CommandTypes, Mems,
     MarkerInv, HomeInv, LifeInv, RecordInv, Sound, PartOf, Removing, RollingBack, Recovering,
     Restoring, Undoing
<1>2. CASE PublishReceipt
  BY <1>2 DEF PublishReceipt, Step, DiskTypes, CommandTypes, Mems, MarkerInv, HomeInv,
     LifeInv, RecordInv, Sound, PartOf, Removing, RollingBack, Recovering, Restoring, Undoing
<1>3. CASE PublishMarker
  BY <1>3 DEF PublishMarker, Step, DiskTypes, CommandTypes, Mems, MarkerInv, HomeInv,
     LifeInv, RecordInv, Sound, PartOf, Removing, RollingBack, Recovering, Restoring, Undoing
<1>4. CASE PublishRemoving
  BY <1>4 DEF PublishRemoving, Step, DiskTypes, CommandTypes, Mems, MarkerInv, HomeInv,
     LifeInv, RecordInv, Sound, PartOf, Removing, RollingBack, Recovering, Restoring, Undoing
<1>5. CASE RemoveCodex
  BY <1>5 DEF RemoveCodex, Step, Put, DiskTypes, CommandTypes, Mems, MarkerInv,
     HomeInv, LifeInv, RecordInv, Sound, PartOf, Removing, RollingBack, Recovering, Restoring,
     Undoing
<1>6. CASE RemoveAsset
  BY <1>6 DEF RemoveAsset, Put, After, DiskTypes, CommandTypes, Mems, MarkerInv,
     HomeInv, LifeInv, RecordInv, Sound, PartOf, Removing, RollingBack, Recovering, Restoring,
     Undoing
<1>7. CASE UnlinkConfig
  BY <1>7 DEF UnlinkConfig, Put, DiskTypes, CommandTypes, Mems, MarkerInv, HomeInv,
     LifeInv, RecordInv, Sound, PartOf, Removing, RollingBack, Recovering, Restoring, Undoing
<1>8. CASE PublishRemoved
  BY <1>8 DEF PublishRemoved, Step, DiskTypes, CommandTypes, Mems, MarkerInv, HomeInv,
     LifeInv, RecordInv, Sound, PartOf, Removing, RollingBack, Recovering, Restoring, Undoing
<1>9. CASE MoveData
  BY <1>9 DEF MoveData, Step, DiskTypes, CommandTypes, Mems, MarkerInv, HomeInv,
     LifeInv, RecordInv, Sound, PartOf, Removing, RollingBack, Recovering, Restoring, Undoing
<1>10. CASE CompleteReceipt
  BY <1>10 DEF CompleteReceipt, Step, DiskTypes, CommandTypes, Mems, MarkerInv,
     HomeInv, LifeInv, RecordInv, Sound, PartOf, Removing, RollingBack, Recovering, Restoring,
     Undoing
<1>11. CASE CompleteMarker
  BY <1>11 DEF CompleteMarker, Step, NoMem, DiskTypes, CommandTypes, Mems, MarkerInv,
     HomeInv, LifeInv, RecordInv, Sound, PartOf, Removing, RollingBack, Recovering, Restoring,
     Undoing
<1>12. CASE RollbackRouting("rb_routing", "rb_data")
  BY <1>12 DEF RollbackRouting, Step, DiskTypes, CommandTypes, Mems, MarkerInv,
     HomeInv, LifeInv, RecordInv, Sound, PartOf, Removing, RollingBack, Recovering, Restoring,
     Undoing
<1>13. CASE RollbackData
  BY <1>13 DEF RollbackData, Step, DiskTypes, CommandTypes, Mems, MarkerInv, HomeInv,
     LifeInv, RecordInv, Sound, PartOf, Removing, RollingBack, Recovering, Restoring, Undoing
<1>14. CASE RollbackConfig
  BY <1>14 DEF RollbackConfig, Step, Put, Configured, DiskTypes, CommandTypes, Mems,
     MarkerInv, HomeInv, LifeInv, RecordInv, Sound, PartOf, Removing, RollingBack, Recovering,
     Restoring, Undoing
<1>15. CASE RollbackCodex
  BY <1>15 DEF RollbackCodex, Step, Put, DiskTypes, CommandTypes, Mems, MarkerInv,
     HomeInv, LifeInv, RecordInv, Sound, PartOf, Removing, RollingBack, Recovering, Restoring,
     Undoing
<1>16. CASE RollbackLife
  BY <1>16 DEF RollbackLife, Step, DiskTypes, CommandTypes, Mems, MarkerInv, HomeInv,
     LifeInv, RecordInv, Sound, PartOf, Removing, RollingBack, Recovering, Restoring, Undoing
<1>17. CASE RollbackMarker
  BY <1>17 DEF RollbackMarker, Step, NoMem, DiskTypes, CommandTypes, Mems, MarkerInv,
     HomeInv, LifeInv, RecordInv, Sound, PartOf, Removing, RollingBack, Recovering, Restoring,
     Undoing
<1>18. CASE RollbackRouting("u_routing", "u_life")
  BY <1>18 DEF RollbackRouting, Step, DiskTypes, CommandTypes, Mems, MarkerInv,
     HomeInv, LifeInv, RecordInv, Sound, PartOf, Removing, RollingBack, Recovering, Restoring,
     Undoing
<1>19. CASE UndoLife
  BY <1>19 DEF UndoLife, Step, DiskTypes, CommandTypes, Mems, MarkerInv, HomeInv,
     LifeInv, RecordInv, Sound, PartOf, Removing, RollingBack, Recovering, Restoring, Undoing
<1>20. CASE UndoConfig
  BY <1>20 DEF UndoConfig, Step, Put, DiskTypes, CommandTypes, Mems, MarkerInv,
     HomeInv, LifeInv, RecordInv, Sound, PartOf, Removing, RollingBack, Recovering, Restoring,
     Undoing
<1>21. CASE UndoData
  BY <1>21 DEF UndoData, Step, NoMem, DiskTypes, CommandTypes, Mems, MarkerInv,
     HomeInv, LifeInv, RecordInv, Sound, PartOf, Removing, RollingBack, Recovering, Restoring,
     Undoing
<1>22. CASE Recover
  BY <1>22 DEF Recover, Recoverable, Known, Original, NoMem, DiskTypes, CommandTypes,
     Mems, MarkerInv, HomeInv, LifeInv, RecordInv, Sound, PartOf, Removing, RollingBack,
     Recovering, Restoring, Undoing
<1>23. CASE RecoverRouting
  BY <1>23 DEF RecoverRouting, Known, Original, DiskTypes, CommandTypes, Mems,
     MarkerInv, HomeInv, LifeInv, RecordInv, Sound, PartOf, Removing, RollingBack, Recovering,
     Restoring, Undoing
<1>24. CASE RecoverData
  BY <1>24 DEF RecoverData, DiskTypes, CommandTypes, Mems, MarkerInv, HomeInv, LifeInv,
     RecordInv, Sound, PartOf, Removing, RollingBack, Recovering, Restoring, Undoing
<1>25. CASE RecoverConfig
  BY <1>25 DEF RecoverConfig, Step, Put, Original, DiskTypes, CommandTypes, Mems,
     MarkerInv, HomeInv, LifeInv, RecordInv, Sound, PartOf, Removing, RollingBack, Recovering,
     Restoring, Undoing
<1>26. CASE RecoverCodex
  BY <1>26 DEF RecoverCodex, Step, Put, Original, DiskTypes, CommandTypes, Mems,
     MarkerInv, HomeInv, LifeInv, RecordInv, Sound, PartOf, Removing, RollingBack, Recovering,
     Restoring, Undoing
<1>27. CASE RecoverLife
  BY <1>27 DEF RecoverLife, Step, DiskTypes, CommandTypes, Mems, MarkerInv, HomeInv,
     LifeInv, RecordInv, Sound, PartOf, Removing, RollingBack, Recovering, Restoring, Undoing
<1>28. CASE RecoverMarker
  BY <1>28 DEF RecoverMarker, Step, NoReceipt, DiskTypes, CommandTypes, Mems,
     MarkerInv, HomeInv, LifeInv, RecordInv, Sound, PartOf, Removing, RollingBack, Recovering,
     Restoring, Undoing
<1>29. CASE Restore
  BY <1>29 DEF Restore, Count, NoMem, Configured, DiskTypes, CommandTypes, Mems,
     MarkerInv, HomeInv, LifeInv, RecordInv, Sound, PartOf, Removing, RollingBack, Recovering,
     Restoring, Undoing
<1>30. CASE RestoreRouting
  BY <1>30 DEF RestoreRouting, Original, Removed, DiskTypes, CommandTypes, Mems,
     MarkerInv, HomeInv, LifeInv, RecordInv, Sound, PartOf, Removing, RollingBack, Recovering,
     Restoring, Undoing
<1>31. CASE RestoreData
  BY <1>31 DEF RestoreData, DiskTypes, CommandTypes, Mems, MarkerInv, HomeInv, LifeInv,
     RecordInv, Sound, PartOf, Removing, RollingBack, Recovering, Restoring, Undoing
<1>32. CASE RestoreConfig
  BY <1>32 DEF RestoreConfig, Configured, Put, Original, DiskTypes, CommandTypes, Mems,
     MarkerInv, HomeInv, LifeInv, RecordInv, Sound, PartOf, Removing, RollingBack, Recovering,
     Restoring, Undoing
<1>33. CASE RestoreLife
  BY <1>33 DEF RestoreLife, DiskTypes, CommandTypes, Mems, MarkerInv, HomeInv,
     LifeInv, RecordInv, Sound, PartOf, Removing, RollingBack, Recovering, Restoring, Undoing
<1>34. CASE RestoreMarker
  BY <1>34 DEF RestoreMarker, Step, NoMem, DiskTypes, CommandTypes, Mems, MarkerInv,
     HomeInv, LifeInv, RecordInv, Sound, PartOf, Removing, RollingBack, Recovering, Restoring,
     Undoing
<1>35. CASE Enable
  BY <1>35 DEF Enable, Configured, DiskTypes, CommandTypes, Mems, MarkerInv, HomeInv,
     LifeInv, RecordInv, Sound, PartOf, Removing, RollingBack, Recovering, Restoring, Undoing
<1>36. CASE Raise
  BY <1>36 DEF Raise, Count, Removing, Restoring, DiskTypes, CommandTypes, Mems,
     MarkerInv, HomeInv, LifeInv, RecordInv, Sound, PartOf, RollingBack, Recovering, Undoing
<1>37. CASE Kill
  BY <1>37 DEF Kill, Count, NoMem, Restoring, Undoing, DiskTypes, CommandTypes, Mems,
     MarkerInv, HomeInv, LifeInv, RecordInv, Sound, PartOf, Removing, RollingBack, Recovering
<1>38. ASSUME NEW f \in File, Edit(f) PROVE LifeInv'
  BY <1>38 DEF Edit, Count, Put, Recovering, DiskTypes, CommandTypes, Mems, MarkerInv,
     HomeInv, LifeInv, RecordInv, Sound, PartOf, Removing, RollingBack, Restoring, Undoing
<1>39. ASSUME NEW p \in Late, Check(p) PROVE LifeInv'
  BY <1>39 DEF Check, DiskTypes, CommandTypes, Mems, MarkerInv, HomeInv, LifeInv,
     RecordInv, Sound, PartOf, Removing, RollingBack, Recovering, Restoring, Undoing
<1>40. CASE TakeLease
  BY <1>40 DEF TakeLease, DiskTypes, CommandTypes, Mems, MarkerInv, HomeInv, LifeInv,
     RecordInv, Sound, PartOf, Removing, RollingBack, Recovering, Restoring, Undoing
<1>41. CASE UNCHANGED vars
  BY <1>41 DEF vars, DiskTypes, CommandTypes, Mems, MarkerInv, HomeInv, LifeInv,
     RecordInv, Sound, PartOf, Removing, RollingBack, Recovering, Restoring, Undoing
<1>42. CASE RaiseUnrecorded
  BY <1>42 DEF RaiseUnrecorded, Count, Put, Configured, Removing, Restoring, DiskTypes,
     CommandTypes, Mems,
     MarkerInv, HomeInv, LifeInv, RecordInv, Sound, PartOf, RollingBack, Recovering, Undoing
<1>43. CASE RollbackRaises
  BY <1>43 DEF RollbackRaises, LeavesAssets, Leaves, Step, Count, NoMem, Removing,
     Restoring, DiskTypes, CommandTypes, Mems,
     MarkerInv, HomeInv, LifeInv, RecordInv, Sound, PartOf, RollingBack, Recovering, Undoing
<1>. QED
  BY <1>1, <1>2, <1>3, <1>4, <1>5, <1>6, <1>7, <1>8, <1>9, <1>10, <1>11, <1>12, <1>13,
     <1>14, <1>15, <1>16, <1>17, <1>18, <1>19, <1>20, <1>21, <1>22, <1>23, <1>24,
     <1>25, <1>26, <1>27, <1>28, <1>29, <1>30, <1>31, <1>32, <1>33, <1>34, <1>35,
     <1>36, <1>37, <1>38, <1>39, <1>40, <1>41, <1>42, <1>43 DEF Next, RemoveStep, RollbackStep,
     RecoverStep, RestoreStep

LEMMA HomeKept ==
  ASSUME CommandTypes, DiskTypes, RestInv, HomeInv, [Next]_vars
  PROVE  HomeInv'
<1>1. CASE Remove
  BY <1>1 DEF Remove, Count, NoMem, Configured, Stable, DiskTypes, CommandTypes, Mems,
     HomeInv, RestInv, Removing, RollingBack, Recovering, Restoring, Undoing
<1>2. CASE PublishReceipt
  BY <1>2 DEF PublishReceipt, Step, DiskTypes, CommandTypes, Mems, HomeInv, RestInv,
     Removing, RollingBack, Recovering, Restoring, Undoing
<1>3. CASE PublishMarker
  BY <1>3 DEF PublishMarker, Step, DiskTypes, CommandTypes, Mems, HomeInv, RestInv,
     Removing, RollingBack, Recovering, Restoring, Undoing
<1>4. CASE PublishRemoving
  BY <1>4 DEF PublishRemoving, Step, DiskTypes, CommandTypes, Mems, HomeInv, RestInv,
     Removing, RollingBack, Recovering, Restoring, Undoing
<1>5. CASE RemoveCodex
  BY <1>5 DEF RemoveCodex, Step, Put, DiskTypes, CommandTypes, Mems, HomeInv, RestInv,
     Removing, RollingBack, Recovering, Restoring, Undoing
<1>6. CASE RemoveAsset
  BY <1>6 DEF RemoveAsset, Put, After, DiskTypes, CommandTypes, Mems, HomeInv, RestInv,
     Removing, RollingBack, Recovering, Restoring, Undoing
<1>7. CASE UnlinkConfig
  BY <1>7 DEF UnlinkConfig, Put, DiskTypes, CommandTypes, Mems, HomeInv, RestInv,
     Removing, RollingBack, Recovering, Restoring, Undoing
<1>8. CASE PublishRemoved
  BY <1>8 DEF PublishRemoved, Step, DiskTypes, CommandTypes, Mems, HomeInv, RestInv,
     Removing, RollingBack, Recovering, Restoring, Undoing
<1>9. CASE MoveData
  BY <1>9 DEF MoveData, Step, DiskTypes, CommandTypes, Mems, HomeInv, RestInv,
     Removing, RollingBack, Recovering, Restoring, Undoing
<1>10. CASE CompleteReceipt
  BY <1>10 DEF CompleteReceipt, Step, DiskTypes, CommandTypes, Mems, HomeInv, RestInv,
     Removing, RollingBack, Recovering, Restoring, Undoing
<1>11. CASE CompleteMarker
  BY <1>11 DEF CompleteMarker, Step, NoMem, DiskTypes, CommandTypes, Mems, HomeInv,
     RestInv, Removing, RollingBack, Recovering, Restoring, Undoing
<1>12. CASE RollbackRouting("rb_routing", "rb_data")
  BY <1>12 DEF RollbackRouting, Step, DiskTypes, CommandTypes, Mems, HomeInv, RestInv,
     Removing, RollingBack, Recovering, Restoring, Undoing
<1>13. CASE RollbackData
  BY <1>13 DEF RollbackData, Step, DiskTypes, CommandTypes, Mems, HomeInv, RestInv,
     Removing, RollingBack, Recovering, Restoring, Undoing
<1>14. CASE RollbackConfig
  BY <1>14 DEF RollbackConfig, Step, Put, Configured, DiskTypes, CommandTypes, Mems,
     HomeInv, RestInv, Removing, RollingBack, Recovering, Restoring, Undoing
<1>15. CASE RollbackCodex
  BY <1>15 DEF RollbackCodex, Step, Put, DiskTypes, CommandTypes, Mems, HomeInv,
     RestInv, Removing, RollingBack, Recovering, Restoring, Undoing
<1>16. CASE RollbackLife
  BY <1>16 DEF RollbackLife, Step, DiskTypes, CommandTypes, Mems, HomeInv, RestInv,
     Removing, RollingBack, Recovering, Restoring, Undoing
<1>17. CASE RollbackMarker
  BY <1>17 DEF RollbackMarker, Step, NoMem, DiskTypes, CommandTypes, Mems, HomeInv,
     RestInv, Removing, RollingBack, Recovering, Restoring, Undoing
<1>18. CASE RollbackRouting("u_routing", "u_life")
  BY <1>18 DEF RollbackRouting, Step, DiskTypes, CommandTypes, Mems, HomeInv, RestInv,
     Removing, RollingBack, Recovering, Restoring, Undoing
<1>19. CASE UndoLife
  BY <1>19 DEF UndoLife, Step, DiskTypes, CommandTypes, Mems, HomeInv, RestInv,
     Removing, RollingBack, Recovering, Restoring, Undoing
<1>20. CASE UndoConfig
  BY <1>20 DEF UndoConfig, Step, Put, DiskTypes, CommandTypes, Mems, HomeInv, RestInv,
     Removing, RollingBack, Recovering, Restoring, Undoing
<1>21. CASE UndoData
  BY <1>21 DEF UndoData, Step, NoMem, DiskTypes, CommandTypes, Mems, HomeInv, RestInv,
     Removing, RollingBack, Recovering, Restoring, Undoing
<1>22. CASE Recover
  BY <1>22 DEF Recover, Recoverable, Known, Original, NoMem, DiskTypes, CommandTypes,
     Mems, HomeInv, RestInv, Removing, RollingBack, Recovering, Restoring, Undoing
<1>23. CASE RecoverRouting
  BY <1>23 DEF RecoverRouting, Known, Original, DiskTypes, CommandTypes, Mems, HomeInv,
     RestInv, Removing, RollingBack, Recovering, Restoring, Undoing
<1>24. CASE RecoverData
  BY <1>24 DEF RecoverData, DiskTypes, CommandTypes, Mems, HomeInv, RestInv, Removing,
     RollingBack, Recovering, Restoring, Undoing
<1>25. CASE RecoverConfig
  BY <1>25 DEF RecoverConfig, Step, Put, Original, DiskTypes, CommandTypes, Mems,
     HomeInv, RestInv, Removing, RollingBack, Recovering, Restoring, Undoing
<1>26. CASE RecoverCodex
  BY <1>26 DEF RecoverCodex, Step, Put, Original, DiskTypes, CommandTypes, Mems,
     HomeInv, RestInv, Removing, RollingBack, Recovering, Restoring, Undoing
<1>27. CASE RecoverLife
  BY <1>27 DEF RecoverLife, Step, DiskTypes, CommandTypes, Mems, HomeInv, RestInv,
     Removing, RollingBack, Recovering, Restoring, Undoing
<1>28. CASE RecoverMarker
  BY <1>28 DEF RecoverMarker, Step, NoReceipt, DiskTypes, CommandTypes, Mems, HomeInv,
     RestInv, Removing, RollingBack, Recovering, Restoring, Undoing
<1>29. CASE Restore
  BY <1>29 DEF Restore, Count, NoMem, Configured, DiskTypes, CommandTypes, Mems,
     HomeInv, RestInv, Removing, RollingBack, Recovering, Restoring, Undoing
<1>30. CASE RestoreRouting
  BY <1>30 DEF RestoreRouting, Original, Removed, DiskTypes, CommandTypes, Mems,
     HomeInv, RestInv, Removing, RollingBack, Recovering, Restoring, Undoing
<1>31. CASE RestoreData
  BY <1>31 DEF RestoreData, DiskTypes, CommandTypes, Mems, HomeInv, RestInv, Removing,
     RollingBack, Recovering, Restoring, Undoing
<1>32. CASE RestoreConfig
  BY <1>32 DEF RestoreConfig, Configured, Put, Original, DiskTypes, CommandTypes, Mems,
     HomeInv, RestInv, Removing, RollingBack, Recovering, Restoring, Undoing
<1>33. CASE RestoreLife
  BY <1>33 DEF RestoreLife, DiskTypes, CommandTypes, Mems, HomeInv, RestInv,
     Removing, RollingBack, Recovering, Restoring, Undoing
<1>34. CASE RestoreMarker
  BY <1>34 DEF RestoreMarker, Step, NoMem, DiskTypes, CommandTypes, Mems, HomeInv,
     RestInv, Removing, RollingBack, Recovering, Restoring, Undoing
<1>35. CASE Enable
  BY <1>35 DEF Enable, Configured, DiskTypes, CommandTypes, Mems, HomeInv, RestInv,
     Removing, RollingBack, Recovering, Restoring, Undoing
<1>36. CASE Raise
  BY <1>36 DEF Raise, Count, Removing, Restoring, DiskTypes, CommandTypes, Mems,
     HomeInv, RestInv, RollingBack, Recovering, Undoing
<1>37. CASE Kill
  BY <1>37 DEF Kill, Count, NoMem, Restoring, Undoing, DiskTypes, CommandTypes, Mems,
     HomeInv, RestInv, Removing, RollingBack, Recovering
<1>38. ASSUME NEW f \in File, Edit(f) PROVE HomeInv'
  BY <1>38 DEF Edit, Count, Put, Recovering, DiskTypes, CommandTypes, Mems, HomeInv,
     RestInv, Removing, RollingBack, Restoring, Undoing
<1>39. ASSUME NEW p \in Late, Check(p) PROVE HomeInv'
  BY <1>39 DEF Check, DiskTypes, CommandTypes, Mems, HomeInv, RestInv, Removing,
     RollingBack, Recovering, Restoring, Undoing
<1>40. CASE TakeLease
  BY <1>40 DEF TakeLease, DiskTypes, CommandTypes, Mems, HomeInv, RestInv, Removing,
     RollingBack, Recovering, Restoring, Undoing
<1>41. CASE UNCHANGED vars
  BY <1>41 DEF vars, DiskTypes, CommandTypes, Mems, HomeInv, RestInv, Removing,
     RollingBack, Recovering, Restoring, Undoing
<1>42. CASE RaiseUnrecorded
  BY <1>42 DEF RaiseUnrecorded, Count, Put, Configured, Removing, Restoring, DiskTypes,
     CommandTypes, Mems,
     HomeInv, RestInv, RollingBack, Recovering, Undoing
<1>43. CASE RollbackRaises
  BY <1>43 DEF RollbackRaises, LeavesAssets, Leaves, Step, Count, NoMem, Removing,
     Restoring, DiskTypes, CommandTypes, Mems,
     HomeInv, RestInv, RollingBack, Recovering, Undoing
<1>. QED
  BY <1>1, <1>2, <1>3, <1>4, <1>5, <1>6, <1>7, <1>8, <1>9, <1>10, <1>11, <1>12, <1>13,
     <1>14, <1>15, <1>16, <1>17, <1>18, <1>19, <1>20, <1>21, <1>22, <1>23, <1>24,
     <1>25, <1>26, <1>27, <1>28, <1>29, <1>30, <1>31, <1>32, <1>33, <1>34, <1>35,
     <1>36, <1>37, <1>38, <1>39, <1>40, <1>41, <1>42, <1>43 DEF Next, RemoveStep, RollbackStep,
     RecoverStep, RestoreStep

LEMMA RollbackFilesKept ==
  ASSUME CommandTypes, DiskTypes, RecordInv, RollbackFiles, [Next]_vars
  PROVE  RollbackFiles'
<1>1. CASE Remove
  BY <1>1, AssetFacts DEF Remove, Count, NoMem, Configured, Stable, DiskTypes,
     CommandTypes, Mems, RecordInv, Sound, RollbackFiles, Missing, PartOf, File, Routing,
     Removing, RollingBack, Recovering, Restoring, Undoing
<1>2. CASE PublishReceipt
  BY <1>2, AssetFacts DEF PublishReceipt, Step, DiskTypes, CommandTypes, Mems,
     RecordInv, Sound, RollbackFiles, Missing, PartOf, File, Routing, Removing, RollingBack,
     Recovering, Restoring, Undoing
<1>3. CASE PublishMarker
  BY <1>3, AssetFacts DEF PublishMarker, Step, DiskTypes, CommandTypes, Mems,
     RecordInv, Sound, RollbackFiles, Missing, PartOf, File, Routing, Removing, RollingBack,
     Recovering, Restoring, Undoing
<1>4. CASE PublishRemoving
  BY <1>4, AssetFacts DEF PublishRemoving, Step, DiskTypes, CommandTypes, Mems,
     RecordInv, Sound, RollbackFiles, Missing, PartOf, File, Routing, Removing, RollingBack,
     Recovering, Restoring, Undoing
<1>5. CASE RemoveCodex
  <2>1. /\ mem' = [mem EXCEPT !.codex = file["codex"] # "off"] /\ pc' = "routing"
        /\ \A f \in File \ {"codex"} : file'[f] = file[f]
        /\ file'["codex"] = IF file["codex"] = "on" THEN "off" ELSE file["codex"]
    BY <1>5 DEF RemoveCodex, Step, Put, DiskTypes, File, Routing
  <2>2. /\ mem'.before = mem.before /\ mem'.applied = mem.applied /\ mem'.config = mem.config
        /\ (file["codex"] # "off" => mem'.codex) /\ written' = written /\ pc = "codex"
        /\ failed' = failed
    BY <1>5, <2>1 DEF RemoveCodex, Step, CommandTypes, Mems
  <2>8. /\ "codex" \in written => file["codex"] = "user"
        /\ ~mem.codex
    BY <1>5 DEF RemoveCodex, Step, RollbackFiles, Removing
  <2>9. Missing("codex", mem.before) => mem.codex
    BY <1>5 DEF RemoveCodex, Step, RollbackFiles, Removing
  <2>3. \A f \in Routing : f \in File \ {"codex"}
    BY DEF File, Routing
  <2>4. \A f \in Routing : Missing(f, mem.before)' => f \in mem'.applied \ written'
    BY <2>1, <2>2, <2>3 DEF RollbackFiles, Missing, PartOf, Removing
  <2>5. file'["config"] = "off" => mem'.config
    BY <2>1, <2>2 DEF RollbackFiles, Removing, File
  <2>6. Missing("codex", mem.before)' => mem'.codex /\ "codex" \notin written'
    BY <2>1, <2>2, <2>8, <2>9 DEF Missing, PartOf
  <2>7. "codex" \in written' => file'["codex"] = "user"
    BY <2>1, <2>2, <2>8
  <2>. QED
    BY <2>1, <2>4, <2>5, <2>6, <2>7 DEF RollbackFiles, RollingBack, Removing
<1>6. CASE RemoveAsset
  BY <1>6, AssetFacts DEF RemoveAsset, Put, After, DiskTypes, CommandTypes, Mems,
     RecordInv, Sound, RollbackFiles, Missing, PartOf, File, Routing, Removing, RollingBack,
     Recovering, Restoring, Undoing
<1>7. CASE UnlinkConfig
  BY <1>7, AssetFacts DEF UnlinkConfig, Put, DiskTypes, CommandTypes, Mems, RecordInv,
     Sound, RollbackFiles, Missing, PartOf, File, Routing, Removing, RollingBack, Recovering,
     Restoring, Undoing
<1>8. CASE PublishRemoved
  BY <1>8, AssetFacts DEF PublishRemoved, Step, DiskTypes, CommandTypes, Mems,
     RecordInv, Sound, RollbackFiles, Missing, PartOf, File, Routing, Removing, RollingBack,
     Recovering, Restoring, Undoing
<1>9. CASE MoveData
  BY <1>9, AssetFacts DEF MoveData, Step, DiskTypes, CommandTypes, Mems, RecordInv,
     Sound, RollbackFiles, Missing, PartOf, File, Routing, Removing, RollingBack, Recovering,
     Restoring, Undoing
<1>10. CASE CompleteReceipt
  BY <1>10, AssetFacts DEF CompleteReceipt, Step, DiskTypes, CommandTypes, Mems,
     RecordInv, Sound, RollbackFiles, Missing, PartOf, File, Routing, Removing, RollingBack,
     Recovering, Restoring, Undoing
<1>11. CASE CompleteMarker
  BY <1>11, AssetFacts DEF CompleteMarker, Step, NoMem, DiskTypes, CommandTypes, Mems,
     RecordInv, Sound, RollbackFiles, Missing, PartOf, File, Routing, Removing, RollingBack,
     Recovering, Restoring, Undoing
<1>12. CASE RollbackRouting("rb_routing", "rb_data")
  BY <1>12, AssetFacts DEF RollbackRouting, Step, DiskTypes, CommandTypes, Mems,
     RecordInv, Sound, RollbackFiles, Missing, PartOf, File, Routing, Removing, RollingBack,
     Recovering, Restoring, Undoing
<1>13. CASE RollbackData
  BY <1>13, AssetFacts DEF RollbackData, Step, DiskTypes, CommandTypes, Mems,
     RecordInv, Sound, RollbackFiles, Missing, PartOf, File, Routing, Removing, RollingBack,
     Recovering, Restoring, Undoing
<1>14. CASE RollbackConfig
  BY <1>14, AssetFacts DEF RollbackConfig, Step, Put, Configured, DiskTypes,
     CommandTypes, Mems, RecordInv, Sound, RollbackFiles, Missing, PartOf, File, Routing,
     Removing, RollingBack, Recovering, Restoring, Undoing
<1>15. CASE RollbackCodex
  BY <1>15, AssetFacts DEF RollbackCodex, Step, Put, DiskTypes, CommandTypes, Mems,
     RecordInv, Sound, RollbackFiles, Missing, PartOf, File, Routing, Removing, RollingBack,
     Recovering, Restoring, Undoing
<1>16. CASE RollbackLife
  BY <1>16, AssetFacts DEF RollbackLife, Step, DiskTypes, CommandTypes, Mems,
     RecordInv, Sound, RollbackFiles, Missing, PartOf, File, Routing, Removing, RollingBack,
     Recovering, Restoring, Undoing
<1>17. CASE RollbackMarker
  BY <1>17, AssetFacts DEF RollbackMarker, Step, NoMem, DiskTypes, CommandTypes, Mems,
     RecordInv, Sound, RollbackFiles, Missing, PartOf, File, Routing, Removing, RollingBack,
     Recovering, Restoring, Undoing
<1>18. CASE RollbackRouting("u_routing", "u_life")
  BY <1>18, AssetFacts DEF RollbackRouting, Step, DiskTypes, CommandTypes, Mems,
     RecordInv, Sound, RollbackFiles, Missing, PartOf, File, Routing, Removing, RollingBack,
     Recovering, Restoring, Undoing
<1>19. CASE UndoLife
  BY <1>19, AssetFacts DEF UndoLife, Step, DiskTypes, CommandTypes, Mems, RecordInv,
     Sound, RollbackFiles, Missing, PartOf, File, Routing, Removing, RollingBack, Recovering,
     Restoring, Undoing
<1>20. CASE UndoConfig
  BY <1>20, AssetFacts DEF UndoConfig, Step, Put, DiskTypes, CommandTypes, Mems,
     RecordInv, Sound, RollbackFiles, Missing, PartOf, File, Routing, Removing, RollingBack,
     Recovering, Restoring, Undoing
<1>21. CASE UndoData
  BY <1>21, AssetFacts DEF UndoData, Step, NoMem, DiskTypes, CommandTypes, Mems,
     RecordInv, Sound, RollbackFiles, Missing, PartOf, File, Routing, Removing, RollingBack,
     Recovering, Restoring, Undoing
<1>22. CASE Recover
  BY <1>22, AssetFacts DEF Recover, Recoverable, Known, Original, NoMem, DiskTypes,
     CommandTypes, Mems, RecordInv, Sound, RollbackFiles, Missing, PartOf, File, Routing,
     Removing, RollingBack, Recovering, Restoring, Undoing
<1>23. CASE RecoverRouting
  BY <1>23, AssetFacts DEF RecoverRouting, Known, Original, DiskTypes, CommandTypes,
     Mems, RecordInv, Sound, RollbackFiles, Missing, PartOf, File, Routing, Removing,
     RollingBack, Recovering, Restoring, Undoing
<1>24. CASE RecoverData
  BY <1>24, AssetFacts DEF RecoverData, DiskTypes, CommandTypes, Mems, RecordInv,
     Sound, RollbackFiles, Missing, PartOf, File, Routing, Removing, RollingBack, Recovering,
     Restoring, Undoing
<1>25. CASE RecoverConfig
  BY <1>25, AssetFacts DEF RecoverConfig, Step, Put, Original, DiskTypes, CommandTypes,
     Mems, RecordInv, Sound, RollbackFiles, Missing, PartOf, File, Routing, Removing,
     RollingBack, Recovering, Restoring, Undoing
<1>26. CASE RecoverCodex
  BY <1>26, AssetFacts DEF RecoverCodex, Step, Put, Original, DiskTypes, CommandTypes,
     Mems, RecordInv, Sound, RollbackFiles, Missing, PartOf, File, Routing, Removing,
     RollingBack, Recovering, Restoring, Undoing
<1>27. CASE RecoverLife
  BY <1>27, AssetFacts DEF RecoverLife, Step, DiskTypes, CommandTypes, Mems, RecordInv,
     Sound, RollbackFiles, Missing, PartOf, File, Routing, Removing, RollingBack, Recovering,
     Restoring, Undoing
<1>28. CASE RecoverMarker
  BY <1>28, AssetFacts DEF RecoverMarker, Step, NoReceipt, DiskTypes, CommandTypes,
     Mems, RecordInv, Sound, RollbackFiles, Missing, PartOf, File, Routing, Removing,
     RollingBack, Recovering, Restoring, Undoing
<1>29. CASE Restore
  BY <1>29, AssetFacts DEF Restore, Count, NoMem, Configured, DiskTypes, CommandTypes,
     Mems, RecordInv, Sound, RollbackFiles, Missing, PartOf, File, Routing, Removing,
     RollingBack, Recovering, Restoring, Undoing
<1>30. CASE RestoreRouting
  BY <1>30, AssetFacts DEF RestoreRouting, Original, Removed, DiskTypes, CommandTypes,
     Mems, RecordInv, Sound, RollbackFiles, Missing, PartOf, File, Routing, Removing,
     RollingBack, Recovering, Restoring, Undoing
<1>31. CASE RestoreData
  BY <1>31, AssetFacts DEF RestoreData, DiskTypes, CommandTypes, Mems, RecordInv,
     Sound, RollbackFiles, Missing, PartOf, File, Routing, Removing, RollingBack, Recovering,
     Restoring, Undoing
<1>32. CASE RestoreConfig
  BY <1>32, AssetFacts DEF RestoreConfig, Configured, Put, Original, DiskTypes,
     CommandTypes, Mems, RecordInv, Sound, RollbackFiles, Missing, PartOf, File, Routing,
     Removing, RollingBack, Recovering, Restoring, Undoing
<1>33. CASE RestoreLife
  BY <1>33, AssetFacts DEF RestoreLife, DiskTypes, CommandTypes, Mems, RecordInv,
     Sound, RollbackFiles, Missing, PartOf, File, Routing, Removing, RollingBack, Recovering,
     Restoring, Undoing
<1>34. CASE RestoreMarker
  BY <1>34, AssetFacts DEF RestoreMarker, Step, NoMem, DiskTypes, CommandTypes, Mems,
     RecordInv, Sound, RollbackFiles, Missing, PartOf, File, Routing, Removing, RollingBack,
     Recovering, Restoring, Undoing
<1>35. CASE Enable
  BY <1>35, AssetFacts DEF Enable, Configured, DiskTypes, CommandTypes, Mems,
     RecordInv, Sound, RollbackFiles, Missing, PartOf, File, Routing, Removing, RollingBack,
     Recovering, Restoring, Undoing
<1>36. CASE Raise
  BY <1>36, AssetFacts DEF Raise, Count, Removing, Restoring, DiskTypes, CommandTypes,
     Mems, RecordInv, Sound, RollbackFiles, Missing, PartOf, File, Routing, RollingBack,
     Recovering, Undoing
<1>37. CASE Kill
  BY <1>37, AssetFacts DEF Kill, Count, NoMem, Restoring, Undoing, DiskTypes,
     CommandTypes, Mems, RecordInv, Sound, RollbackFiles, Missing, PartOf, File, Routing,
     Removing, RollingBack, Recovering
<1>38. ASSUME NEW f \in File, Edit(f) PROVE RollbackFiles'
  BY <1>38, AssetFacts DEF Edit, Count, Put, Recovering, DiskTypes, CommandTypes, Mems,
     RecordInv, Sound, RollbackFiles, Missing, PartOf, File, Routing, Removing, RollingBack,
     Restoring, Undoing
<1>39. ASSUME NEW p \in Late, Check(p) PROVE RollbackFiles'
  BY <1>39, AssetFacts DEF Check, DiskTypes, CommandTypes, Mems, RecordInv, Sound,
     RollbackFiles, Missing, PartOf, File, Routing, Removing, RollingBack, Recovering,
     Restoring, Undoing
<1>40. CASE TakeLease
  BY <1>40, AssetFacts DEF TakeLease, DiskTypes, CommandTypes, Mems, RecordInv, Sound,
     RollbackFiles, Missing, PartOf, File, Routing, Removing, RollingBack, Recovering,
     Restoring, Undoing
<1>41. CASE UNCHANGED vars
  BY <1>41, AssetFacts DEF vars, DiskTypes, CommandTypes, Mems, RecordInv, Sound,
     RollbackFiles, Missing, PartOf, File, Routing, Removing, RollingBack, Recovering,
     Restoring, Undoing
<1>42. CASE RaiseUnrecorded
  BY <1>42, AssetFacts DEF RaiseUnrecorded, Count, Put, Configured, Removing, Restoring,
     DiskTypes, CommandTypes,
     Mems, RecordInv, Sound, RollbackFiles, Missing, PartOf, File, Routing, RollingBack,
     Recovering, Undoing
<1>43. CASE RollbackRaises
  BY <1>43, AssetFacts DEF RollbackRaises, LeavesAssets, Leaves, Step, Count, NoMem,
     Removing, Restoring, DiskTypes, CommandTypes,
     Mems, RecordInv, Sound, RollbackFiles, Missing, PartOf, File, Routing, RollingBack,
     Recovering, Undoing
<1>. QED
  BY <1>1, <1>2, <1>3, <1>4, <1>5, <1>6, <1>7, <1>8, <1>9, <1>10, <1>11, <1>12, <1>13,
     <1>14, <1>15, <1>16, <1>17, <1>18, <1>19, <1>20, <1>21, <1>22, <1>23, <1>24,
     <1>25, <1>26, <1>27, <1>28, <1>29, <1>30, <1>31, <1>32, <1>33, <1>34, <1>35,
     <1>36, <1>37, <1>38, <1>39, <1>40, <1>41, <1>42, <1>43 DEF Next, RemoveStep, RollbackStep,
     RecoverStep, RestoreStep

LEMMA RecoveryFilesKept ==
  ASSUME CommandTypes, DiskTypes, MarkerInv, RecordInv, RecoveryFiles, [Next]_vars
  PROVE  RecoveryFiles'
<1>1. CASE Remove
  BY <1>1 DEF Remove, Count, NoMem, Configured, Stable, DiskTypes, CommandTypes, Mems,
     Receipts, MarkerInv, RecordInv, Sound, RecoveryFiles, Missing, PartOf, File, Routing,
     Removing, RollingBack, Recovering, Restoring, Undoing
<1>2. CASE PublishReceipt
  BY <1>2 DEF PublishReceipt, Step, DiskTypes, CommandTypes, Mems, Receipts, MarkerInv,
     RecordInv, Sound, RecoveryFiles, Missing, PartOf, File, Routing, Removing, RollingBack,
     Recovering, Restoring, Undoing
<1>3. CASE PublishMarker
  BY <1>3 DEF PublishMarker, Step, DiskTypes, CommandTypes, Mems, Receipts, MarkerInv,
     RecordInv, Sound, RecoveryFiles, Missing, PartOf, File, Routing, Removing, RollingBack,
     Recovering, Restoring, Undoing
<1>4. CASE PublishRemoving
  BY <1>4 DEF PublishRemoving, Step, DiskTypes, CommandTypes, Mems, Receipts,
     MarkerInv, RecordInv, Sound, RecoveryFiles, Missing, PartOf, File, Routing, Removing,
     RollingBack, Recovering, Restoring, Undoing
<1>5. CASE RemoveCodex
  BY <1>5 DEF RemoveCodex, Step, Put, DiskTypes, CommandTypes, Mems, Receipts,
     MarkerInv, RecordInv, Sound, RecoveryFiles, Missing, PartOf, File, Routing, Removing,
     RollingBack, Recovering, Restoring, Undoing
<1>6. CASE RemoveAsset
  BY <1>6 DEF RemoveAsset, Put, After, DiskTypes, CommandTypes, Mems, Receipts,
     MarkerInv, RecordInv, Sound, RecoveryFiles, Missing, PartOf, File, Routing, Removing,
     RollingBack, Recovering, Restoring, Undoing
<1>7. CASE UnlinkConfig
  BY <1>7 DEF UnlinkConfig, Put, DiskTypes, CommandTypes, Mems, Receipts, MarkerInv,
     RecordInv, Sound, RecoveryFiles, Missing, PartOf, File, Routing, Removing, RollingBack,
     Recovering, Restoring, Undoing
<1>8. CASE PublishRemoved
  BY <1>8 DEF PublishRemoved, Step, DiskTypes, CommandTypes, Mems, Receipts, MarkerInv,
     RecordInv, Sound, RecoveryFiles, Missing, PartOf, File, Routing, Removing, RollingBack,
     Recovering, Restoring, Undoing
<1>9. CASE MoveData
  BY <1>9 DEF MoveData, Step, DiskTypes, CommandTypes, Mems, Receipts, MarkerInv,
     RecordInv, Sound, RecoveryFiles, Missing, PartOf, File, Routing, Removing, RollingBack,
     Recovering, Restoring, Undoing
<1>10. CASE CompleteReceipt
  BY <1>10 DEF CompleteReceipt, Step, DiskTypes, CommandTypes, Mems, Receipts,
     MarkerInv, RecordInv, Sound, RecoveryFiles, Missing, PartOf, File, Routing, Removing,
     RollingBack, Recovering, Restoring, Undoing
<1>11. CASE CompleteMarker
  BY <1>11 DEF CompleteMarker, Step, NoMem, DiskTypes, CommandTypes, Mems, Receipts,
     MarkerInv, RecordInv, Sound, RecoveryFiles, Missing, PartOf, File, Routing, Removing,
     RollingBack, Recovering, Restoring, Undoing
<1>12. CASE RollbackRouting("rb_routing", "rb_data")
  BY <1>12 DEF RollbackRouting, Step, DiskTypes, CommandTypes, Mems, Receipts,
     MarkerInv, RecordInv, Sound, RecoveryFiles, Missing, PartOf, File, Routing, Removing,
     RollingBack, Recovering, Restoring, Undoing
<1>13. CASE RollbackData
  BY <1>13 DEF RollbackData, Step, DiskTypes, CommandTypes, Mems, Receipts, MarkerInv,
     RecordInv, Sound, RecoveryFiles, Missing, PartOf, File, Routing, Removing, RollingBack,
     Recovering, Restoring, Undoing
<1>14. CASE RollbackConfig
  BY <1>14 DEF RollbackConfig, Step, Put, Configured, DiskTypes, CommandTypes, Mems,
     Receipts, MarkerInv, RecordInv, Sound, RecoveryFiles, Missing, PartOf, File, Routing,
     Removing, RollingBack, Recovering, Restoring, Undoing
<1>15. CASE RollbackCodex
  BY <1>15 DEF RollbackCodex, Step, Put, DiskTypes, CommandTypes, Mems, Receipts,
     MarkerInv, RecordInv, Sound, RecoveryFiles, Missing, PartOf, File, Routing, Removing,
     RollingBack, Recovering, Restoring, Undoing
<1>16. CASE RollbackLife
  BY <1>16 DEF RollbackLife, Step, DiskTypes, CommandTypes, Mems, Receipts, MarkerInv,
     RecordInv, Sound, RecoveryFiles, Missing, PartOf, File, Routing, Removing, RollingBack,
     Recovering, Restoring, Undoing
<1>17. CASE RollbackMarker
  BY <1>17 DEF RollbackMarker, Step, NoMem, DiskTypes, CommandTypes, Mems, Receipts,
     MarkerInv, RecordInv, Sound, RecoveryFiles, Missing, PartOf, File, Routing, Removing,
     RollingBack, Recovering, Restoring, Undoing
<1>18. CASE RollbackRouting("u_routing", "u_life")
  BY <1>18 DEF RollbackRouting, Step, DiskTypes, CommandTypes, Mems, Receipts,
     MarkerInv, RecordInv, Sound, RecoveryFiles, Missing, PartOf, File, Routing, Removing,
     RollingBack, Recovering, Restoring, Undoing
<1>19. CASE UndoLife
  BY <1>19 DEF UndoLife, Step, DiskTypes, CommandTypes, Mems, Receipts, MarkerInv,
     RecordInv, Sound, RecoveryFiles, Missing, PartOf, File, Routing, Removing, RollingBack,
     Recovering, Restoring, Undoing
<1>20. CASE UndoConfig
  BY <1>20 DEF UndoConfig, Step, Put, DiskTypes, CommandTypes, Mems, Receipts,
     MarkerInv, RecordInv, Sound, RecoveryFiles, Missing, PartOf, File, Routing, Removing,
     RollingBack, Recovering, Restoring, Undoing
<1>21. CASE UndoData
  BY <1>21 DEF UndoData, Step, NoMem, DiskTypes, CommandTypes, Mems, Receipts,
     MarkerInv, RecordInv, Sound, RecoveryFiles, Missing, PartOf, File, Routing, Removing,
     RollingBack, Recovering, Restoring, Undoing
<1>22. CASE Recover
  <2>1. CASE receipt.status = "removed"
    BY <1>22, <2>1 DEF Recover, RecoveryFiles, Recovering
  <2>2. CASE receipt.status # "removed"
    <3>1. pc' = "r_routing" /\ file' = file /\ receipt' = receipt
      BY <1>22, <2>2 DEF Recover
    <3>2. /\ file["config"] = "off" => mem'.config
          /\ file["codex"] # receipt.before["codex"] => mem'.codex
      BY <1>22, <2>2 DEF Recover, Original, NoMem
    <3>. QED
      BY <3>1, <3>2 DEF RecoveryFiles, Missing, PartOf, Recovering
  <2>. QED
    BY <2>1, <2>2
<1>23. CASE RecoverRouting
  BY <1>23 DEF RecoverRouting, Known, Original, DiskTypes, CommandTypes, Mems,
     Receipts, MarkerInv, RecordInv, Sound, RecoveryFiles, Missing, PartOf, File, Routing,
     Removing, RollingBack, Recovering, Restoring, Undoing
<1>24. CASE RecoverData
  BY <1>24 DEF RecoverData, DiskTypes, CommandTypes, Mems, Receipts, MarkerInv,
     RecordInv, Sound, RecoveryFiles, Missing, PartOf, File, Routing, Removing, RollingBack,
     Recovering, Restoring, Undoing
<1>25. CASE RecoverConfig
  BY <1>25 DEF RecoverConfig, Step, Put, Original, DiskTypes, CommandTypes, Mems,
     Receipts, MarkerInv, RecordInv, Sound, RecoveryFiles, Missing, PartOf, File, Routing,
     Removing, RollingBack, Recovering, Restoring, Undoing
<1>26. CASE RecoverCodex
  BY <1>26 DEF RecoverCodex, Step, Put, Original, DiskTypes, CommandTypes, Mems,
     Receipts, MarkerInv, RecordInv, Sound, RecoveryFiles, Missing, PartOf, File, Routing,
     Removing, RollingBack, Recovering, Restoring, Undoing
<1>27. CASE RecoverLife
  BY <1>27 DEF RecoverLife, Step, DiskTypes, CommandTypes, Mems, Receipts, MarkerInv,
     RecordInv, Sound, RecoveryFiles, Missing, PartOf, File, Routing, Removing, RollingBack,
     Recovering, Restoring, Undoing
<1>28. CASE RecoverMarker
  BY <1>28 DEF RecoverMarker, Step, NoReceipt, DiskTypes, CommandTypes, Mems, Receipts,
     MarkerInv, RecordInv, Sound, RecoveryFiles, Missing, PartOf, File, Routing, Removing,
     RollingBack, Recovering, Restoring, Undoing
<1>29. CASE Restore
  BY <1>29 DEF Restore, Count, NoMem, Configured, DiskTypes, CommandTypes, Mems,
     Receipts, MarkerInv, RecordInv, Sound, RecoveryFiles, Missing, PartOf, File, Routing,
     Removing, RollingBack, Recovering, Restoring, Undoing
<1>30. CASE RestoreRouting
  BY <1>30 DEF RestoreRouting, Original, Removed, DiskTypes, CommandTypes, Mems,
     Receipts, MarkerInv, RecordInv, Sound, RecoveryFiles, Missing, PartOf, File, Routing,
     Removing, RollingBack, Recovering, Restoring, Undoing
<1>31. CASE RestoreData
  BY <1>31 DEF RestoreData, DiskTypes, CommandTypes, Mems, Receipts, MarkerInv,
     RecordInv, Sound, RecoveryFiles, Missing, PartOf, File, Routing, Removing, RollingBack,
     Recovering, Restoring, Undoing
<1>32. CASE RestoreConfig
  BY <1>32 DEF RestoreConfig, Configured, Put, Original, DiskTypes, CommandTypes, Mems,
     Receipts, MarkerInv, RecordInv, Sound, RecoveryFiles, Missing, PartOf, File, Routing,
     Removing, RollingBack, Recovering, Restoring, Undoing
<1>33. CASE RestoreLife
  BY <1>33 DEF RestoreLife, DiskTypes, CommandTypes, Mems, Receipts, MarkerInv,
     RecordInv, Sound, RecoveryFiles, Missing, PartOf, File, Routing, Removing, RollingBack,
     Recovering, Restoring, Undoing
<1>34. CASE RestoreMarker
  BY <1>34 DEF RestoreMarker, Step, NoMem, DiskTypes, CommandTypes, Mems, Receipts,
     MarkerInv, RecordInv, Sound, RecoveryFiles, Missing, PartOf, File, Routing, Removing,
     RollingBack, Recovering, Restoring, Undoing
<1>35. CASE Enable
  BY <1>35 DEF Enable, Configured, DiskTypes, CommandTypes, Mems, Receipts, MarkerInv,
     RecordInv, Sound, RecoveryFiles, Missing, PartOf, File, Routing, Removing, RollingBack,
     Recovering, Restoring, Undoing
<1>36. CASE Raise
  BY <1>36 DEF Raise, Count, Removing, Restoring, DiskTypes, CommandTypes, Mems,
     Receipts, MarkerInv, RecordInv, Sound, RecoveryFiles, Missing, PartOf, File, Routing,
     RollingBack, Recovering, Undoing
<1>37. CASE Kill
  BY <1>37 DEF Kill, Count, NoMem, Restoring, Undoing, DiskTypes, CommandTypes, Mems,
     Receipts, MarkerInv, RecordInv, Sound, RecoveryFiles, Missing, PartOf, File, Routing,
     Removing, RollingBack, Recovering
<1>38. ASSUME NEW f \in File, Edit(f) PROVE RecoveryFiles'
  BY <1>38 DEF Edit, Count, Put, Recovering, DiskTypes, CommandTypes, Mems, Receipts,
     MarkerInv, RecordInv, Sound, RecoveryFiles, Missing, PartOf, File, Routing, Removing,
     RollingBack, Restoring, Undoing
<1>39. ASSUME NEW p \in Late, Check(p) PROVE RecoveryFiles'
  BY <1>39 DEF Check, DiskTypes, CommandTypes, Mems, Receipts, MarkerInv, RecordInv,
     Sound, RecoveryFiles, Missing, PartOf, File, Routing, Removing, RollingBack, Recovering,
     Restoring, Undoing
<1>40. CASE TakeLease
  BY <1>40 DEF TakeLease, DiskTypes, CommandTypes, Mems, Receipts, MarkerInv,
     RecordInv, Sound, RecoveryFiles, Missing, PartOf, File, Routing, Removing, RollingBack,
     Recovering, Restoring, Undoing
<1>41. CASE UNCHANGED vars
  BY <1>41 DEF vars, DiskTypes, CommandTypes, Mems, Receipts, MarkerInv, RecordInv,
     Sound, RecoveryFiles, Missing, PartOf, File, Routing, Removing, RollingBack, Recovering,
     Restoring, Undoing
<1>42. CASE RaiseUnrecorded
  BY <1>42 DEF RaiseUnrecorded, Count, Put, Configured, Removing, Restoring, DiskTypes,
     CommandTypes, Mems,
     Receipts, MarkerInv, RecordInv, Sound, RecoveryFiles, Missing, PartOf, File, Routing,
     RollingBack, Recovering, Undoing
<1>43. CASE RollbackRaises
  BY <1>43 DEF RollbackRaises, LeavesAssets, Leaves, Step, Count, NoMem, Removing,
     Restoring, DiskTypes, CommandTypes, Mems,
     Receipts, MarkerInv, RecordInv, Sound, RecoveryFiles, Missing, PartOf, File, Routing,
     RollingBack, Recovering, Undoing
<1>. QED
  BY <1>1, <1>2, <1>3, <1>4, <1>5, <1>6, <1>7, <1>8, <1>9, <1>10, <1>11, <1>12, <1>13,
     <1>14, <1>15, <1>16, <1>17, <1>18, <1>19, <1>20, <1>21, <1>22, <1>23, <1>24,
     <1>25, <1>26, <1>27, <1>28, <1>29, <1>30, <1>31, <1>32, <1>33, <1>34, <1>35,
     <1>36, <1>37, <1>38, <1>39, <1>40, <1>41, <1>42, <1>43 DEF Next, RemoveStep, RollbackStep,
     RecoverStep, RestoreStep

LEMMA RestKept ==
  ASSUME CommandTypes, DiskTypes, MarkerInv, RecordInv, LifeInv, HomeInv,
         RollbackFiles, RecoveryFiles, RestInv, [Next]_vars
  PROVE  RestInv'
<1>1. CASE Remove
  BY <1>1 DEF Remove, Count, NoMem, Configured, Stable, DiskTypes, CommandTypes, Mems,
     MarkerInv, RecordInv, Sound, LifeInv, HomeInv, RollbackFiles, RecoveryFiles,
     RestInv, Missing, PartOf, File, Routing, Removing, RollingBack, Recovering, Restoring,
     Undoing
<1>2. CASE PublishReceipt
  BY <1>2 DEF PublishReceipt, Step, DiskTypes, CommandTypes, Mems, MarkerInv,
     RecordInv, Sound, LifeInv, HomeInv, RollbackFiles, RecoveryFiles, RestInv,
     Missing, PartOf, File, Routing, Stable, Removing, RollingBack, Recovering, Restoring,
     Undoing
<1>3. CASE PublishMarker
  BY <1>3 DEF PublishMarker, Step, DiskTypes, CommandTypes, Mems, MarkerInv, RecordInv,
     Sound, LifeInv, HomeInv, RollbackFiles, RecoveryFiles, RestInv, Missing, PartOf, File,
     Routing, Stable, Removing, RollingBack, Recovering, Restoring, Undoing
<1>4. CASE PublishRemoving
  BY <1>4 DEF PublishRemoving, Step, DiskTypes, CommandTypes, Mems, MarkerInv,
     RecordInv, Sound, LifeInv, HomeInv, RollbackFiles, RecoveryFiles, RestInv,
     Missing, PartOf, File, Routing, Stable, Removing, RollingBack, Recovering, Restoring,
     Undoing
<1>5. CASE RemoveCodex
  BY <1>5 DEF RemoveCodex, Step, Put, DiskTypes, CommandTypes, Mems, MarkerInv,
     RecordInv, Sound, LifeInv, HomeInv, RollbackFiles, RecoveryFiles, RestInv,
     Missing, PartOf, File, Routing, Stable, Removing, RollingBack, Recovering, Restoring,
     Undoing
<1>6. CASE RemoveAsset
  BY <1>6 DEF RemoveAsset, Put, After, DiskTypes, CommandTypes, Mems, MarkerInv,
     RecordInv, Sound, LifeInv, HomeInv, RollbackFiles, RecoveryFiles, RestInv,
     Missing, PartOf, File, Routing, Stable, Removing, RollingBack, Recovering, Restoring,
     Undoing
<1>7. CASE UnlinkConfig
  BY <1>7 DEF UnlinkConfig, Put, DiskTypes, CommandTypes, Mems, MarkerInv, RecordInv,
     Sound, LifeInv, HomeInv, RollbackFiles, RecoveryFiles, RestInv, Missing, PartOf, File,
     Routing, Stable, Removing, RollingBack, Recovering, Restoring, Undoing
<1>8. CASE PublishRemoved
  BY <1>8 DEF PublishRemoved, Step, DiskTypes, CommandTypes, Mems, MarkerInv,
     RecordInv, Sound, LifeInv, HomeInv, RollbackFiles, RecoveryFiles, RestInv,
     Missing, PartOf, File, Routing, Stable, Removing, RollingBack, Recovering, Restoring,
     Undoing
<1>9. CASE MoveData
  BY <1>9 DEF MoveData, Step, DiskTypes, CommandTypes, Mems, MarkerInv, RecordInv,
     Sound, LifeInv, HomeInv, RollbackFiles, RecoveryFiles, RestInv, Missing, PartOf, File,
     Routing, Stable, Removing, RollingBack, Recovering, Restoring, Undoing
<1>10. CASE CompleteReceipt
  BY <1>10 DEF CompleteReceipt, Step, DiskTypes, CommandTypes, Mems, MarkerInv,
     RecordInv, Sound, LifeInv, HomeInv, RollbackFiles, RecoveryFiles, RestInv,
     Missing, PartOf, File, Routing, Stable, Removing, RollingBack, Recovering, Restoring,
     Undoing
<1>11. CASE CompleteMarker
  BY <1>11 DEF CompleteMarker, Step, NoMem, DiskTypes, CommandTypes, Mems, MarkerInv,
     RecordInv, Sound, LifeInv, HomeInv, RollbackFiles, RecoveryFiles, RestInv,
     Missing, PartOf, File, Routing, Stable, Removing, RollingBack, Recovering, Restoring,
     Undoing
<1>12. CASE RollbackRouting("rb_routing", "rb_data")
  BY <1>12 DEF RollbackRouting, Step, DiskTypes, CommandTypes, Mems, MarkerInv,
     RecordInv, Sound, LifeInv, HomeInv, RollbackFiles, RecoveryFiles, RestInv,
     Missing, PartOf, File, Routing, Stable, Removing, RollingBack, Recovering, Restoring,
     Undoing
<1>13. CASE RollbackData
  BY <1>13 DEF RollbackData, Step, DiskTypes, CommandTypes, Mems, MarkerInv, RecordInv,
     Sound, LifeInv, HomeInv, RollbackFiles, RecoveryFiles, RestInv, Missing, PartOf, File,
     Routing, Stable, Removing, RollingBack, Recovering, Restoring, Undoing
<1>14. CASE RollbackConfig
  BY <1>14 DEF RollbackConfig, Step, Put, Configured, DiskTypes, CommandTypes, Mems,
     MarkerInv, RecordInv, Sound, LifeInv, HomeInv, RollbackFiles, RecoveryFiles,
     RestInv, Missing, PartOf, File, Routing, Stable, Removing, RollingBack, Recovering,
     Restoring, Undoing
<1>15. CASE RollbackCodex
  BY <1>15 DEF RollbackCodex, Step, Put, DiskTypes, CommandTypes, Mems, MarkerInv,
     RecordInv, Sound, LifeInv, HomeInv, RollbackFiles, RecoveryFiles, RestInv,
     Missing, PartOf, File, Routing, Stable, Removing, RollingBack, Recovering, Restoring,
     Undoing
<1>16. CASE RollbackLife
  BY <1>16 DEF RollbackLife, Step, DiskTypes, CommandTypes, Mems, MarkerInv, RecordInv,
     Sound, LifeInv, HomeInv, RollbackFiles, RecoveryFiles, RestInv, Missing, PartOf, File,
     Routing, Stable, Removing, RollingBack, Recovering, Restoring, Undoing
<1>17. CASE RollbackMarker
  BY <1>17 DEF RollbackMarker, Step, NoMem, DiskTypes, CommandTypes, Mems, MarkerInv,
     RecordInv, Sound, LifeInv, HomeInv, RollbackFiles, RecoveryFiles, RestInv,
     Missing, PartOf, File, Routing, Stable, Removing, RollingBack, Recovering, Restoring,
     Undoing
<1>18. CASE RollbackRouting("u_routing", "u_life")
  BY <1>18 DEF RollbackRouting, Step, DiskTypes, CommandTypes, Mems, MarkerInv,
     RecordInv, Sound, LifeInv, HomeInv, RollbackFiles, RecoveryFiles, RestInv,
     Missing, PartOf, File, Routing, Stable, Removing, RollingBack, Recovering, Restoring,
     Undoing
<1>19. CASE UndoLife
  BY <1>19 DEF UndoLife, Step, DiskTypes, CommandTypes, Mems, MarkerInv, RecordInv,
     Sound, LifeInv, HomeInv, RollbackFiles, RecoveryFiles, RestInv, Missing, PartOf, File,
     Routing, Stable, Removing, RollingBack, Recovering, Restoring, Undoing
<1>20. CASE UndoConfig
  BY <1>20 DEF UndoConfig, Step, Put, DiskTypes, CommandTypes, Mems, MarkerInv,
     RecordInv, Sound, LifeInv, HomeInv, RollbackFiles, RecoveryFiles, RestInv,
     Missing, PartOf, File, Routing, Stable, Removing, RollingBack, Recovering, Restoring,
     Undoing
<1>21. CASE UndoData
  BY <1>21 DEF UndoData, Step, NoMem, DiskTypes, CommandTypes, Mems, MarkerInv,
     RecordInv, Sound, LifeInv, HomeInv, RollbackFiles, RecoveryFiles, RestInv,
     Missing, PartOf, File, Routing, Stable, Removing, RollingBack, Recovering, Restoring,
     Undoing
<1>22. CASE Recover
  BY <1>22 DEF Recover, Recoverable, Known, Original, NoMem, DiskTypes, CommandTypes,
     Mems, MarkerInv, RecordInv, Sound, LifeInv, HomeInv, RollbackFiles, RecoveryFiles,
     RestInv, Missing, PartOf, File, Routing, Stable, Removing, RollingBack, Recovering,
     Restoring, Undoing
<1>23. CASE RecoverRouting
  BY <1>23 DEF RecoverRouting, Known, Original, DiskTypes, CommandTypes, Mems,
     MarkerInv, RecordInv, Sound, LifeInv, HomeInv, RollbackFiles, RecoveryFiles,
     RestInv, Missing, PartOf, File, Routing, Stable, Removing, RollingBack, Recovering,
     Restoring, Undoing
<1>24. CASE RecoverData
  BY <1>24 DEF RecoverData, DiskTypes, CommandTypes, Mems, MarkerInv, RecordInv, Sound,
     LifeInv, HomeInv, RollbackFiles, RecoveryFiles, RestInv, Missing, PartOf, File, Routing,
     Stable, Removing, RollingBack, Recovering, Restoring, Undoing
<1>25. CASE RecoverConfig
  BY <1>25 DEF RecoverConfig, Step, Put, Original, DiskTypes, CommandTypes, Mems,
     MarkerInv, RecordInv, Sound, LifeInv, HomeInv, RollbackFiles, RecoveryFiles,
     RestInv, Missing, PartOf, File, Routing, Stable, Removing, RollingBack, Recovering,
     Restoring, Undoing
<1>26. CASE RecoverCodex
  BY <1>26 DEF RecoverCodex, Step, Put, Original, DiskTypes, CommandTypes, Mems,
     MarkerInv, RecordInv, Sound, LifeInv, HomeInv, RollbackFiles, RecoveryFiles,
     RestInv, Missing, PartOf, File, Routing, Stable, Removing, RollingBack, Recovering,
     Restoring, Undoing
<1>27. CASE RecoverLife
  BY <1>27 DEF RecoverLife, Step, DiskTypes, CommandTypes, Mems, MarkerInv, RecordInv,
     Sound, LifeInv, HomeInv, RollbackFiles, RecoveryFiles, RestInv, Missing, PartOf, File,
     Routing, Stable, Removing, RollingBack, Recovering, Restoring, Undoing
<1>28. CASE RecoverMarker
  BY <1>28 DEF RecoverMarker, Step, NoReceipt, DiskTypes, CommandTypes, Mems,
     MarkerInv, RecordInv, Sound, LifeInv, HomeInv, RollbackFiles, RecoveryFiles,
     RestInv, Missing, PartOf, File, Routing, Stable, Removing, RollingBack, Recovering,
     Restoring, Undoing
<1>29. CASE Restore
  BY <1>29 DEF Restore, Count, NoMem, Configured, DiskTypes, CommandTypes, Mems,
     MarkerInv, RecordInv, Sound, LifeInv, HomeInv, RollbackFiles, RecoveryFiles,
     RestInv, Missing, PartOf, File, Routing, Stable, Removing, RollingBack, Recovering,
     Restoring, Undoing
<1>30. CASE RestoreRouting
  BY <1>30 DEF RestoreRouting, Original, Removed, DiskTypes, CommandTypes, Mems,
     MarkerInv, RecordInv, Sound, LifeInv, HomeInv, RollbackFiles, RecoveryFiles,
     RestInv, Missing, PartOf, File, Routing, Stable, Removing, RollingBack, Recovering,
     Restoring, Undoing
<1>31. CASE RestoreData
  BY <1>31 DEF RestoreData, DiskTypes, CommandTypes, Mems, MarkerInv, RecordInv, Sound,
     LifeInv, HomeInv, RollbackFiles, RecoveryFiles, RestInv, Missing, PartOf, File, Routing,
     Stable, Removing, RollingBack, Recovering, Restoring, Undoing
<1>32. CASE RestoreConfig
  BY <1>32 DEF RestoreConfig, Configured, Put, Original, DiskTypes, CommandTypes, Mems,
     MarkerInv, RecordInv, Sound, LifeInv, HomeInv, RollbackFiles, RecoveryFiles,
     RestInv, Missing, PartOf, File, Routing, Stable, Removing, RollingBack, Recovering,
     Restoring, Undoing
<1>33. CASE RestoreLife
  BY <1>33 DEF RestoreLife, DiskTypes, CommandTypes, Mems, MarkerInv, RecordInv,
     Sound, LifeInv, HomeInv, RollbackFiles, RecoveryFiles, RestInv, Missing, PartOf, File,
     Routing, Stable, Removing, RollingBack, Recovering, Restoring, Undoing
<1>34. CASE RestoreMarker
  BY <1>34 DEF RestoreMarker, Step, NoMem, DiskTypes, CommandTypes, Mems, MarkerInv,
     RecordInv, Sound, LifeInv, HomeInv, RollbackFiles, RecoveryFiles, RestInv,
     Missing, PartOf, File, Routing, Stable, Removing, RollingBack, Recovering, Restoring,
     Undoing
<1>35. CASE Enable
  BY <1>35 DEF Enable, Configured, DiskTypes, CommandTypes, Mems, MarkerInv, RecordInv,
     Sound, LifeInv, HomeInv, RollbackFiles, RecoveryFiles, RestInv, Missing, PartOf, File,
     Routing, Stable, Removing, RollingBack, Recovering, Restoring, Undoing
<1>36. CASE Raise
  BY <1>36 DEF Raise, Count, Removing, Restoring, DiskTypes, CommandTypes, Mems,
     MarkerInv, RecordInv, Sound, LifeInv, HomeInv, RollbackFiles, RecoveryFiles,
     RestInv, Missing, PartOf, File, Routing, Stable, RollingBack, Recovering, Undoing
<1>37. CASE Kill
  BY <1>37 DEF Kill, Count, NoMem, Restoring, Undoing, DiskTypes, CommandTypes, Mems,
     MarkerInv, RecordInv, Sound, LifeInv, HomeInv, RollbackFiles, RecoveryFiles,
     RestInv, Missing, PartOf, File, Routing, Stable, Removing, RollingBack, Recovering
<1>38. ASSUME NEW f \in File, Edit(f) PROVE RestInv'
  BY <1>38 DEF Edit, Count, Put, Recovering, DiskTypes, CommandTypes, Mems, MarkerInv,
     RecordInv, Sound, LifeInv, HomeInv, RollbackFiles, RecoveryFiles, RestInv,
     Missing, PartOf, File, Routing, Stable, Removing, RollingBack, Restoring, Undoing
<1>39. ASSUME NEW p \in Late, Check(p) PROVE RestInv'
  BY <1>39 DEF Check, DiskTypes, CommandTypes, Mems, MarkerInv, RecordInv, Sound,
     LifeInv, HomeInv, RollbackFiles, RecoveryFiles, RestInv, Missing, PartOf, File, Routing,
     Stable, Removing, RollingBack, Recovering, Restoring, Undoing
<1>40. CASE TakeLease
  BY <1>40 DEF TakeLease, DiskTypes, CommandTypes, Mems, MarkerInv, RecordInv, Sound,
     LifeInv, HomeInv, RollbackFiles, RecoveryFiles, RestInv, Missing, PartOf, File, Routing,
     Stable, Removing, RollingBack, Recovering, Restoring, Undoing
<1>41. CASE UNCHANGED vars
  BY <1>41 DEF vars, DiskTypes, CommandTypes, Mems, MarkerInv, RecordInv, Sound,
     LifeInv, HomeInv, RollbackFiles, RecoveryFiles, RestInv, Missing, PartOf, File, Routing,
     Stable, Removing, RollingBack, Recovering, Restoring, Undoing
<1>42. CASE RaiseUnrecorded
  BY <1>42 DEF RaiseUnrecorded, Count, Put, Configured, Removing, Restoring, DiskTypes,
     CommandTypes, Mems,
     MarkerInv, RecordInv, Sound, LifeInv, HomeInv, RollbackFiles, RecoveryFiles,
     RestInv, Missing, PartOf, File, Routing, Stable, RollingBack, Recovering, Undoing
<1>43. CASE RollbackRaises
  BY <1>43 DEF RollbackRaises, LeavesAssets, Leaves, Step, Count, NoMem, Removing,
     Restoring, DiskTypes, CommandTypes, Mems,
     MarkerInv, RecordInv, Sound, LifeInv, HomeInv, RollbackFiles, RecoveryFiles,
     RestInv, Missing, PartOf, File, Routing, Stable, RollingBack, Recovering, Undoing
<1>. QED
  BY <1>1, <1>2, <1>3, <1>4, <1>5, <1>6, <1>7, <1>8, <1>9, <1>10, <1>11, <1>12, <1>13,
     <1>14, <1>15, <1>16, <1>17, <1>18, <1>19, <1>20, <1>21, <1>22, <1>23, <1>24,
     <1>25, <1>26, <1>27, <1>28, <1>29, <1>30, <1>31, <1>32, <1>33, <1>34, <1>35,
     <1>36, <1>37, <1>38, <1>39, <1>40, <1>41, <1>42, <1>43 DEF Next, RemoveStep, RollbackStep,
     RecoverStep, RestoreStep

-----------------------------------------------------------------------------
(* What the user wrote stays: no command writes to a file after the user did,
   and none is recovered that was edited. *)

EditInv ==
  /\ \A f \in written : file[f] = "user"
  /\ pc \in Recovering => written = {}

LEMMA EditKept ==
  ASSUME ~EditsRace, CommandTypes, DiskTypes, EditInv, [Next]_vars
  PROVE  EditInv' /\ (pc # "idle" => written \subseteq written')
<1>1. CASE Remove
  BY <1>1, AssetFacts DEF Remove, Count, NoMem, Configured, Stable, DiskTypes,
     CommandTypes, Mems, EditInv, File, Routing, Removing, RollingBack, Recovering,
     Restoring, Undoing
<1>2. CASE PublishReceipt
  BY <1>2, AssetFacts DEF PublishReceipt, Step, DiskTypes, CommandTypes, Mems, EditInv,
     File, Routing, Removing, RollingBack, Recovering, Restoring, Undoing
<1>3. CASE PublishMarker
  BY <1>3, AssetFacts DEF PublishMarker, Step, DiskTypes, CommandTypes, Mems, EditInv,
     File, Routing, Removing, RollingBack, Recovering, Restoring, Undoing
<1>4. CASE PublishRemoving
  BY <1>4, AssetFacts DEF PublishRemoving, Step, DiskTypes, CommandTypes, Mems,
     EditInv, File, Routing, Removing, RollingBack, Recovering, Restoring, Undoing
<1>5. CASE RemoveCodex
  BY <1>5, AssetFacts DEF RemoveCodex, Step, Put, DiskTypes, CommandTypes, Mems,
     EditInv, File, Routing, Removing, RollingBack, Recovering, Restoring, Undoing
<1>6. CASE RemoveAsset
  BY <1>6, AssetFacts DEF RemoveAsset, Put, After, DiskTypes, CommandTypes, Mems,
     EditInv, File, Routing, Removing, RollingBack, Recovering, Restoring, Undoing
<1>7. CASE UnlinkConfig
  BY <1>7, AssetFacts DEF UnlinkConfig, Put, DiskTypes, CommandTypes, Mems, EditInv,
     File, Routing, Removing, RollingBack, Recovering, Restoring, Undoing
<1>8. CASE PublishRemoved
  BY <1>8, AssetFacts DEF PublishRemoved, Step, DiskTypes, CommandTypes, Mems, EditInv,
     File, Routing, Removing, RollingBack, Recovering, Restoring, Undoing
<1>9. CASE MoveData
  BY <1>9, AssetFacts DEF MoveData, Step, DiskTypes, CommandTypes, Mems, EditInv, File,
     Routing, Removing, RollingBack, Recovering, Restoring, Undoing
<1>10. CASE CompleteReceipt
  BY <1>10, AssetFacts DEF CompleteReceipt, Step, DiskTypes, CommandTypes, Mems,
     EditInv, File, Routing, Removing, RollingBack, Recovering, Restoring, Undoing
<1>11. CASE CompleteMarker
  BY <1>11, AssetFacts DEF CompleteMarker, Step, NoMem, DiskTypes, CommandTypes, Mems,
     EditInv, File, Routing, Removing, RollingBack, Recovering, Restoring, Undoing
<1>12. CASE RollbackRouting("rb_routing", "rb_data")
  BY <1>12, AssetFacts DEF RollbackRouting, Step, DiskTypes, CommandTypes, Mems,
     EditInv, File, Routing, Removing, RollingBack, Recovering, Restoring, Undoing
<1>13. CASE RollbackData
  BY <1>13, AssetFacts DEF RollbackData, Step, DiskTypes, CommandTypes, Mems, EditInv,
     File, Routing, Removing, RollingBack, Recovering, Restoring, Undoing
<1>14. CASE RollbackConfig
  BY <1>14, AssetFacts DEF RollbackConfig, Step, Put, Configured, DiskTypes,
     CommandTypes, Mems, EditInv, File, Routing, Removing, RollingBack, Recovering,
     Restoring, Undoing
<1>15. CASE RollbackCodex
  BY <1>15, AssetFacts DEF RollbackCodex, Step, Put, DiskTypes, CommandTypes, Mems,
     EditInv, File, Routing, Removing, RollingBack, Recovering, Restoring, Undoing
<1>16. CASE RollbackLife
  BY <1>16, AssetFacts DEF RollbackLife, Step, DiskTypes, CommandTypes, Mems, EditInv,
     File, Routing, Removing, RollingBack, Recovering, Restoring, Undoing
<1>17. CASE RollbackMarker
  BY <1>17, AssetFacts DEF RollbackMarker, Step, NoMem, DiskTypes, CommandTypes, Mems,
     EditInv, File, Routing, Removing, RollingBack, Recovering, Restoring, Undoing
<1>18. CASE RollbackRouting("u_routing", "u_life")
  BY <1>18, AssetFacts DEF RollbackRouting, Step, DiskTypes, CommandTypes, Mems,
     EditInv, File, Routing, Removing, RollingBack, Recovering, Restoring, Undoing
<1>19. CASE UndoLife
  BY <1>19, AssetFacts DEF UndoLife, Step, DiskTypes, CommandTypes, Mems, EditInv,
     File, Routing, Removing, RollingBack, Recovering, Restoring, Undoing
<1>20. CASE UndoConfig
  BY <1>20, AssetFacts DEF UndoConfig, Step, Put, DiskTypes, CommandTypes, Mems,
     EditInv, File, Routing, Removing, RollingBack, Recovering, Restoring, Undoing
<1>21. CASE UndoData
  BY <1>21, AssetFacts DEF UndoData, Step, NoMem, DiskTypes, CommandTypes, Mems,
     EditInv, File, Routing, Removing, RollingBack, Recovering, Restoring, Undoing
<1>22. CASE Recover
  BY <1>22, AssetFacts DEF Recover, Recoverable, Known, Original, NoMem, DiskTypes,
     CommandTypes, Mems, EditInv, File, Routing, Removing, RollingBack, Recovering,
     Restoring, Undoing
<1>23. CASE RecoverRouting
  BY <1>23, AssetFacts DEF RecoverRouting, Known, Original, DiskTypes, CommandTypes,
     Mems, EditInv, File, Routing, Removing, RollingBack, Recovering, Restoring, Undoing
<1>24. CASE RecoverData
  BY <1>24, AssetFacts DEF RecoverData, DiskTypes, CommandTypes, Mems, EditInv, File,
     Routing, Removing, RollingBack, Recovering, Restoring, Undoing
<1>25. CASE RecoverConfig
  BY <1>25, AssetFacts DEF RecoverConfig, Step, Put, Original, DiskTypes, CommandTypes,
     Mems, EditInv, File, Routing, Removing, RollingBack, Recovering, Restoring, Undoing
<1>26. CASE RecoverCodex
  BY <1>26, AssetFacts DEF RecoverCodex, Step, Put, Original, DiskTypes, CommandTypes,
     Mems, EditInv, File, Routing, Removing, RollingBack, Recovering, Restoring, Undoing
<1>27. CASE RecoverLife
  BY <1>27, AssetFacts DEF RecoverLife, Step, DiskTypes, CommandTypes, Mems, EditInv,
     File, Routing, Removing, RollingBack, Recovering, Restoring, Undoing
<1>28. CASE RecoverMarker
  BY <1>28, AssetFacts DEF RecoverMarker, Step, NoReceipt, DiskTypes, CommandTypes,
     Mems, EditInv, File, Routing, Removing, RollingBack, Recovering, Restoring, Undoing
<1>29. CASE Restore
  BY <1>29, AssetFacts DEF Restore, Count, NoMem, Configured, DiskTypes, CommandTypes,
     Mems, EditInv, File, Routing, Removing, RollingBack, Recovering, Restoring, Undoing
<1>30. CASE RestoreRouting
  BY <1>30, AssetFacts DEF RestoreRouting, Original, Removed, DiskTypes, CommandTypes,
     Mems, EditInv, File, Routing, Removing, RollingBack, Recovering, Restoring, Undoing
<1>31. CASE RestoreData
  BY <1>31, AssetFacts DEF RestoreData, DiskTypes, CommandTypes, Mems, EditInv, File,
     Routing, Removing, RollingBack, Recovering, Restoring, Undoing
<1>32. CASE RestoreConfig
  BY <1>32, AssetFacts DEF RestoreConfig, Configured, Put, Original, DiskTypes,
     CommandTypes, Mems, EditInv, File, Routing, Removing, RollingBack, Recovering,
     Restoring, Undoing
<1>33. CASE RestoreLife
  BY <1>33, AssetFacts DEF RestoreLife, DiskTypes, CommandTypes, Mems, EditInv,
     File, Routing, Removing, RollingBack, Recovering, Restoring, Undoing
<1>34. CASE RestoreMarker
  BY <1>34, AssetFacts DEF RestoreMarker, Step, NoMem, DiskTypes, CommandTypes, Mems,
     EditInv, File, Routing, Removing, RollingBack, Recovering, Restoring, Undoing
<1>35. CASE Enable
  BY <1>35, AssetFacts DEF Enable, Configured, DiskTypes, CommandTypes, Mems, EditInv,
     File, Routing, Removing, RollingBack, Recovering, Restoring, Undoing
<1>36. CASE Raise
  BY <1>36, AssetFacts DEF Raise, Count, Removing, Restoring, DiskTypes, CommandTypes,
     Mems, EditInv, File, Routing, RollingBack, Recovering, Undoing
<1>37. CASE Kill
  BY <1>37, AssetFacts DEF Kill, Count, NoMem, Restoring, Undoing, DiskTypes,
     CommandTypes, Mems, EditInv, File, Routing, Removing, RollingBack, Recovering
<1>38. ASSUME NEW f \in File, Edit(f) PROVE EditInv' /\ (pc # "idle" => written \subseteq written')
  BY <1>38, AssetFacts DEF Edit, Count, Put, Recovering, DiskTypes, CommandTypes, Mems,
     EditInv, File, Routing, Removing, RollingBack, Restoring, Undoing
<1>39. ASSUME NEW p \in Late, Check(p) PROVE EditInv' /\ (pc # "idle" => written \subseteq written')
  BY <1>39, AssetFacts DEF Check, DiskTypes, CommandTypes, Mems, EditInv, File,
     Routing, Removing, RollingBack, Recovering, Restoring, Undoing
<1>40. CASE TakeLease
  BY <1>40, AssetFacts DEF TakeLease, DiskTypes, CommandTypes, Mems, EditInv, File,
     Routing, Removing, RollingBack, Recovering, Restoring, Undoing
<1>41. CASE UNCHANGED vars
  BY <1>41, AssetFacts DEF vars, DiskTypes, CommandTypes, Mems, EditInv, File, Routing,
     Removing, RollingBack, Recovering, Restoring, Undoing
<1>42. CASE RaiseUnrecorded
  BY <1>42, AssetFacts DEF RaiseUnrecorded, Count, Put, Configured, Removing, Restoring,
     DiskTypes, CommandTypes,
     Mems, EditInv, File, Routing, RollingBack, Recovering, Undoing
<1>43. CASE RollbackRaises
  BY <1>43, AssetFacts DEF RollbackRaises, LeavesAssets, Leaves, Step, Count, NoMem,
     Removing, Restoring, DiskTypes, CommandTypes,
     Mems, EditInv, File, Routing, RollingBack, Recovering, Undoing
<1>. QED
  BY <1>1, <1>2, <1>3, <1>4, <1>5, <1>6, <1>7, <1>8, <1>9, <1>10, <1>11, <1>12, <1>13,
     <1>14, <1>15, <1>16, <1>17, <1>18, <1>19, <1>20, <1>21, <1>22, <1>23, <1>24,
     <1>25, <1>26, <1>27, <1>28, <1>29, <1>30, <1>31, <1>32, <1>33, <1>34, <1>35,
     <1>36, <1>37, <1>38, <1>39, <1>40, <1>41, <1>42, <1>43 DEF Next, RemoveStep, RollbackStep,
     RecoverStep, RestoreStep

-----------------------------------------------------------------------------
(* What a removal has removed is there to be restored, when no process is   *)
(* killed while it restores and none checked the project before.            *)

Gone ==
  /\ saved /\ home = "none" /\ life = "removed"
  /\ \A f \in Routing \cup {"config"} : file[f] # "on"

\* How far the removal has come.
ForwardInv ==
  /\ pc = "routing" => \A i \in 1..2 : i < at => file[Assets[i]] # "on"
  /\ pc \in {"config", "removed", "move", "receipt2", "marker2"} =>
       \A f \in Routing : file[f] # "on"
  /\ pc \in {"removed", "move", "receipt2", "marker2"} => file["config"] # "on"
  /\ pc \in {"move", "receipt2", "marker2"} => life = "removed"
  /\ pc \in {"receipt2", "marker2"} => saved /\ home = "none"

\* Only a removal that has come to its end says so in its receipt.  A rollback
\* does not take that back: killed in it, the next command would take the
\* receipt at its word.
StatusInv ==
  /\ pc \in Removing \ {"receipt", "marker2"} => receipt.status = "removing"
  /\ pc \in Recovering => receipt.status # "removed"
  /\ MaxRaises = 0 /\ pc \in RollingBack => receipt.status = "removing"
  /\ pc \in RollingBack /\ marker = "removing" /\ ~mem.marked => receipt.status = "removing"
  /\ pc = "idle" /\ marker = "removing" /\ receipt.status = "removed" =>
       Gone \/ "marker" \in failed

\* What the rollback of a restoration still has to take away again.
RestoreInv ==
  "marker" \notin failed =>
  /\ pc \in Restoring \cup Undoing =>
       IF mem.moved THEN home = "data" /\ ~saved ELSE home = "none" /\ saved
  /\ pc \in Restoring \cup {"u_routing"} =>
       \A f \in Routing : /\ file[f] = "on" => f \in mem.applied \ written \/ "routing" \in failed
                          /\ f \in mem.applied => mem.before[f] # "on"
  /\ pc \in Undoing \ {"u_routing"} =>
       \A f \in Routing : file[f] # "on" \/ "routing" \in failed
  /\ pc \in Restoring \cup {"u_routing", "u_life", "u_config"} /\ file["config"] = "on" =>
       \/ mem.config /\ ("config" \notin written \/ EditsRace)
       \/ "config" \in failed
  /\ pc = "u_data" => file["config"] # "on" \/ "config" \in failed
  /\ pc \in Restoring \ {"s_marker"} => mem.life = "none"
  /\ pc \in Restoring \cup {"u_routing", "u_life"} =>
       IF mem.life = "none" THEN life = "removed" \/ "life" \in failed ELSE mem.life = "removed"
  /\ pc \in {"u_config", "u_data"} => life = "removed" \/ "life" \in failed

Restorable == RemovedIsRestorable /\ ForwardInv /\ StatusInv /\ RestoreInv

LEMMA ForwardKept ==
  ASSUME Late = {}, CommandTypes, DiskTypes, ForwardInv, [Next]_vars
  PROVE  ForwardInv'
<1>1. CASE Remove
  BY <1>1, AssetFacts DEF Remove, Count, NoMem, Configured, Stable, DiskTypes,
     CommandTypes, Mems, ForwardInv, File, Routing, Removing, RollingBack, Recovering,
     Restoring, Undoing
<1>2. CASE PublishReceipt
  BY <1>2, AssetFacts DEF PublishReceipt, Step, DiskTypes, CommandTypes, Mems,
     ForwardInv, File, Routing, Removing, RollingBack, Recovering, Restoring, Undoing
<1>3. CASE PublishMarker
  BY <1>3, AssetFacts DEF PublishMarker, Step, DiskTypes, CommandTypes, Mems,
     ForwardInv, File, Routing, Removing, RollingBack, Recovering, Restoring, Undoing
<1>4. CASE PublishRemoving
  BY <1>4, AssetFacts DEF PublishRemoving, Step, DiskTypes, CommandTypes, Mems,
     ForwardInv, File, Routing, Removing, RollingBack, Recovering, Restoring, Undoing
<1>5. CASE RemoveCodex
  BY <1>5, AssetFacts DEF RemoveCodex, Step, Put, DiskTypes, CommandTypes, Mems,
     ForwardInv, File, Routing, Removing, RollingBack, Recovering, Restoring, Undoing
<1>6. CASE RemoveAsset
  BY <1>6, AssetFacts DEF RemoveAsset, Put, After, DiskTypes, CommandTypes, Mems,
     ForwardInv, File, Routing, Removing, RollingBack, Recovering, Restoring, Undoing
<1>7. CASE UnlinkConfig
  BY <1>7, AssetFacts DEF UnlinkConfig, Put, DiskTypes, CommandTypes, Mems, ForwardInv,
     File, Routing, Removing, RollingBack, Recovering, Restoring, Undoing
<1>8. CASE PublishRemoved
  BY <1>8, AssetFacts DEF PublishRemoved, Step, DiskTypes, CommandTypes, Mems,
     ForwardInv, File, Routing, Removing, RollingBack, Recovering, Restoring, Undoing
<1>9. CASE MoveData
  BY <1>9, AssetFacts DEF MoveData, Step, DiskTypes, CommandTypes, Mems, ForwardInv,
     File, Routing, Removing, RollingBack, Recovering, Restoring, Undoing
<1>10. CASE CompleteReceipt
  BY <1>10, AssetFacts DEF CompleteReceipt, Step, DiskTypes, CommandTypes, Mems,
     ForwardInv, File, Routing, Removing, RollingBack, Recovering, Restoring, Undoing
<1>11. CASE CompleteMarker
  BY <1>11, AssetFacts DEF CompleteMarker, Step, NoMem, DiskTypes, CommandTypes, Mems,
     ForwardInv, File, Routing, Removing, RollingBack, Recovering, Restoring, Undoing
<1>12. CASE RollbackRouting("rb_routing", "rb_data")
  BY <1>12, AssetFacts DEF RollbackRouting, Step, DiskTypes, CommandTypes, Mems,
     ForwardInv, File, Routing, Removing, RollingBack, Recovering, Restoring, Undoing
<1>13. CASE RollbackData
  BY <1>13, AssetFacts DEF RollbackData, Step, DiskTypes, CommandTypes, Mems,
     ForwardInv, File, Routing, Removing, RollingBack, Recovering, Restoring, Undoing
<1>14. CASE RollbackConfig
  BY <1>14, AssetFacts DEF RollbackConfig, Step, Put, Configured, DiskTypes,
     CommandTypes, Mems, ForwardInv, File, Routing, Removing, RollingBack, Recovering,
     Restoring, Undoing
<1>15. CASE RollbackCodex
  BY <1>15, AssetFacts DEF RollbackCodex, Step, Put, DiskTypes, CommandTypes, Mems,
     ForwardInv, File, Routing, Removing, RollingBack, Recovering, Restoring, Undoing
<1>16. CASE RollbackLife
  BY <1>16, AssetFacts DEF RollbackLife, Step, DiskTypes, CommandTypes, Mems,
     ForwardInv, File, Routing, Removing, RollingBack, Recovering, Restoring, Undoing
<1>17. CASE RollbackMarker
  BY <1>17, AssetFacts DEF RollbackMarker, Step, NoMem, DiskTypes, CommandTypes, Mems,
     ForwardInv, File, Routing, Removing, RollingBack, Recovering, Restoring, Undoing
<1>18. CASE RollbackRouting("u_routing", "u_life")
  BY <1>18, AssetFacts DEF RollbackRouting, Step, DiskTypes, CommandTypes, Mems,
     ForwardInv, File, Routing, Removing, RollingBack, Recovering, Restoring, Undoing
<1>19. CASE UndoLife
  BY <1>19, AssetFacts DEF UndoLife, Step, DiskTypes, CommandTypes, Mems, ForwardInv,
     File, Routing, Removing, RollingBack, Recovering, Restoring, Undoing
<1>20. CASE UndoConfig
  BY <1>20, AssetFacts DEF UndoConfig, Step, Put, DiskTypes, CommandTypes, Mems,
     ForwardInv, File, Routing, Removing, RollingBack, Recovering, Restoring, Undoing
<1>21. CASE UndoData
  BY <1>21, AssetFacts DEF UndoData, Step, NoMem, DiskTypes, CommandTypes, Mems,
     ForwardInv, File, Routing, Removing, RollingBack, Recovering, Restoring, Undoing
<1>22. CASE Recover
  BY <1>22, AssetFacts DEF Recover, Recoverable, Known, Original, NoMem, DiskTypes,
     CommandTypes, Mems, ForwardInv, File, Routing, Removing, RollingBack, Recovering,
     Restoring, Undoing
<1>23. CASE RecoverRouting
  BY <1>23, AssetFacts DEF RecoverRouting, Known, Original, DiskTypes, CommandTypes,
     Mems, ForwardInv, File, Routing, Removing, RollingBack, Recovering, Restoring,
     Undoing
<1>24. CASE RecoverData
  BY <1>24, AssetFacts DEF RecoverData, DiskTypes, CommandTypes, Mems, ForwardInv,
     File, Routing, Removing, RollingBack, Recovering, Restoring, Undoing
<1>25. CASE RecoverConfig
  BY <1>25, AssetFacts DEF RecoverConfig, Step, Put, Original, DiskTypes, CommandTypes,
     Mems, ForwardInv, File, Routing, Removing, RollingBack, Recovering, Restoring,
     Undoing
<1>26. CASE RecoverCodex
  BY <1>26, AssetFacts DEF RecoverCodex, Step, Put, Original, DiskTypes, CommandTypes,
     Mems, ForwardInv, File, Routing, Removing, RollingBack, Recovering, Restoring,
     Undoing
<1>27. CASE RecoverLife
  BY <1>27, AssetFacts DEF RecoverLife, Step, DiskTypes, CommandTypes, Mems,
     ForwardInv, File, Routing, Removing, RollingBack, Recovering, Restoring, Undoing
<1>28. CASE RecoverMarker
  BY <1>28, AssetFacts DEF RecoverMarker, Step, NoReceipt, DiskTypes, CommandTypes,
     Mems, ForwardInv, File, Routing, Removing, RollingBack, Recovering, Restoring,
     Undoing
<1>29. CASE Restore
  BY <1>29, AssetFacts DEF Restore, Count, NoMem, Configured, DiskTypes, CommandTypes,
     Mems, ForwardInv, File, Routing, Removing, RollingBack, Recovering, Restoring,
     Undoing
<1>30. CASE RestoreRouting
  BY <1>30, AssetFacts DEF RestoreRouting, Original, Removed, DiskTypes, CommandTypes,
     Mems, ForwardInv, File, Routing, Removing, RollingBack, Recovering, Restoring,
     Undoing
<1>31. CASE RestoreData
  BY <1>31, AssetFacts DEF RestoreData, DiskTypes, CommandTypes, Mems, ForwardInv,
     File, Routing, Removing, RollingBack, Recovering, Restoring, Undoing
<1>32. CASE RestoreConfig
  BY <1>32, AssetFacts DEF RestoreConfig, Configured, Put, Original, DiskTypes,
     CommandTypes, Mems, ForwardInv, File, Routing, Removing, RollingBack, Recovering,
     Restoring, Undoing
<1>33. CASE RestoreLife
  BY <1>33, AssetFacts DEF RestoreLife, DiskTypes, CommandTypes, Mems,
     ForwardInv, File, Routing, Removing, RollingBack, Recovering, Restoring, Undoing
<1>34. CASE RestoreMarker
  BY <1>34, AssetFacts DEF RestoreMarker, Step, NoMem, DiskTypes, CommandTypes, Mems,
     ForwardInv, File, Routing, Removing, RollingBack, Recovering, Restoring, Undoing
<1>35. CASE Enable
  BY <1>35, AssetFacts DEF Enable, Configured, DiskTypes, CommandTypes, Mems,
     ForwardInv, File, Routing, Removing, RollingBack, Recovering, Restoring, Undoing
<1>36. CASE Raise
  BY <1>36, AssetFacts DEF Raise, Count, Removing, Restoring, DiskTypes, CommandTypes,
     Mems, ForwardInv, File, Routing, RollingBack, Recovering, Undoing
<1>37. CASE Kill
  BY <1>37, AssetFacts DEF Kill, Count, NoMem, Restoring, Undoing, DiskTypes,
     CommandTypes, Mems, ForwardInv, File, Routing, Removing, RollingBack, Recovering
<1>38. ASSUME NEW f \in File, Edit(f) PROVE ForwardInv'
  BY <1>38, AssetFacts DEF Edit, Count, Put, Recovering, DiskTypes, CommandTypes, Mems,
     ForwardInv, File, Routing, Removing, RollingBack, Restoring, Undoing
<1>39. ASSUME NEW p \in Late, Check(p) PROVE ForwardInv'
  BY <1>39, AssetFacts DEF Check, DiskTypes, CommandTypes, Mems, ForwardInv, File,
     Routing, Removing, RollingBack, Recovering, Restoring, Undoing
<1>40. CASE TakeLease
  BY <1>40, AssetFacts DEF TakeLease, DiskTypes, CommandTypes, Mems, ForwardInv, File,
     Routing, Removing, RollingBack, Recovering, Restoring, Undoing
<1>41. CASE UNCHANGED vars
  BY <1>41, AssetFacts DEF vars, DiskTypes, CommandTypes, Mems, ForwardInv, File,
     Routing, Removing, RollingBack, Recovering, Restoring, Undoing
<1>42. CASE RaiseUnrecorded
  BY <1>42, AssetFacts DEF RaiseUnrecorded, Count, Put, Configured, Removing, Restoring,
     DiskTypes, CommandTypes,
     Mems, ForwardInv, File, Routing, RollingBack, Recovering, Undoing
<1>43. CASE RollbackRaises
  BY <1>43, AssetFacts DEF RollbackRaises, LeavesAssets, Leaves, Step, Count, NoMem,
     Removing, Restoring, DiskTypes, CommandTypes,
     Mems, ForwardInv, File, Routing, RollingBack, Recovering, Undoing
<1>. QED
  BY <1>1, <1>2, <1>3, <1>4, <1>5, <1>6, <1>7, <1>8, <1>9, <1>10, <1>11, <1>12, <1>13,
     <1>14, <1>15, <1>16, <1>17, <1>18, <1>19, <1>20, <1>21, <1>22, <1>23, <1>24,
     <1>25, <1>26, <1>27, <1>28, <1>29, <1>30, <1>31, <1>32, <1>33, <1>34, <1>35,
     <1>36, <1>37, <1>38, <1>39, <1>40, <1>41, <1>42, <1>43 DEF Next, RemoveStep, RollbackStep,
     RecoverStep, RestoreStep

LEMMA StatusKept ==
  ASSUME Late = {}, MaxKills = 0 \/ MaxRaises = 0, CommandTypes, DiskTypes, MarkerInv,
         ForwardInv, StatusInv, [Next]_vars
  PROVE  StatusInv'
<1>1. CASE Remove
  BY <1>1 DEF Remove, Count, NoMem, Configured, Stable, DiskTypes, CommandTypes, Mems,
     Receipts, Counts, MarkerInv, ForwardInv, StatusInv, Gone, File, Routing, Removing,
     RollingBack, Recovering, Restoring, Undoing
<1>2. CASE PublishReceipt
  BY <1>2 DEF PublishReceipt, Step, DiskTypes, CommandTypes, Mems, Receipts, Counts,
     MarkerInv, ForwardInv, StatusInv, Gone, File, Routing, Removing, RollingBack,
     Recovering, Restoring, Undoing
<1>3. CASE PublishMarker
  BY <1>3 DEF PublishMarker, Step, DiskTypes, CommandTypes, Mems, Receipts, Counts,
     MarkerInv, ForwardInv, StatusInv, Gone, File, Routing, Removing, RollingBack,
     Recovering, Restoring, Undoing
<1>4. CASE PublishRemoving
  BY <1>4 DEF PublishRemoving, Step, DiskTypes, CommandTypes, Mems, Receipts, Counts,
     MarkerInv, ForwardInv, StatusInv, Gone, File, Routing, Removing, RollingBack,
     Recovering, Restoring, Undoing
<1>5. CASE RemoveCodex
  BY <1>5 DEF RemoveCodex, Step, Put, DiskTypes, CommandTypes, Mems, Receipts, Counts,
     MarkerInv, ForwardInv, StatusInv, Gone, File, Routing, Removing, RollingBack,
     Recovering, Restoring, Undoing
<1>6. CASE RemoveAsset
  BY <1>6 DEF RemoveAsset, Put, After, DiskTypes, CommandTypes, Mems, Receipts, Counts,
     MarkerInv, ForwardInv, StatusInv, Gone, File, Routing, Removing, RollingBack,
     Recovering, Restoring, Undoing
<1>7. CASE UnlinkConfig
  BY <1>7 DEF UnlinkConfig, Put, DiskTypes, CommandTypes, Mems, Receipts, Counts,
     MarkerInv, ForwardInv, StatusInv, Gone, File, Routing, Removing, RollingBack,
     Recovering, Restoring, Undoing
<1>8. CASE PublishRemoved
  BY <1>8 DEF PublishRemoved, Step, DiskTypes, CommandTypes, Mems, Receipts, Counts,
     MarkerInv, ForwardInv, StatusInv, Gone, File, Routing, Removing, RollingBack,
     Recovering, Restoring, Undoing
<1>9. CASE MoveData
  BY <1>9 DEF MoveData, Step, DiskTypes, CommandTypes, Mems, Receipts, Counts,
     MarkerInv, ForwardInv, StatusInv, Gone, File, Routing, Removing, RollingBack,
     Recovering, Restoring, Undoing
<1>10. CASE CompleteReceipt
  BY <1>10 DEF CompleteReceipt, Step, DiskTypes, CommandTypes, Mems, Receipts, Counts,
     MarkerInv, ForwardInv, StatusInv, Gone, File, Routing, Removing, RollingBack,
     Recovering, Restoring, Undoing
<1>11. CASE CompleteMarker
  BY <1>11 DEF CompleteMarker, Step, NoMem, DiskTypes, CommandTypes, Mems, Receipts,
     Counts, MarkerInv, ForwardInv, StatusInv, Gone, File, Routing, Removing,
     RollingBack, Recovering, Restoring, Undoing
<1>12. CASE RollbackRouting("rb_routing", "rb_data")
  BY <1>12 DEF RollbackRouting, Step, DiskTypes, CommandTypes, Mems, Receipts, Counts,
     MarkerInv, ForwardInv, StatusInv, Gone, File, Routing, Removing, RollingBack,
     Recovering, Restoring, Undoing
<1>13. CASE RollbackData
  BY <1>13 DEF RollbackData, Step, DiskTypes, CommandTypes, Mems, Receipts, Counts,
     MarkerInv, ForwardInv, StatusInv, Gone, File, Routing, Removing, RollingBack,
     Recovering, Restoring, Undoing
<1>14. CASE RollbackConfig
  BY <1>14 DEF RollbackConfig, Step, Put, Configured, DiskTypes, CommandTypes, Mems,
     Receipts, Counts, MarkerInv, ForwardInv, StatusInv, Gone, File, Routing, Removing,
     RollingBack, Recovering, Restoring, Undoing
<1>15. CASE RollbackCodex
  BY <1>15 DEF RollbackCodex, Step, Put, DiskTypes, CommandTypes, Mems, Receipts,
     Counts, MarkerInv, ForwardInv, StatusInv, Gone, File, Routing, Removing,
     RollingBack, Recovering, Restoring, Undoing
<1>16. CASE RollbackLife
  BY <1>16 DEF RollbackLife, Step, DiskTypes, CommandTypes, Mems, Receipts, Counts,
     MarkerInv, ForwardInv, StatusInv, Gone, File, Routing, Removing, RollingBack,
     Recovering, Restoring, Undoing
<1>17. CASE RollbackMarker
  BY <1>17 DEF RollbackMarker, Step, NoMem, DiskTypes, CommandTypes, Mems, Receipts,
     Counts, MarkerInv, ForwardInv, StatusInv, Gone, File, Routing, Removing,
     RollingBack, Recovering, Restoring, Undoing
<1>18. CASE RollbackRouting("u_routing", "u_life")
  BY <1>18 DEF RollbackRouting, Step, DiskTypes, CommandTypes, Mems, Receipts, Counts,
     MarkerInv, ForwardInv, StatusInv, Gone, File, Routing, Removing, RollingBack,
     Recovering, Restoring, Undoing
<1>19. CASE UndoLife
  BY <1>19 DEF UndoLife, Step, DiskTypes, CommandTypes, Mems, Receipts, Counts,
     MarkerInv, ForwardInv, StatusInv, Gone, File, Routing, Removing, RollingBack,
     Recovering, Restoring, Undoing
<1>20. CASE UndoConfig
  BY <1>20 DEF UndoConfig, Step, Put, DiskTypes, CommandTypes, Mems, Receipts, Counts,
     MarkerInv, ForwardInv, StatusInv, Gone, File, Routing, Removing, RollingBack,
     Recovering, Restoring, Undoing
<1>21. CASE UndoData
  BY <1>21 DEF UndoData, Step, NoMem, DiskTypes, CommandTypes, Mems, Receipts, Counts,
     MarkerInv, ForwardInv, StatusInv, Gone, File, Routing, Removing, RollingBack,
     Recovering, Restoring, Undoing
<1>22. CASE Recover
  BY <1>22 DEF Recover, Recoverable, Known, Original, NoMem, DiskTypes, CommandTypes,
     Mems, Receipts, Counts, MarkerInv, ForwardInv, StatusInv, Gone, File, Routing,
     Removing, RollingBack, Recovering, Restoring, Undoing
<1>23. CASE RecoverRouting
  BY <1>23 DEF RecoverRouting, Known, Original, DiskTypes, CommandTypes, Mems,
     Receipts, Counts, MarkerInv, ForwardInv, StatusInv, Gone, File, Routing, Removing,
     RollingBack, Recovering, Restoring, Undoing
<1>24. CASE RecoverData
  BY <1>24 DEF RecoverData, DiskTypes, CommandTypes, Mems, Receipts, Counts, MarkerInv,
     ForwardInv, StatusInv, Gone, File, Routing, Removing, RollingBack, Recovering,
     Restoring, Undoing
<1>25. CASE RecoverConfig
  BY <1>25 DEF RecoverConfig, Step, Put, Original, DiskTypes, CommandTypes, Mems,
     Receipts, Counts, MarkerInv, ForwardInv, StatusInv, Gone, File, Routing, Removing,
     RollingBack, Recovering, Restoring, Undoing
<1>26. CASE RecoverCodex
  BY <1>26 DEF RecoverCodex, Step, Put, Original, DiskTypes, CommandTypes, Mems,
     Receipts, Counts, MarkerInv, ForwardInv, StatusInv, Gone, File, Routing, Removing,
     RollingBack, Recovering, Restoring, Undoing
<1>27. CASE RecoverLife
  BY <1>27 DEF RecoverLife, Step, DiskTypes, CommandTypes, Mems, Receipts, Counts,
     MarkerInv, ForwardInv, StatusInv, Gone, File, Routing, Removing, RollingBack,
     Recovering, Restoring, Undoing
<1>28. CASE RecoverMarker
  BY <1>28 DEF RecoverMarker, Step, NoReceipt, DiskTypes, CommandTypes, Mems, Receipts,
     Counts, MarkerInv, ForwardInv, StatusInv, Gone, File, Routing, Removing,
     RollingBack, Recovering, Restoring, Undoing
<1>29. CASE Restore
  BY <1>29 DEF Restore, Count, NoMem, Configured, DiskTypes, CommandTypes, Mems,
     Receipts, Counts, MarkerInv, ForwardInv, StatusInv, Gone, File, Routing, Removing,
     RollingBack, Recovering, Restoring, Undoing
<1>30. CASE RestoreRouting
  BY <1>30 DEF RestoreRouting, Original, Removed, DiskTypes, CommandTypes, Mems,
     Receipts, Counts, MarkerInv, ForwardInv, StatusInv, Gone, File, Routing, Removing,
     RollingBack, Recovering, Restoring, Undoing
<1>31. CASE RestoreData
  BY <1>31 DEF RestoreData, DiskTypes, CommandTypes, Mems, Receipts, Counts, MarkerInv,
     ForwardInv, StatusInv, Gone, File, Routing, Removing, RollingBack, Recovering,
     Restoring, Undoing
<1>32. CASE RestoreConfig
  BY <1>32 DEF RestoreConfig, Configured, Put, Original, DiskTypes, CommandTypes, Mems,
     Receipts, Counts, MarkerInv, ForwardInv, StatusInv, Gone, File, Routing, Removing,
     RollingBack, Recovering, Restoring, Undoing
<1>33. CASE RestoreLife
  BY <1>33 DEF RestoreLife, DiskTypes, CommandTypes, Mems, Receipts, Counts,
     MarkerInv, ForwardInv, StatusInv, Gone, File, Routing, Removing, RollingBack,
     Recovering, Restoring, Undoing
<1>34. CASE RestoreMarker
  BY <1>34 DEF RestoreMarker, Step, NoMem, DiskTypes, CommandTypes, Mems, Receipts,
     Counts, MarkerInv, ForwardInv, StatusInv, Gone, File, Routing, Removing,
     RollingBack, Recovering, Restoring, Undoing
<1>35. CASE Enable
  BY <1>35 DEF Enable, Configured, DiskTypes, CommandTypes, Mems, Receipts, Counts,
     MarkerInv, ForwardInv, StatusInv, Gone, File, Routing, Removing, RollingBack,
     Recovering, Restoring, Undoing
<1>36. CASE Raise
  BY <1>36 DEF Raise, Count, Removing, Restoring, DiskTypes, CommandTypes, Mems,
     Receipts, Counts, MarkerInv, ForwardInv, StatusInv, Gone, File, Routing,
     RollingBack, Recovering, Undoing
<1>37. CASE Kill
  BY <1>37 DEF Kill, Count, NoMem, Restoring, Undoing, DiskTypes, CommandTypes, Mems,
     Receipts, Counts, MarkerInv, ForwardInv, StatusInv, Gone, File, Routing, Removing,
     RollingBack, Recovering
<1>38. ASSUME NEW f \in File, Edit(f) PROVE StatusInv'
  BY <1>38 DEF Edit, Count, Put, Recovering, DiskTypes, CommandTypes, Mems, Receipts,
     Counts, MarkerInv, ForwardInv, StatusInv, Gone, File, Routing, Removing,
     RollingBack, Restoring, Undoing
<1>39. ASSUME NEW p \in Late, Check(p) PROVE StatusInv'
  BY <1>39 DEF Check, DiskTypes, CommandTypes, Mems, Receipts, Counts, MarkerInv,
     ForwardInv, StatusInv, Gone, File, Routing, Removing, RollingBack, Recovering,
     Restoring, Undoing
<1>40. CASE TakeLease
  BY <1>40 DEF TakeLease, DiskTypes, CommandTypes, Mems, Receipts, Counts, MarkerInv,
     ForwardInv, StatusInv, Gone, File, Routing, Removing, RollingBack, Recovering,
     Restoring, Undoing
<1>41. CASE UNCHANGED vars
  BY <1>41 DEF vars, DiskTypes, CommandTypes, Mems, Receipts, Counts, MarkerInv,
     ForwardInv, StatusInv, Gone, File, Routing, Removing, RollingBack, Recovering,
     Restoring, Undoing
<1>42. CASE RaiseUnrecorded
  BY <1>42 DEF RaiseUnrecorded, Count, Put, Configured, Removing, Restoring, DiskTypes,
     CommandTypes, Mems,
     Receipts, Counts, MarkerInv, ForwardInv, StatusInv, Gone, File, Routing,
     RollingBack, Recovering, Undoing
<1>43. CASE RollbackRaises
  BY <1>43 DEF RollbackRaises, LeavesAssets, Leaves, Step, Count, NoMem, Removing,
     Restoring, DiskTypes, CommandTypes, Mems,
     Receipts, Counts, MarkerInv, ForwardInv, StatusInv, Gone, File, Routing,
     RollingBack, Recovering, Undoing
<1>. QED
  BY <1>1, <1>2, <1>3, <1>4, <1>5, <1>6, <1>7, <1>8, <1>9, <1>10, <1>11, <1>12, <1>13,
     <1>14, <1>15, <1>16, <1>17, <1>18, <1>19, <1>20, <1>21, <1>22, <1>23, <1>24,
     <1>25, <1>26, <1>27, <1>28, <1>29, <1>30, <1>31, <1>32, <1>33, <1>34, <1>35,
     <1>36, <1>37, <1>38, <1>39, <1>40, <1>41, <1>42, <1>43 DEF Next, RemoveStep, RollbackStep,
     RecoverStep, RestoreStep

LEMMA RestoreKept ==
  ASSUME Late = {}, ~KillsInRestore, EditsRace \/ EditInv, CommandTypes, DiskTypes,
         RemovedIsRestorable, RestoreInv, [Next]_vars
  PROVE  RestoreInv'
<1>1. CASE Remove
  BY <1>1 DEF Remove, Count, NoMem, Configured, Stable, DiskTypes, CommandTypes, Mems,
     RemovedIsRestorable, RestoreInv, EditInv, File, Routing, Removing, RollingBack,
     Recovering, Restoring, Undoing
<1>2. CASE PublishReceipt
  BY <1>2 DEF PublishReceipt, Step, DiskTypes, CommandTypes, Mems, RemovedIsRestorable,
     RestoreInv, EditInv, File, Routing, Removing, RollingBack, Recovering, Restoring,
     Undoing
<1>3. CASE PublishMarker
  BY <1>3 DEF PublishMarker, Step, DiskTypes, CommandTypes, Mems, RemovedIsRestorable,
     RestoreInv, EditInv, File, Routing, Removing, RollingBack, Recovering, Restoring,
     Undoing
<1>4. CASE PublishRemoving
  BY <1>4 DEF PublishRemoving, Step, DiskTypes, CommandTypes, Mems,
     RemovedIsRestorable, RestoreInv, EditInv, File, Routing, Removing, RollingBack,
     Recovering, Restoring, Undoing
<1>5. CASE RemoveCodex
  BY <1>5 DEF RemoveCodex, Step, Put, DiskTypes, CommandTypes, Mems,
     RemovedIsRestorable, RestoreInv, EditInv, File, Routing, Removing, RollingBack,
     Recovering, Restoring, Undoing
<1>6. CASE RemoveAsset
  BY <1>6 DEF RemoveAsset, Put, After, DiskTypes, CommandTypes, Mems,
     RemovedIsRestorable, RestoreInv, EditInv, File, Routing, Removing, RollingBack,
     Recovering, Restoring, Undoing
<1>7. CASE UnlinkConfig
  BY <1>7 DEF UnlinkConfig, Put, DiskTypes, CommandTypes, Mems, RemovedIsRestorable,
     RestoreInv, EditInv, File, Routing, Removing, RollingBack, Recovering, Restoring,
     Undoing
<1>8. CASE PublishRemoved
  BY <1>8 DEF PublishRemoved, Step, DiskTypes, CommandTypes, Mems, RemovedIsRestorable,
     RestoreInv, EditInv, File, Routing, Removing, RollingBack, Recovering, Restoring,
     Undoing
<1>9. CASE MoveData
  BY <1>9 DEF MoveData, Step, DiskTypes, CommandTypes, Mems, RemovedIsRestorable,
     RestoreInv, EditInv, File, Routing, Removing, RollingBack, Recovering, Restoring,
     Undoing
<1>10. CASE CompleteReceipt
  BY <1>10 DEF CompleteReceipt, Step, DiskTypes, CommandTypes, Mems,
     RemovedIsRestorable, RestoreInv, EditInv, File, Routing, Removing, RollingBack,
     Recovering, Restoring, Undoing
<1>11. CASE CompleteMarker
  BY <1>11 DEF CompleteMarker, Step, NoMem, DiskTypes, CommandTypes, Mems,
     RemovedIsRestorable, RestoreInv, EditInv, File, Routing, Removing, RollingBack,
     Recovering, Restoring, Undoing
<1>12. CASE RollbackRouting("rb_routing", "rb_data")
  BY <1>12 DEF RollbackRouting, Step, DiskTypes, CommandTypes, Mems,
     RemovedIsRestorable, RestoreInv, EditInv, File, Routing, Removing, RollingBack,
     Recovering, Restoring, Undoing
<1>13. CASE RollbackData
  BY <1>13 DEF RollbackData, Step, DiskTypes, CommandTypes, Mems, RemovedIsRestorable,
     RestoreInv, EditInv, File, Routing, Removing, RollingBack, Recovering, Restoring,
     Undoing
<1>14. CASE RollbackConfig
  BY <1>14 DEF RollbackConfig, Step, Put, Configured, DiskTypes, CommandTypes, Mems,
     RemovedIsRestorable, RestoreInv, EditInv, File, Routing, Removing, RollingBack,
     Recovering, Restoring, Undoing
<1>15. CASE RollbackCodex
  BY <1>15 DEF RollbackCodex, Step, Put, DiskTypes, CommandTypes, Mems,
     RemovedIsRestorable, RestoreInv, EditInv, File, Routing, Removing, RollingBack,
     Recovering, Restoring, Undoing
<1>16. CASE RollbackLife
  BY <1>16 DEF RollbackLife, Step, DiskTypes, CommandTypes, Mems, RemovedIsRestorable,
     RestoreInv, EditInv, File, Routing, Removing, RollingBack, Recovering, Restoring,
     Undoing
<1>17. CASE RollbackMarker
  BY <1>17 DEF RollbackMarker, Step, NoMem, DiskTypes, CommandTypes, Mems,
     RemovedIsRestorable, RestoreInv, EditInv, File, Routing, Removing, RollingBack,
     Recovering, Restoring, Undoing
<1>18. CASE RollbackRouting("u_routing", "u_life")
  <2>1. /\ pc = "u_routing" /\ pc' = "u_life" /\ mem' = mem /\ home' = home /\ saved' = saved
        /\ life' = life /\ written' = written /\ failed' = failed
    BY <1>18 DEF RollbackRouting, Step
  <2>2. \A f \in Routing : file'[f] = IF f \in mem.applied \ written THEN mem.before[f] ELSE file[f]
    BY <1>18 DEF RollbackRouting, File
  <2>3. file'["config"] = file["config"]
    BY <1>18 DEF RollbackRouting, File, Routing, CommandTypes, Mems
  <2>4. "marker" \in failed \/ \A f \in Routing : file'[f] # "on" \/ "routing" \in failed
    BY <2>1, <2>2 DEF RestoreInv
  <2>. QED
    BY <2>1, <2>3, <2>4 DEF RestoreInv, Restoring, Undoing
<1>19. CASE UndoLife
  BY <1>19 DEF UndoLife, Step, DiskTypes, CommandTypes, Mems, RemovedIsRestorable,
     RestoreInv, EditInv, File, Routing, Removing, RollingBack, Recovering, Restoring,
     Undoing
<1>20. CASE UndoConfig
  BY <1>20 DEF UndoConfig, Step, Put, DiskTypes, CommandTypes, Mems,
     RemovedIsRestorable, RestoreInv, EditInv, File, Routing, Removing, RollingBack,
     Recovering, Restoring, Undoing
<1>21. CASE UndoData
  BY <1>21 DEF UndoData, Step, NoMem, DiskTypes, CommandTypes, Mems,
     RemovedIsRestorable, RestoreInv, EditInv, File, Routing, Removing, RollingBack,
     Recovering, Restoring, Undoing
<1>22. CASE Recover
  BY <1>22 DEF Recover, Recoverable, Known, Original, NoMem, DiskTypes, CommandTypes,
     Mems, RemovedIsRestorable, RestoreInv, EditInv, File, Routing, Removing,
     RollingBack, Recovering, Restoring, Undoing
<1>23. CASE RecoverRouting
  BY <1>23 DEF RecoverRouting, Known, Original, DiskTypes, CommandTypes, Mems,
     RemovedIsRestorable, RestoreInv, EditInv, File, Routing, Removing, RollingBack,
     Recovering, Restoring, Undoing
<1>24. CASE RecoverData
  BY <1>24 DEF RecoverData, DiskTypes, CommandTypes, Mems, RemovedIsRestorable,
     RestoreInv, EditInv, File, Routing, Removing, RollingBack, Recovering, Restoring,
     Undoing
<1>25. CASE RecoverConfig
  BY <1>25 DEF RecoverConfig, Step, Put, Original, DiskTypes, CommandTypes, Mems,
     RemovedIsRestorable, RestoreInv, EditInv, File, Routing, Removing, RollingBack,
     Recovering, Restoring, Undoing
<1>26. CASE RecoverCodex
  BY <1>26 DEF RecoverCodex, Step, Put, Original, DiskTypes, CommandTypes, Mems,
     RemovedIsRestorable, RestoreInv, EditInv, File, Routing, Removing, RollingBack,
     Recovering, Restoring, Undoing
<1>27. CASE RecoverLife
  BY <1>27 DEF RecoverLife, Step, DiskTypes, CommandTypes, Mems, RemovedIsRestorable,
     RestoreInv, EditInv, File, Routing, Removing, RollingBack, Recovering, Restoring,
     Undoing
<1>28. CASE RecoverMarker
  BY <1>28 DEF RecoverMarker, Step, NoReceipt, DiskTypes, CommandTypes, Mems,
     RemovedIsRestorable, RestoreInv, EditInv, File, Routing, Removing, RollingBack,
     Recovering, Restoring, Undoing
<1>29. CASE Restore
  BY <1>29 DEF Restore, Count, NoMem, Configured, DiskTypes, CommandTypes, Mems,
     RemovedIsRestorable, PartOf, RestoreInv, EditInv, File, Routing, Removing, RollingBack,
     Recovering, Restoring, Undoing
<1>30. CASE RestoreRouting
  <2> DEFINE Unchanged == \A f \in Routing : f \notin written /\ file[f] = Removed(f)
  <2>1. CASE Unchanged
    <3>1. /\ pc = "s_routing" /\ pc' = "s_data" /\ home' = home /\ saved' = saved
          /\ life' = life /\ written' = written /\ failed' = failed
      BY <1>30, <2>1 DEF RestoreRouting
    <3>2. /\ \A f \in Routing : file'[f] = Original(f)
          /\ file'["config"] = file["config"]
      BY <1>30, <2>1 DEF RestoreRouting, File, Routing
    <3>3. /\ mem'.moved = mem.moved /\ mem'.life = mem.life /\ mem'.config = mem.config
          /\ mem'.applied = {f \in Routing : Original(f) # Removed(f)}
          /\ mem'.before = [f \in File |-> Removed(f)]
      BY <1>30, <2>1 DEF RestoreRouting, CommandTypes, Mems
    <3>4. \A f \in Routing : Removed(f) # "on" /\ mem'.before[f] = Removed(f)
      BY <3>3 DEF Removed, File
    <3>5. \A f \in Routing : /\ file'[f] = "on" => f \in mem'.applied \ written'
                             /\ f \in mem'.applied => mem'.before[f] # "on"
      BY <3>1, <3>2, <3>3, <3>4, <2>1
    <3>. QED
      BY <3>1, <3>2, <3>3, <3>5 DEF RestoreInv, Restoring, Undoing
  <2>2. CASE ~Unchanged
    <3>1. /\ pc = "s_routing" /\ pc' = "u_routing" /\ home' = home /\ saved' = saved
          /\ life' = life /\ written' = written /\ failed' = failed /\ file' = file /\ mem' = mem
      BY <1>30, <2>2 DEF RestoreRouting
    <3>. QED
      BY <3>1 DEF RestoreInv, Restoring, Undoing
  <2>. QED
    BY <2>1, <2>2
<1>31. CASE RestoreData
  BY <1>31 DEF RestoreData, DiskTypes, CommandTypes, Mems, RemovedIsRestorable,
     RestoreInv, EditInv, File, Routing, Removing, RollingBack, Recovering, Restoring,
     Undoing
<1>32. CASE RestoreConfig
  BY <1>32 DEF RestoreConfig, Configured, Put, Original, DiskTypes, CommandTypes, Mems,
     RemovedIsRestorable, RestoreInv, EditInv, File, Routing, Removing, RollingBack,
     Recovering, Restoring, Undoing
<1>33. CASE RestoreLife
  BY <1>33 DEF RestoreLife, DiskTypes, CommandTypes, Mems, RemovedIsRestorable,
     RestoreInv, EditInv, File, Routing, Removing, RollingBack, Recovering, Restoring,
     Undoing
<1>34. CASE RestoreMarker
  BY <1>34 DEF RestoreMarker, Step, NoMem, DiskTypes, CommandTypes, Mems,
     RemovedIsRestorable, RestoreInv, EditInv, File, Routing, Removing, RollingBack,
     Recovering, Restoring, Undoing
<1>35. CASE Enable
  BY <1>35 DEF Enable, Configured, DiskTypes, CommandTypes, Mems, RemovedIsRestorable,
     RestoreInv, EditInv, File, Routing, Removing, RollingBack, Recovering, Restoring,
     Undoing
<1>36. CASE Raise
  BY <1>36 DEF Raise, Count, Removing, Restoring, DiskTypes, CommandTypes, Mems,
     RemovedIsRestorable, RestoreInv, EditInv, File, Routing, RollingBack, Recovering,
     Undoing
<1>37. CASE Kill
  BY <1>37 DEF Kill, Count, NoMem, Restoring, Undoing, DiskTypes, CommandTypes, Mems,
     RemovedIsRestorable, RestoreInv, EditInv, File, Routing, Removing, RollingBack,
     Recovering
<1>38. ASSUME NEW f \in File, Edit(f) PROVE RestoreInv'
  BY <1>38 DEF Edit, Count, Put, Recovering, DiskTypes, CommandTypes, Mems,
     RemovedIsRestorable, RestoreInv, EditInv, File, Routing, Removing, RollingBack,
     Restoring, Undoing
<1>39. ASSUME NEW p \in Late, Check(p) PROVE RestoreInv'
  BY <1>39 DEF Check, DiskTypes, CommandTypes, Mems, RemovedIsRestorable, RestoreInv,
     EditInv, File, Routing, Removing, RollingBack, Recovering, Restoring, Undoing
<1>40. CASE TakeLease
  BY <1>40 DEF TakeLease, DiskTypes, CommandTypes, Mems, RemovedIsRestorable,
     RestoreInv, EditInv, File, Routing, Removing, RollingBack, Recovering, Restoring,
     Undoing
<1>41. CASE UNCHANGED vars
  BY <1>41 DEF vars, DiskTypes, CommandTypes, Mems, RemovedIsRestorable, RestoreInv,
     EditInv, File, Routing, Removing, RollingBack, Recovering, Restoring, Undoing
<1>42. CASE RaiseUnrecorded
  BY <1>42 DEF RaiseUnrecorded, Count, Put, Configured, Removing, Restoring, DiskTypes,
     CommandTypes, Mems,
     RemovedIsRestorable, RestoreInv, EditInv, File, Routing, RollingBack, Recovering,
     Undoing
<1>43. CASE RollbackRaises
  BY <1>43 DEF RollbackRaises, LeavesAssets, Leaves, Step, Count, NoMem, Removing,
     Restoring, DiskTypes, CommandTypes, Mems,
     RemovedIsRestorable, RestoreInv, EditInv, File, Routing, RollingBack, Recovering,
     Undoing
<1>. QED
  BY <1>1, <1>2, <1>3, <1>4, <1>5, <1>6, <1>7, <1>8, <1>9, <1>10, <1>11, <1>12, <1>13,
     <1>14, <1>15, <1>16, <1>17, <1>18, <1>19, <1>20, <1>21, <1>22, <1>23, <1>24,
     <1>25, <1>26, <1>27, <1>28, <1>29, <1>30, <1>31, <1>32, <1>33, <1>34, <1>35,
     <1>36, <1>37, <1>38, <1>39, <1>40, <1>41, <1>42, <1>43 DEF Next, RemoveStep, RollbackStep,
     RecoverStep, RestoreStep

LEMMA RemovedKept ==
  ASSUME Late = {}, ~KillsInRestore, CommandTypes, DiskTypes, MarkerInv, ForwardInv,
         StatusInv, RestoreInv, RemovedIsRestorable, [Next]_vars
  PROVE  RemovedIsRestorable'
<1>1. CASE Remove
  BY <1>1 DEF Remove, Count, NoMem, Configured, Stable, DiskTypes, CommandTypes, Mems,
     MarkerInv, ForwardInv, StatusInv, Gone, RestoreInv, RemovedIsRestorable, PartOf, File,
     Routing, Removing, RollingBack, Recovering, Restoring, Undoing
<1>2. CASE PublishReceipt
  BY <1>2 DEF PublishReceipt, Step, DiskTypes, CommandTypes, Mems, MarkerInv,
     ForwardInv, StatusInv, Gone, RestoreInv, RemovedIsRestorable, PartOf, File, Routing,
     Removing, RollingBack, Recovering, Restoring, Undoing
<1>3. CASE PublishMarker
  BY <1>3 DEF PublishMarker, Step, DiskTypes, CommandTypes, Mems, MarkerInv,
     ForwardInv, StatusInv, Gone, RestoreInv, RemovedIsRestorable, PartOf, File, Routing,
     Removing, RollingBack, Recovering, Restoring, Undoing
<1>4. CASE PublishRemoving
  BY <1>4 DEF PublishRemoving, Step, DiskTypes, CommandTypes, Mems, MarkerInv,
     ForwardInv, StatusInv, Gone, RestoreInv, RemovedIsRestorable, PartOf, File, Routing,
     Removing, RollingBack, Recovering, Restoring, Undoing
<1>5. CASE RemoveCodex
  BY <1>5 DEF RemoveCodex, Step, Put, DiskTypes, CommandTypes, Mems, MarkerInv,
     ForwardInv, StatusInv, Gone, RestoreInv, RemovedIsRestorable, PartOf, File, Routing,
     Removing, RollingBack, Recovering, Restoring, Undoing
<1>6. CASE RemoveAsset
  BY <1>6 DEF RemoveAsset, Put, After, DiskTypes, CommandTypes, Mems, MarkerInv,
     ForwardInv, StatusInv, Gone, RestoreInv, RemovedIsRestorable, PartOf, File, Routing,
     Removing, RollingBack, Recovering, Restoring, Undoing
<1>7. CASE UnlinkConfig
  BY <1>7 DEF UnlinkConfig, Put, DiskTypes, CommandTypes, Mems, MarkerInv, ForwardInv,
     StatusInv, Gone, RestoreInv, RemovedIsRestorable, PartOf, File, Routing, Removing,
     RollingBack, Recovering, Restoring, Undoing
<1>8. CASE PublishRemoved
  BY <1>8 DEF PublishRemoved, Step, DiskTypes, CommandTypes, Mems, MarkerInv,
     ForwardInv, StatusInv, Gone, RestoreInv, RemovedIsRestorable, PartOf, File, Routing,
     Removing, RollingBack, Recovering, Restoring, Undoing
<1>9. CASE MoveData
  BY <1>9 DEF MoveData, Step, DiskTypes, CommandTypes, Mems, MarkerInv, ForwardInv,
     StatusInv, Gone, RestoreInv, RemovedIsRestorable, PartOf, File, Routing, Removing,
     RollingBack, Recovering, Restoring, Undoing
<1>10. CASE CompleteReceipt
  BY <1>10 DEF CompleteReceipt, Step, DiskTypes, CommandTypes, Mems, MarkerInv,
     ForwardInv, StatusInv, Gone, RestoreInv, RemovedIsRestorable, PartOf, File, Routing,
     Removing, RollingBack, Recovering, Restoring, Undoing
<1>11. CASE CompleteMarker
  BY <1>11 DEF CompleteMarker, Step, NoMem, DiskTypes, CommandTypes, Mems, MarkerInv,
     ForwardInv, StatusInv, Gone, RestoreInv, RemovedIsRestorable, PartOf, File, Routing,
     Removing, RollingBack, Recovering, Restoring, Undoing
<1>12. CASE RollbackRouting("rb_routing", "rb_data")
  BY <1>12 DEF RollbackRouting, Step, DiskTypes, CommandTypes, Mems, MarkerInv,
     ForwardInv, StatusInv, Gone, RestoreInv, RemovedIsRestorable, PartOf, File, Routing,
     Removing, RollingBack, Recovering, Restoring, Undoing
<1>13. CASE RollbackData
  BY <1>13 DEF RollbackData, Step, DiskTypes, CommandTypes, Mems, MarkerInv,
     ForwardInv, StatusInv, Gone, RestoreInv, RemovedIsRestorable, PartOf, File, Routing,
     Removing, RollingBack, Recovering, Restoring, Undoing
<1>14. CASE RollbackConfig
  BY <1>14 DEF RollbackConfig, Step, Put, Configured, DiskTypes, CommandTypes, Mems,
     MarkerInv, ForwardInv, StatusInv, Gone, RestoreInv, RemovedIsRestorable, PartOf, File,
     Routing, Removing, RollingBack, Recovering, Restoring, Undoing
<1>15. CASE RollbackCodex
  BY <1>15 DEF RollbackCodex, Step, Put, DiskTypes, CommandTypes, Mems, MarkerInv,
     ForwardInv, StatusInv, Gone, RestoreInv, RemovedIsRestorable, PartOf, File, Routing,
     Removing, RollingBack, Recovering, Restoring, Undoing
<1>16. CASE RollbackLife
  BY <1>16 DEF RollbackLife, Step, DiskTypes, CommandTypes, Mems, MarkerInv,
     ForwardInv, StatusInv, Gone, RestoreInv, RemovedIsRestorable, PartOf, File, Routing,
     Removing, RollingBack, Recovering, Restoring, Undoing
<1>17. CASE RollbackMarker
  BY <1>17 DEF RollbackMarker, Step, NoMem, DiskTypes, CommandTypes, Mems, MarkerInv,
     ForwardInv, StatusInv, Gone, RestoreInv, RemovedIsRestorable, PartOf, File, Routing,
     Removing, RollingBack, Recovering, Restoring, Undoing
<1>18. CASE RollbackRouting("u_routing", "u_life")
  BY <1>18 DEF RollbackRouting, Step, DiskTypes, CommandTypes, Mems, MarkerInv,
     ForwardInv, StatusInv, Gone, RestoreInv, RemovedIsRestorable, PartOf, File, Routing,
     Removing, RollingBack, Recovering, Restoring, Undoing
<1>19. CASE UndoLife
  BY <1>19 DEF UndoLife, Step, DiskTypes, CommandTypes, Mems, MarkerInv, ForwardInv,
     StatusInv, Gone, RestoreInv, RemovedIsRestorable, PartOf, File, Routing, Removing,
     RollingBack, Recovering, Restoring, Undoing
<1>20. CASE UndoConfig
  BY <1>20 DEF UndoConfig, Step, Put, DiskTypes, CommandTypes, Mems, MarkerInv,
     ForwardInv, StatusInv, Gone, RestoreInv, RemovedIsRestorable, PartOf, File, Routing,
     Removing, RollingBack, Recovering, Restoring, Undoing
<1>21. CASE UndoData
  BY <1>21 DEF UndoData, Step, NoMem, DiskTypes, CommandTypes, Mems, MarkerInv,
     ForwardInv, StatusInv, Gone, RestoreInv, RemovedIsRestorable, PartOf, File, Routing,
     Removing, RollingBack, Recovering, Restoring, Undoing
<1>22. CASE Recover
  BY <1>22 DEF Recover, Recoverable, Known, Original, NoMem, DiskTypes, CommandTypes,
     Mems, MarkerInv, ForwardInv, StatusInv, Gone, RestoreInv, RemovedIsRestorable,
     File, Routing, Removing, RollingBack, Recovering, Restoring, Undoing
<1>23. CASE RecoverRouting
  BY <1>23 DEF RecoverRouting, Known, Original, DiskTypes, CommandTypes, Mems,
     MarkerInv, ForwardInv, StatusInv, Gone, RestoreInv, RemovedIsRestorable, PartOf, File,
     Routing, Removing, RollingBack, Recovering, Restoring, Undoing
<1>24. CASE RecoverData
  BY <1>24 DEF RecoverData, DiskTypes, CommandTypes, Mems, MarkerInv, ForwardInv,
     StatusInv, Gone, RestoreInv, RemovedIsRestorable, PartOf, File, Routing, Removing,
     RollingBack, Recovering, Restoring, Undoing
<1>25. CASE RecoverConfig
  BY <1>25 DEF RecoverConfig, Step, Put, Original, DiskTypes, CommandTypes, Mems,
     MarkerInv, ForwardInv, StatusInv, Gone, RestoreInv, RemovedIsRestorable, PartOf, File,
     Routing, Removing, RollingBack, Recovering, Restoring, Undoing
<1>26. CASE RecoverCodex
  BY <1>26 DEF RecoverCodex, Step, Put, Original, DiskTypes, CommandTypes, Mems,
     MarkerInv, ForwardInv, StatusInv, Gone, RestoreInv, RemovedIsRestorable, PartOf, File,
     Routing, Removing, RollingBack, Recovering, Restoring, Undoing
<1>27. CASE RecoverLife
  BY <1>27 DEF RecoverLife, Step, DiskTypes, CommandTypes, Mems, MarkerInv, ForwardInv,
     StatusInv, Gone, RestoreInv, RemovedIsRestorable, PartOf, File, Routing, Removing,
     RollingBack, Recovering, Restoring, Undoing
<1>28. CASE RecoverMarker
  BY <1>28 DEF RecoverMarker, Step, NoReceipt, DiskTypes, CommandTypes, Mems,
     MarkerInv, ForwardInv, StatusInv, Gone, RestoreInv, RemovedIsRestorable, PartOf, File,
     Routing, Removing, RollingBack, Recovering, Restoring, Undoing
<1>29. CASE Restore
  BY <1>29 DEF Restore, Count, NoMem, Configured, DiskTypes, CommandTypes, Mems,
     MarkerInv, ForwardInv, StatusInv, Gone, RestoreInv, RemovedIsRestorable, PartOf, File,
     Routing, Removing, RollingBack, Recovering, Restoring, Undoing
<1>30. CASE RestoreRouting
  BY <1>30 DEF RestoreRouting, Original, Removed, DiskTypes, CommandTypes, Mems,
     MarkerInv, ForwardInv, StatusInv, Gone, RestoreInv, RemovedIsRestorable, PartOf, File,
     Routing, Removing, RollingBack, Recovering, Restoring, Undoing
<1>31. CASE RestoreData
  BY <1>31 DEF RestoreData, DiskTypes, CommandTypes, Mems, MarkerInv, ForwardInv,
     StatusInv, Gone, RestoreInv, RemovedIsRestorable, PartOf, File, Routing, Removing,
     RollingBack, Recovering, Restoring, Undoing
<1>32. CASE RestoreConfig
  BY <1>32 DEF RestoreConfig, Configured, Put, Original, DiskTypes, CommandTypes, Mems,
     MarkerInv, ForwardInv, StatusInv, Gone, RestoreInv, RemovedIsRestorable, PartOf, File,
     Routing, Removing, RollingBack, Recovering, Restoring, Undoing
<1>33. CASE RestoreLife
  BY <1>33 DEF RestoreLife, DiskTypes, CommandTypes, Mems, MarkerInv, ForwardInv,
     StatusInv, Gone, RestoreInv, RemovedIsRestorable, PartOf, File, Routing, Removing,
     RollingBack, Recovering, Restoring, Undoing
<1>34. CASE RestoreMarker
  BY <1>34 DEF RestoreMarker, Step, NoMem, DiskTypes, CommandTypes, Mems, MarkerInv,
     ForwardInv, StatusInv, Gone, RestoreInv, RemovedIsRestorable, PartOf, File, Routing,
     Removing, RollingBack, Recovering, Restoring, Undoing
<1>35. CASE Enable
  BY <1>35 DEF Enable, Configured, DiskTypes, CommandTypes, Mems, MarkerInv,
     ForwardInv, StatusInv, Gone, RestoreInv, RemovedIsRestorable, PartOf, File, Routing,
     Removing, RollingBack, Recovering, Restoring, Undoing
<1>36. CASE Raise
  BY <1>36 DEF Raise, Count, Removing, Restoring, DiskTypes, CommandTypes, Mems,
     MarkerInv, ForwardInv, StatusInv, Gone, RestoreInv, RemovedIsRestorable, PartOf, File,
     Routing, RollingBack, Recovering, Undoing
<1>37. CASE Kill
  BY <1>37 DEF Kill, Count, NoMem, Restoring, Undoing, DiskTypes, CommandTypes, Mems,
     MarkerInv, ForwardInv, StatusInv, Gone, RestoreInv, RemovedIsRestorable, PartOf, File,
     Routing, Removing, RollingBack, Recovering
<1>38. ASSUME NEW f \in File, Edit(f) PROVE RemovedIsRestorable'
  BY <1>38 DEF Edit, Count, Put, Recovering, DiskTypes, CommandTypes, Mems, MarkerInv,
     ForwardInv, StatusInv, Gone, RestoreInv, RemovedIsRestorable, PartOf, File, Routing,
     Removing, RollingBack, Restoring, Undoing
<1>39. ASSUME NEW p \in Late, Check(p) PROVE RemovedIsRestorable'
  BY <1>39 DEF Check, DiskTypes, CommandTypes, Mems, MarkerInv, ForwardInv, StatusInv,
     Gone, RestoreInv, RemovedIsRestorable, PartOf, File, Routing, Removing, RollingBack,
     Recovering, Restoring, Undoing
<1>40. CASE TakeLease
  BY <1>40 DEF TakeLease, DiskTypes, CommandTypes, Mems, MarkerInv, ForwardInv,
     StatusInv, Gone, RestoreInv, RemovedIsRestorable, PartOf, File, Routing, Removing,
     RollingBack, Recovering, Restoring, Undoing
<1>41. CASE UNCHANGED vars
  BY <1>41 DEF vars, DiskTypes, CommandTypes, Mems, MarkerInv, ForwardInv, StatusInv,
     Gone, RestoreInv, RemovedIsRestorable, PartOf, File, Routing, Removing, RollingBack,
     Recovering, Restoring, Undoing
<1>42. CASE RaiseUnrecorded
  BY <1>42 DEF RaiseUnrecorded, Count, Put, Configured, Removing, Restoring, DiskTypes,
     CommandTypes, Mems,
     MarkerInv, ForwardInv, StatusInv, Gone, RestoreInv, RemovedIsRestorable, PartOf, File,
     Routing, RollingBack, Recovering, Undoing
<1>43. CASE RollbackRaises
  BY <1>43 DEF RollbackRaises, LeavesAssets, Leaves, Step, Count, NoMem, Removing,
     Restoring, DiskTypes, CommandTypes, Mems,
     MarkerInv, ForwardInv, StatusInv, Gone, RestoreInv, RemovedIsRestorable, PartOf, File,
     Routing, RollingBack, Recovering, Undoing
<1>. QED
  BY <1>1, <1>2, <1>3, <1>4, <1>5, <1>6, <1>7, <1>8, <1>9, <1>10, <1>11, <1>12, <1>13,
     <1>14, <1>15, <1>16, <1>17, <1>18, <1>19, <1>20, <1>21, <1>22, <1>23, <1>24,
     <1>25, <1>26, <1>27, <1>28, <1>29, <1>30, <1>31, <1>32, <1>33, <1>34, <1>35,
     <1>36, <1>37, <1>38, <1>39, <1>40, <1>41, <1>42, <1>43 DEF Next, RemoveStep, RollbackStep,
     RecoverStep, RestoreStep

-----------------------------------------------------------------------------
(* The theorems. *)

LEMMA AtStart ==
  ASSUME Init
  PROVE  WholeInv /\ EditInv /\ Restorable
<1>1. /\ pc = "idle" /\ marker = "none" /\ home = "data" /\ saved = FALSE /\ life \in Stable
      /\ file \in [File -> Contents] /\ (\A f \in File : file[f] = "on")
      /\ mem = NoMem /\ receipt = NoReceipt /\ at = 0 /\ late = "none" /\ written = {}
      /\ failed = {}
  BY DEF Init, Contents
<1>2. count \in Counts
  BY DEF Init, Counts
<1>3. Types
  <2>1. DiskTypes
    BY <1>1, NoTypes DEF DiskTypes, Lives
  <2>2. CommandTypes
    BY <1>1, <1>2, NoTypes DEF CommandTypes
  <2>3. MarkerInv /\ LivesInv
    BY <1>1 DEF MarkerInv, LivesInv, Removing, RollingBack, Recovering, Restoring, Undoing
  <2>. QED
    BY <2>1, <2>2, <2>3 DEF Types
<1>4. /\ pc \notin Removing \cup RollingBack \cup Recovering \cup Restoring \cup Undoing
      /\ pc \notin Removing \cup {"rb_routing", "rb_data"}
  BY <1>1 DEF Removing, RollingBack, Recovering, Restoring, Undoing
<1>5. RecordInv /\ LifeInv /\ HomeInv /\ RestInv
  BY <1>1, <1>4 DEF RecordInv, LifeInv, HomeInv, RestInv
<1>6. RollbackFiles /\ RecoveryFiles
  BY <1>1, <1>4 DEF RollbackFiles, RecoveryFiles
<1>7. EditInv /\ Restorable
  BY <1>1, <1>4 DEF EditInv, Restorable, RemovedIsRestorable, ForwardInv, StatusInv, RestoreInv
<1>. QED
  BY <1>3, <1>5, <1>6, <1>7 DEF WholeInv

LEMMA TypesKept ==
  ASSUME Types, [Next]_vars
  PROVE  Types'
  BY DiskKept, CommandKept, MarkerKept, LivesKept DEF Types

(* Every variable keeps its type, whatever the commands, the processes beside
   them and the user do: what a rollback or a recovery writes back as the state
   is one the project was in before. *)
THEOREM TypeCorrect == Spec => []TypeOK
<1>1. Init => Types
  BY AtStart DEF WholeInv
<1>2. Types /\ [Next]_vars => Types'
  BY TypesKept
<1>3. Types => TypeOK
  BY AssetFacts DEF Types, DiskTypes, CommandTypes, TypeOK, Contents, Lives, Receipts, Mems
<1>. QED
  BY <1>1, <1>2, <1>3, PTL DEF Spec

LEMMA WholeKept ==
  ASSUME WholeInv, [Next]_vars
  PROVE  WholeInv'
<1>1. DiskTypes /\ CommandTypes /\ MarkerInv
  BY DEF WholeInv, Types
<1>2. RecordInv' /\ LifeInv' /\ HomeInv'
  BY <1>1, RecordKept, LifeKept, HomeKept DEF WholeInv
<1>3. RollbackFiles' /\ RecoveryFiles' /\ RestInv'
  BY <1>1, RollbackFilesKept, RecoveryFilesKept, RestKept DEF WholeInv
<1>. QED
  BY <1>2, <1>3, TypesKept DEF WholeInv

LEMMA WholeEnough ==
  ASSUME WholeInv
  PROVE  UnmarkedIsWhole
<1>1. CASE marker # "none"
  BY <1>1 DEF UnmarkedIsWhole
<1>2. CASE marker = "none" /\ pc = "idle"
  <2>1. "data" \notin failed => home = "data" /\ ~saved
    BY <1>2 DEF WholeInv, RestInv, HomeInv
  <2>2. {"data", "life"} \cap failed = {} => life \in Stable
    BY <1>2 DEF WholeInv, RestInv
  <2>3. life = "ready" => \A f \in File : file[f] = "off" => PartOf(f) \in failed
    BY <1>2 DEF WholeInv, RestInv
  <2>. QED
    BY <2>1, <2>2, <2>3 DEF UnmarkedIsWhole
<1>3. CASE marker = "none" /\ pc # "idle"
  <2>1. pc \in Removing \cup RollingBack
    BY <1>3 DEF WholeInv, Types, CommandTypes, MarkerInv
  <2>2. mem.life = life /\ mem.applied = {} /\ ~mem.moved /\ ~mem.config /\ ~mem.codex
    BY <1>3, <2>1 DEF WholeInv, LifeInv
  <2>3. "data" \notin failed => home = "data" /\ ~saved
    BY <2>1, <2>2 DEF WholeInv, HomeInv, RollingBack
  <2>4. life = "ready" => \A f \in File : mem.before[f] # "off" \/ PartOf(f) \in failed
    BY <2>1, <2>2 DEF WholeInv, RecordInv, Sound
  <2>5. \A f \in Routing : ~Missing(f, mem.before)
    BY <2>1, <2>2 DEF WholeInv, RollbackFiles, RollingBack
  <2>6. /\ file["config"] # "off" \/ PartOf("config") \in failed
        /\ ~Missing("codex", mem.before)
    BY <2>1, <2>2 DEF WholeInv, RollbackFiles, RollingBack, PartOf, Routing
  <2>7. life = "ready" => \A f \in File : file[f] = "off" => PartOf(f) \in failed
    <3>1. SUFFICES ASSUME life = "ready", NEW f \in File, file[f] = "off", PartOf(f) \notin failed
                   PROVE  FALSE
      OBVIOUS
    <3>2. mem.before[f] # "off"
      BY <2>4, <3>1
    <3>3. f \in Routing \/ f = "config" \/ f = "codex"
      BY DEF File
    <3>. QED
      BY <2>5, <2>6, <3>1, <3>2, <3>3 DEF Missing
  <2>. QED
    BY <1>3, <2>3, <2>7 DEF UnmarkedIsWhole
<1>. QED
  BY <1>1, <1>2, <1>3

(* A project no marker closes is whole but for what a rollback left behind, part
   by part: however often a removal and its rollbacks raise, before or after their
   effect, are killed and recovered, with late processes and edits beside them, the
   marker goes only after every other part is back. *)
THEOREM UnmarkedWhole == Spec => []UnmarkedIsWhole
<1>1. Init => WholeInv
  BY AtStart
<1>2. WholeInv /\ [Next]_vars => WholeInv'
  BY WholeKept
<1>3. WholeInv => UnmarkedIsWhole
  BY WholeEnough
<1>. QED
  BY <1>1, <1>2, <1>3, PTL DEF Spec

(* When an edit shows in the identity of the file and no recovery is edited under,
   what the user wrote since the removal began is never overwritten, by whatever
   command, rollback or recovery, with any process beside them. *)
THEOREM EditsStay ==
  ASSUME ~EditsRace
  PROVE  Spec => UserEditKept
<1>1. Init => Types /\ EditInv
  BY AtStart DEF WholeInv
<1>2. Types /\ EditInv /\ [Next]_vars => Types' /\ EditInv'
  BY TypesKept, EditKept DEF Types
<1>3. Types /\ EditInv /\ [Next]_vars => [EditStays]_vars
  <2>1. SUFFICES ASSUME Types, EditInv, [Next]_vars PROVE EditStays
    OBVIOUS
  <2>2. EditInv' /\ (pc # "idle" => written \subseteq written')
    BY <2>1, EditKept DEF Types
  <2>. QED
    BY <2>2 DEF EditStays, EditInv
<1>. QED
  BY <1>1, <1>2, <1>3, PTL DEF Spec, UserEditKept

LEMMA RestorableKept ==
  ASSUME Late = {}, ~KillsInRestore, MaxKills = 0 \/ MaxRaises = 0, EditsRace \/ EditInv,
         Types, Restorable, [Next]_vars
  PROVE  Restorable'
<1>1. CommandTypes /\ DiskTypes /\ MarkerInv
  BY DEF Types
<1>2. RemovedIsRestorable /\ ForwardInv /\ StatusInv /\ RestoreInv
  BY DEF Restorable
<1>3. ForwardInv' /\ StatusInv'
  BY <1>1, <1>2, ForwardKept, StatusKept
<1>4. RestoreInv' /\ RemovedIsRestorable'
  BY <1>1, <1>2, RestoreKept, RemovedKept
<1>. QED
  BY <1>3, <1>4 DEF Restorable

(* What a removal reports as removed can be brought back but for what a rollback
   left behind, part by part, when no process is killed while it restores, none
   checked the project before, and the exceptions of Raise and kills do not come
   together: the data lie in the recovery area in the state "removed" and nothing
   of Atlas stands in their place.  Steps that fail after their effect, and rollback
   steps that fail, may come at any time. *)
THEOREM RemovedComesBack ==
  ASSUME Late = {}, ~KillsInRestore, MaxKills = 0 \/ MaxRaises = 0
  PROVE  Spec => []RemovedIsRestorable
<1> DEFINE Inv == Types /\ Restorable /\ (EditsRace \/ EditInv)
<1>1. Init => Inv
  BY AtStart DEF WholeInv
<1>2. Inv /\ [Next]_vars => Inv'
  <2>1. SUFFICES ASSUME Inv, [Next]_vars PROVE Inv'
    OBVIOUS
  <2>2. Types' /\ Restorable'
    BY <2>1, TypesKept, RestorableKept
  <2>3. EditsRace \/ EditInv'
    BY <2>1, EditKept DEF Types
  <2>. QED
    BY <2>2, <2>3
<1>3. Inv => RemovedIsRestorable
  BY DEF Restorable
<1>. QED
  BY <1>1, <1>2, <1>3, PTL DEF Spec
=============================================================================
