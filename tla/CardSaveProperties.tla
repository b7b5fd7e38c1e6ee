------------------------ MODULE CardSaveProperties --------------------------
(* What the save screen owes the player's saves.                              *)
EXTENDS CardSave

(* Outside the few accesses that replace one file by the other, and unless a  *)
(* fault fell into them, the card holds a save that loads: before, after and  *)
(* in the middle of any number of saves, retries, pulls and resets.           *)
SaveSurvives == hurt \/ Exposed \/ \E s \in Serials : files[s] = "done"

(* A file under a save's name is whole: a title still MANA-BAD. or a junk     *)
(* first sector is left only by a fault in the replacement, and no event of   *)
(* an earlier request passes for the end of the write.                        *)
NamedFileWhole ==
  \A s \in Serials :
    /\ files[s] \notin {"empty", "partial"}
    /\ files[s] = "bad" => hurt \/ at \in {"find", "read_title", "write_title"}
    /\ files[s] = "garbled" => hurt

(* A finished save leaves the card only as the one the player chose to        *)
(* overwrite, and where the scan found room for a second file only once its   *)
(* replacement is there whole.                                                *)
OldKept ==
  [][\A s \in Serials :
       files[s] = "done" /\ files'[s] # "done" =>
         /\ s = row /\ files'[s] = "none"
         /\ \/ files[Dummy] = "bad"
            \/ ~freeSpace]_vars

(* "Saved." is shown over the finished file, except when a fault came after   *)
(* the data were written.                                                     *)
SavedUnlessLate ==
  [][window' = "saved" /\ window # "saved" => files[serial] = "done" \/ late]_vars

(* Every save ends in a message, whatever the card does meanwhile.            *)
SaveEnds == window = "progress" ~> window # "progress"

(* "Saved." is shown over the finished file.                                  *)
SavedMeansSaved ==
  [][window' = "saved" /\ window # "saved" => files[serial] = "done"]_vars
=============================================================================
