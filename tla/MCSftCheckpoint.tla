--------------------------- MODULE MCSftCheckpoint ---------------------------
\* Instances of SftCheckpoint for TLC.
EXTENDS SftCheckpoint

WholeFolder  == [keep |-> 2, uploads |-> "folder"]
SingleFiles  == [keep |-> 1, uploads |-> "files"]
TwoFiles     == [keep |-> 2, uploads |-> "files"]
LocalOnly    == [keep |-> 0, uploads |-> "none"]
AllTrainers  == {WholeFolder, SingleFiles, TwoFiles, LocalOnly}
AllKept      == {LocalOnly}
SingleFolder == {[keep |-> 1, uploads |-> "folder"]}
=============================================================================
