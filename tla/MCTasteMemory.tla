--------------------------- MODULE MCTasteMemory ---------------------------
EXTENDS TasteMemory

CONSTANTS l1

\* The groups of operations that share tables.
MCMenus == {{"shown"}, {"verdicts", "rubric", "reset"}, {"profile", "reset"},
            {"batch"}, {"lists", "add", "remove", "reset"}}
MCBatch == {<<l1, l1>>}
============================================================================
