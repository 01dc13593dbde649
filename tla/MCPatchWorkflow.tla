-------------------------- MODULE MCPatchWorkflow --------------------------
EXTENDS PatchWorkflow, TLC

Symmetry == Permutations(Files) \cup Permutations(Workspaces) \cup Permutations(Edits)
              \cup Permutations(Patches) \cup Permutations(Requests)
=============================================================================
