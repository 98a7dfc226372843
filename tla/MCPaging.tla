------------------------------ MODULE MCPaging ------------------------------
(***************************************************************************)
(* Instances of Paging for TLC: two processes share two frames.            *)
(***************************************************************************)
EXTENDS Paging

\* Every page fits in memory and swap, though a swapout may find no slot;
\* lazily allocated pages, and growing ones, with more slots than pages; exec,
\* without swap space.
MCWorkloads == {
  [ops |-> {"eager", "shrink", "fork", "exit"}, slots |-> 2],
  [ops |-> {"lazy", "fork"}, slots |-> 4],
  [ops |-> {"eager", "fork"}, slots |-> 4],
  [ops |-> {"eager", "exec"}, slots |-> 0]}

\* exec while pages are being swapped out.
MCExec == {[ops |-> {"eager", "exec"}, slots |-> 4]}

\* Pages are given back before they are touched.
MCLazyShrink == {[ops |-> {"lazy", "shrink"}, slots |-> 4]}

MCGrowFork == {[ops |-> {"eager", "fork"}, slots |-> 4]}
=============================================================================
