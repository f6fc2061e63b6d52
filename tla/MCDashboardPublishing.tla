----------------------- MODULE MCDashboardPublishing -----------------------
(***************************************************************************)
(* DashboardPublishing for TLC: two engines of rollouts of which one is     *)
(* tested against two trainers, a blocked pair, an agent card and the       *)
(* endpoint page that is not published.                                     *)
(***************************************************************************)
EXTENDS DashboardPublishing

Fsdp == <<"vllm", "fsdp">>
Megatron == <<"vllm", "megatron">>
Hf == <<"vllm", "hf">>

MCSubjects ==
  {[kind |-> "dense", pair |-> p, task |-> 1] : p \in {Fsdp, Hf}} \cup
  {[kind |-> "dense", pair |-> Fsdp, task |-> 2]} \cup
  {[kind |-> "agent", pair |-> Fsdp, task |-> t] : t \in {1, 2}} \cup
  {[kind |-> "endpoint", pair |-> Fsdp, task |-> 1]}
MCCards == <<"dense", "agent">>
MCCells == {Fsdp, Megatron}
MCBlocked == {Hf}

\* Both tasks become the same file name.
MCSafeName == [t \in {1, 2} |-> 1]
=============================================================================
