--------------------------- MODULE MCUploadQueue ---------------------------
(***************************************************************************)
(* Instances of UploadQueue for TLC.  A script gives the sequence number   *)
(* of every POST; lens gives the payload length for every number.          *)
(***************************************************************************)
EXTENDS UploadQueue, FiniteSetsExt

MCWorkload(script, lens) ==
  [p \in Posts |->
    [seq   |-> script[p],
     start |-> MapThenSumSet(LAMBDA s : lens[s + 1], 0..script[p] - 1),
     len   |-> lens[script[p] + 1]]]

\* Four packets once each, among them an empty one and ones longer than the
\* read buffers.
UniqueWorkloads ==
  {MCWorkload(<<0, 1, 2, 3>>, l) : l \in {<<2, 1, 0, 3>>, <<1, 2, 2, 1>>}}

\* Packets that arrive twice: the second (a retry of the one in front) or the
\* third.
RepeatedWorkloads ==
  {MCWorkload(s, <<1, 2, 1>>) : s \in {<<0, 1, 1, 2>>, <<0, 0, 1, 2>>, <<0, 1, 2, 2>>}}

\* Every packet that may arrive twice fits in one read.
FittingWorkloads ==
  UniqueWorkloads
    \union {MCWorkload(s, <<1, 1, 2>>) : s \in {<<0, 1, 1, 2>>, <<0, 0, 1, 2>>}}
    \union {MCWorkload(<<0, 1, 2, 2>>, <<2, 1, 1>>)}
=============================================================================
