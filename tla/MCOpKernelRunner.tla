-------------------------- MODULE MCOpKernelRunner --------------------------
\* Two kernels: one with two outputs, one with workspace and tiling data.
EXTENDS OpKernelRunner, TLC

MCInfo ==
  "two" :> [outputs |-> 2, workspace |-> 0, need_do_tiling |-> FALSE] @@
  "temp" :> [outputs |-> 1, workspace |-> 1, need_do_tiling |-> TRUE]

\* Parameters, and data given as it is, which input_params leaves out.
MCInputs ==
  {<<1>>, <<2, 1>>, <<RAW, 1>>}

\* No reference, and those of output 0 to the first, second and last input.
MCRefs == {<<>>, 0 :> 0, 0 :> 1, 0 :> -1}
=============================================================================
