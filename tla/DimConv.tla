------------------------------ MODULE DimConv ------------------------------
(***************************************************************************)
(* The conversions between the formats NCHW and NC1HWC0 of dim_conv.py: the   *)
(* program that _four2five_ir and _five2four_ir emit for DaVinci, run one       *)
(* block at a time.  A block is a slice of the pixels of C0 channels: it is     *)
(* copied into the unified buffer, transposed, and copied out.                 *)
(*                                                                         *)
(* Memory holds the number of the input element that a cell has the value of,   *)
(* or JUNK where nothing was written.  A copy moves whole bursts of C0           *)
(* elements.  C0 is 16 in the code.  The instructions (copy_gm_to_ubuf,          *)
(* scatter_vnchwconv_b16, copy_ubuf_to_gm) are external.                       *)
(***************************************************************************)
EXTENDS Integers, FiniteSets

CONSTANTS C0, UB_SIZE,     \* shape_c0, and the bytes of the unified buffer,
                           \* which holds a cube of C0 by C0 of each tensor
          Shapes,          \* of the tensors: [n, c, hw], hw the pixels
          Ops,             \* the conversions
          JUNK, ZERO

VARIABLES shape, op,       \* raw_shape_4D, and "four2five" or "five2four"
          output,          \* the output tensor and one burst behind it
          input_ub, output_ub, output_head_ub,
          block, pc        \* the block that is done, and its next instruction

vars == <<shape, op, output, input_ub, output_ub, output_head_ub, block, pc>>

CeilDiv(a, b) == (a + b - 1) \div b
c1_range == CeilDiv(shape.c, C0)
c1_tail == shape.c % C0
c1_loop == IF c1_tail # 0 THEN c1_range - 1 ELSE c1_range
hw == shape.hw             \* actual_col_size

\* _get_vnchwconv_cube_buf_max: the elements of a full block and of the last.
cube_buf_max ==
  LET cube == 2 * C0 * C0
      size == CeilDiv(hw, C0) * cube
      cut == IF op = "four2five" \/ hw % C0 = 0 THEN UB_SIZE \div 2
             ELSE (((UB_SIZE - cube) \div 2) \div cube) * cube
  IN  IF size > UB_SIZE \div 2 THEN [full |-> cut \div 2, tail |-> (size % cut) \div 2]
                               ELSE [full |-> size \div 2, tail |-> 0]
cube_col_size == cube_buf_max.full \div C0
buf_cube_range == CeilDiv(hw, cube_col_size)
hw_tail_size == hw % cube_col_size

OutputSize == shape.n * hw * (IF op = "four2five" THEN c1_range * C0 ELSE shape.c)

Init ==
  /\ shape \in Shapes /\ op \in Ops
  /\ output = [a \in 0 .. OutputSize + C0 - 1 |-> JUNK]
  /\ input_ub = [a \in 0 .. cube_buf_max.full - 1 |-> JUNK]
  /\ output_ub = [a \in 0 .. cube_buf_max.full - 1 |-> JUNK]
  /\ output_head_ub = [a \in 0 .. C0 * C0 - 1 |-> JUNK]
  /\ block = 0 /\ pc = "in"

\* The loops: the full C1 of every image first, then the last C1 of every
\* image.
FullBlocks == shape.n * c1_loop * buf_cube_range
Blocks == FullBlocks + (IF c1_tail # 0 THEN shape.n * buf_cube_range ELSE 0)
At ==
  LET k == block - FullBlocks
  IN  IF block < FullBlocks
      THEN [n |-> block \div (c1_loop * buf_cube_range), c1 |-> (block \div buf_cube_range) % c1_loop,
            cube |-> block % buf_cube_range, c0_loop |-> C0]
      ELSE [n |-> k \div buf_cube_range, c1 |-> c1_loop, cube |-> k % buf_cube_range, c0_loop |-> c1_tail]
IsTail == buf_cube_range > 1 /\ At.cube = buf_cube_range - 1

-----------------------------------------------------------------------------
(* The instructions                                                        *)

\* _emit_copy_gm_ubuf for columns 0 .. cols - 1, one after the other: size
\* elements from s[col] to d[col], in whole bursts.
Copy(dst, d, src, s, size, cols) ==
  [a \in DOMAIN dst |->
     LET over == {col \in 0 .. cols - 1 : d[col] <= a /\ a < d[col] + CeilDiv(size, C0) * C0}
         last == CHOOSE col \in over : \A other \in over : other <= col
         from == s[last] + a - d[last]
     IN  IF over = {} THEN dst[a] ELSE IF from \in DOMAIN src THEN src[from] ELSE JUNK]

\* The input tensor: its elements are their own numbers.
Input == [a \in 0 .. shape.n * hw * (IF op = "four2five" THEN shape.c ELSE c1_range * C0) - 1 |-> a]

\* The start of each column of the block, in a tensor of each format and in
\* the buffer.
Cols == 0 .. C0 - 1
AtZero == [col \in Cols |-> 0]
Start4 == [col \in Cols |-> At.n * shape.c * hw + (At.c1 * C0 + col) * hw + At.cube * cube_col_size]
Start5 == [col \in Cols |-> At.n * (c1_range * C0) * hw + At.c1 * C0 * hw + At.cube * cube_buf_max.full]
Column == [col \in Cols |-> col * cube_col_size]

\* Where _four2five_intrin reads a column: a block that is not the last of
\* several multiplies by shape_n for the image.
Source4 ==
  IF buf_cube_range > 1 /\ ~IsTail
  THEN [col \in Cols |-> At.n * shape.n * shape.n * shape.n + (At.c1 * C0 + col) * hw + At.cube * cube_col_size]
  ELSE Start4

FourToFiveIn ==
  input_ub' = Copy(input_ub, Column, Input, Source4,
                   IF IsTail THEN cube_buf_max.tail \div C0 ELSE cube_col_size, At.c0_loop)
FiveToFourIn ==
  input_ub' = Copy(input_ub, AtZero, Input, Start5, IF IsTail THEN cube_buf_max.tail ELSE cube_buf_max.full, 1)

CopyIn ==
  /\ pc = "in" /\ block < Blocks
  /\ IF op = "four2five" THEN FourToFiveIn ELSE FiveToFourIn
  /\ pc' = "transpose"
  /\ UNCHANGED <<shape, op, output, output_ub, output_head_ub, block>>

\* scatter_vnchwconv_b16 with the addresses of _set_array_config: rows of C0
\* elements become columns, repeat times.
repeat == IF IsTail THEN (cube_buf_max.tail \div C0) \div C0 ELSE cube_col_size \div C0
Vnchwconv ==
  /\ pc = "transpose"
  /\ output_ub' = [a \in DOMAIN output_ub |->
       LET pixel == IF op = "four2five" THEN a \div C0 ELSE a % cube_col_size
           chan == IF op = "four2five" THEN a % C0 ELSE a \div cube_col_size
       IN  IF pixel >= repeat * C0 THEN output_ub[a]
           ELSE input_ub[IF op = "four2five" THEN Column[chan] + pixel ELSE pixel * C0 + chan]]
  /\ pc' = IF op = "five2four" /\ IsTail /\ hw_tail_size % C0 # 0 THEN "backup" ELSE "out"
  /\ UNCHANGED <<shape, op, output, input_ub, output_head_ub, block>>

\* The heads of the columns, which the last bursts of a tail write over.
Head == [col \in Cols |-> At.n * shape.c * hw + (At.c1 * C0 + col) * hw]
HeadUb == [col \in Cols |-> col * C0]
Backup ==
  /\ pc = "backup" /\ pc' = "out"
  /\ output_head_ub' = Copy(output_head_ub, HeadUb, output, Head, C0, At.c0_loop)
  /\ UNCHANGED <<shape, op, output, input_ub, output_ub, block>>

FourToFiveOut ==
  output' = Copy(output, Start5, output_ub, AtZero,
                 C0 * (IF IsTail THEN hw_tail_size ELSE IF buf_cube_range > 1 THEN cube_col_size ELSE hw), 1)
FiveToFourOut ==
  output' = Copy(output, Start4, output_ub, Column,
                 IF IsTail \/ (buf_cube_range = 1 /\ hw_tail_size # 0) THEN hw_tail_size ELSE cube_col_size, At.c0_loop)

CopyOut ==
  /\ pc = "out"
  /\ IF op = "four2five" THEN FourToFiveOut ELSE FiveToFourOut
  /\ IF op = "five2four" /\ IsTail /\ hw_tail_size % C0 # 0
     THEN pc' = "restore" /\ UNCHANGED block
     ELSE pc' = "in" /\ block' = block + 1
  /\ UNCHANGED <<shape, op, input_ub, output_ub, output_head_ub>>

\* The heads stay as the tails left them.
Restore_Skipped ==
  /\ pc = "restore" /\ pc' = "in" /\ block' = block + 1
  /\ UNCHANGED <<shape, op, output, input_ub, output_ub, output_head_ub>>

Restore ==
  /\ pc = "restore" /\ pc' = "in" /\ block' = block + 1
  /\ output' = Copy(output, Head, output_head_ub, HeadUb, C0, At.c0_loop)
  /\ UNCHANGED <<shape, op, input_ub, output_ub, output_head_ub>>

Next == CopyIn \/ Vnchwconv \/ Backup \/ CopyOut \/ Restore

Spec == Init /\ [][Next]_vars

-----------------------------------------------------------------------------
(* The conversions for protogenes, which compute the same tensors with tvm   *)

Reference5(a) ==
  LET c0 == a % C0
      p == (a \div C0) % hw
      c == ((a \div (C0 * hw)) % c1_range) * C0 + c0
      n == a \div (C0 * hw * c1_range)
  IN  IF c < shape.c THEN (n * shape.c + c) * hw + p ELSE ZERO
Reference4(a) ==
  LET p == a % hw
      c == (a \div hw) % shape.c
      n == a \div (hw * shape.c)
  IN  ((n * c1_range + (c \div C0)) * hw + p) * C0 + (c % C0)
Reference(a) == IF op = "four2five" THEN Reference5(a) ELSE Reference4(a)

-----------------------------------------------------------------------------
(* Properties                                                              *)

Done == block = Blocks
Elements == {a \in 0 .. OutputSize - 1 : Reference(a) # ZERO}

\* The emitted program puts every element where the conversion for protogenes
\* has it.
Converted == Done => \A a \in Elements : output[a] = Reference(a)

\* It does, whatever the tails of the pixels and of the channels and however
\* the blocks and bursts overlap, where the last of several blocks is not as
\* large as the others, the blocks of a four2five are those of one image or
\* whole images, and no burst of a last C1 reaches into the next image.
Regular ==
  /\ buf_cube_range = 1 \/ (cube_buf_max.tail # 0 /\ (shape.n = 1 \/ op = "five2four"))
  /\ op = "four2five" \/ shape.n = 1 \/ c1_tail = 0 \/ hw % C0 = 0
ConvertedWhereRegular == Regular => Converted

=============================================================================
