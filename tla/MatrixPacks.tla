---------------------------- MODULE MatrixPacks -----------------------------
(***************************************************************************)
(* The host's data: 2x2 matrices, the packs of operands main.c sends to    *)
(* the lanes and the way it puts the results back into a matrix            *)
(* (src/hps_fpga_Project/hps_code/main.c).                                 *)
(***************************************************************************)
EXTENDS MacWords

MATRIX_SIZE == 2
Index == 0 .. MATRIX_SIZE - 1
Elements == 0 .. MATRIX_SIZE * MATRIX_SIZE - 1  \* row-major

Matrix == [Index -> [Index -> Word]]   \* square_matrix_t
Pair   == [a : Matrix, b : Matrix]     \* matrix_in[value_idx]
Pack   == [Elements -> [Elements -> Word]]  \* matrix_mult_pack_t

row(e) == e \div MATRIX_SIZE
col(e) == e % MATRIX_SIZE

(* Fault: the row of b instead of its column. *)
make_matrix_mult_pack_rows(pair) ==
    [e \in Elements |-> [w \in Elements |->
        IF w < MATRIX_SIZE THEN pair.a[row(e)][w]
                           ELSE pair.b[col(e)][w - MATRIX_SIZE]]]

(* One pack of operands per output element: the row of a, then the column
   of b.                                                                   *)
make_matrix_mult_pack(pair) ==
    [e \in Elements |-> [w \in Elements |->
        IF w < MATRIX_SIZE THEN pair.a[row(e)][w]
                           ELSE pair.b[w - MATRIX_SIZE][col(e)]]]

clear_matrix == [r \in Index |-> [c \in Index |-> 0]]

(* The first count words of output_array become the elements of matrix from
   start on; elements past the end are ignored.                            *)
package_cluster_outputs_into_matrix(output_array, count, start, matrix) ==
    [r \in Index |-> [c \in Index |->
        LET e == r * MATRIX_SIZE + c
        IN  IF start <= e /\ e < start + count THEN output_array[e - start]
                                               ELSE matrix[r][c]]]

(* What all of this is for: the matrix product, in uint32_t arithmetic. *)
Product(pair) ==
    [r \in Index |-> [c \in Index |->
        (pair.a[r][0] * pair.b[0][c] + pair.a[r][1] * pair.b[1][c]) % Base]]
=============================================================================
