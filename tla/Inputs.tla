------------------------------- MODULE Inputs -------------------------------
(***************************************************************************)
(* The functions that give an explored C program an input of some type     *)
(* (lang_c/libowi/src/owi.c and test-comp.c), down to the functions of owi *)
(* they import (lang_c/libowi/include/owi.h), each of which makes one      *)
(* symbol.  Functions and types are their names.                           *)
(***************************************************************************)
EXTENDS Integers

(* What owi is asked for. *)
Imports ==
  [owi_int8   |-> "i8_symbol",  owi_uint8   |-> "i8_symbol",
   owi_int16  |-> "i16_symbol", owi_uint16  |-> "i16_symbol",
   owi_int32  |-> "i32_symbol", owi_uint32  |-> "i32_symbol",
   owi_int64  |-> "i64_symbol", owi_uint64  |-> "i64_symbol",
   owi_int128 |-> "v128_symbol", owi_uint128 |-> "v128_symbol",
   owi_float  |-> "f32_symbol", owi_double  |-> "f64_symbol",
   owi_bool   |-> "bool_symbol"]

(* The bits of each symbol, and those of the value it is returned as.      *)
Symbols ==
  [bool_symbol |-> [bits |-> 1, width |-> 32],  i8_symbol |-> [bits |-> 8, width |-> 32],
   i16_symbol |-> [bits |-> 16, width |-> 32],  i32_symbol |-> [bits |-> 32, width |-> 32],
   i64_symbol |-> [bits |-> 64, width |-> 64],  f32_symbol |-> [bits |-> 32, width |-> 32],
   f64_symbol |-> [bits |-> 64, width |-> 64],  v128_symbol |-> [bits |-> 128, width |-> 128]]

(* Where each bit of a value comes from: a bit of the symbol, or none.  A   *)
(* small symbol is extended with zeros, whatever the type of the function. *)
ZeroBit == -1
Extended(symbol) ==
  [n \in 0 .. symbol.width - 1 |-> IF n < symbol.bits THEN n ELSE ZeroBit]

(* The sizes of the types for WebAssembly of 32 bits. *)
SizeOf ==
  [char |-> 1, short |-> 2, int |-> 4, long |-> 4, longlong |-> 8]

(* Faulty: the two small sizes are confused. *)
magic_size_signed_Small(size) ==
  IF size \in {1, 2} THEN "owi_int8"
  ELSE IF size = 4 THEN "owi_int32" ELSE "owi_int64"
magic_size_signed(size) ==
  IF size = 1 THEN "owi_int8"
  ELSE IF size = 2 THEN "owi_int16"
  ELSE IF size = 4 THEN "owi_int32" ELSE "owi_int64"

magic_size_unsigned(size) ==
  IF size = 1 THEN "owi_uint8"
  ELSE IF size = 2 THEN "owi_uint16"
  ELSE IF size = 4 THEN "owi_uint32" ELSE "owi_uint64"

(* owi_char, owi_unsigned_char and so on, by their types. *)
owi_signed(type) == magic_size_signed(SizeOf[type])
owi_unsigned(type) == magic_size_unsigned(SizeOf[type])

(* __VERIFIER_nondet_...: the function called for each. *)
Verifier ==
  [bool |-> "owi_bool",
   char |-> owi_signed("char"),         uchar |-> owi_unsigned("char"),
   short |-> owi_signed("short"),       ushort |-> owi_unsigned("short"),
   int |-> owi_signed("int"),           uint |-> owi_unsigned("int"),
   long |-> owi_signed("long"),         ulong |-> owi_unsigned("long"),
   longlong |-> owi_signed("longlong"), ulonglong |-> owi_unsigned("longlong"),
   charp |-> owi_unsigned("long"),      int128 |-> "owi_int128",
   float |-> "owi_float",               double |-> "owi_double"]

(* The value of __VERIFIER_nondet_uint128 is the address of owi_uint128,   *)
(* which is not called.                                                    *)
Uncalled == {"uint128"}

(* The value that a call returns, if it makes a symbol. *)
Nondet(type) ==
  IF type \in Uncalled THEN << >> ELSE Extended(Symbols[Imports[Verifier[type]]])
=============================================================================
