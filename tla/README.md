# A TLA+ verification of mlir-tv

mlir-tv is a translation validator: given two MLIR modules it tells, function by function, whether the second one refines the first one. It encodes both functions into SMT under an *abstraction* of floating point and reduction operations, asks a solver, and encodes again under a more concrete abstraction when the answer does not settle the matter.

A validator has a particular notion of correctness. Saying "correct" of a wrong transformation is a soundness bug; so is a model of memory or of floating point that excludes what real programs do. Saying "mismatch" of a right transformation is a false alarm, which the abstraction loop promises to get rid of as far as its levels go. The modules here are about these two promises and about the state that they depend on: levels, counters of operations, solver objects, memory blocks, the numbers of bits of an encoding; and about the encoder itself, whose terms must be what the operations of a program mean.

All paths below are relative to the repository; `src/vcgen.cpp` is mapped as `src/src/vcgen.cpp` in PROJECT.json.

## 1. Inventory

| Component | State | Operations | Correct when |
|---|---|---|---|
| **Validator driver** `src/vcgen.cpp`, `vcgen.h` | the queue of abstractions, the result of the last round, the `Solver` of a step, merged results, `hasUnsupported` | `validate(src,tgt)`, `validate(ValidationInput)`, `checkRefinement`, `solve`, `checkIsSrcAlwaysUB`, `printErrorMsg` | "correct" implies refinement; a mismatch is not an artefact of an abstraction; the loop ends; the exit code tells the worst verdict |
| **Abstraction levels** `src/abstractops.cpp`, `.h` | `abstraction`, `usedOps`, caches of declared functions, floating point encodings (all static) | `setAbstraction`, `getUsedAbstractOps`, the `aop` functions that record | flags that decide about the next level are complete; stale flags do no harm |
| **Memory model** `src/memory.cpp`, `.h` | blocks by element type: array, initialized, writable, size, liveness, created by alloc | `load`, `store`, `storeArray`, `loadArray`, `addLocalBlock`, `setWritable`, `setLivenessToFalse`, `refines` | well-defined code sees initialized elements only and writes only where it may; refinement at the end of a function is enough for its callers |
| **MemRef operations of the encoder** `src/value.cpp` (MemRef), `src/encode.cpp` (memref, bufferization) | registers that hold references | load, store, alloc, alloca, dealloc, copy, fill, to_tensor, to_memref, clone, shapes, subviews | as above, for aliasing references with wrapping offsets |
| **Abstract floating point arithmetic** `src/abstractops.cpp` (`AbsFpEncoding`) | cached declarations of uninterpreted functions | add, mul, div, cmp, extend, truncate | IEEE 754 is one meaning of the uninterpreted functions; special cases have their IEEE results under all of them |
| **Constants and sizes of the encodings** `src/analysis.cpp`, `src/abstractops.cpp` | sets of constants, counts of variables, bit widths, variables for constants | `analyzeAPFloat`, `setAbstraction`, `addConstants`, the preconditions | enough bits; the preconditions are true of the real numbers, or every query is vacuous |
| **Sums and associativity** `src/abstractops.cpp` | `fp_sums`, hash ranges | `sum`, `lambdaSum`, `multisetSum`, `getHashRangeBits`, `getFpAssociativePrecondition` | equal multisets have equal sums, and unequal ones may have unequal sums; the precondition is finite |
| **SMT expressions and solvers** `src/smt.cpp` | contexts of the backends, assertions of a `Solver` | `add`, `check`, `reset`, expression building | answers of backends are combined into one `CheckResult`; an expression that is simplified keeps its value |
| **Values, tensors and their refinement** `src/value.cpp` | the cache of large constants (static) | element access, index arithmetic, rearranging, windows, reductions, `fromElemsAttr`, `refines` | elements are where they belong, and nothing beyond the end of a tensor is seen; equal constants agree; refinement is elementwise |
| **Encoder of other dialects** `src/encode.cpp` | the `State` it is given | one handler per operation | each handler means its operation, and is well-defined where it has a meaning |
| **State and registers** `src/state.cpp`, `src/state.h` | register file, well-definedness by operation, preconditions, memory | `wellDefined`, `addPrecondition` | conditions accumulate and are not lost |
| **Called functions** `src/function.cpp` | a static map of declarations | `declareFunction`, `apply` | equal calls have equal results, in source and target; a declaration fits wherever it is used |
| **Command line driver** `src/main.cpp` | options | parsing, choice of backend | exit code of the validator is passed on |
| **Printing of counterexamples** `src/print.cpp` | none, but `evalConsts` of the encodings | `printCounterEx` | leaves nothing behind for the next query |
| **Test harness** `tests/lit` | none | runs the tool on pairs of files | a test passes for the outcome it expects only |
| **Unit tests** `unittests` | none | | |

**How they interact.** Everything runs in one thread and by direct calls: `main` → `validate(src,tgt)` → for each function `analyze`, then the loop `setAbstraction` → `encode` of both functions → `checkRefinement` → `solve` → backends. What makes this harder than it sounds is shared state that outlives a call: `usedOps`, the declarations and the encodings are statics of `abstractops.cpp`, declarations of callees are statics of `function.cpp`, a `Solver` keeps its assertions between queries, and printing a counterexample changes the encodings. The environment has two unknowns: the functions, and solvers that answer sat, unsat or not at all (`--smt-to`).

**Hard behaviours**: a verdict is the result of a protocol of rounds and queries in which each step depends on records of earlier ones; stale records; timeouts at any query; references that alias, wrap around or are empty; numbers of bits at powers of two; uninterpreted functions that must have room for reality; arrays over all machine indices of which only the first elements count; rewriting rules that look into their operands. There is no concurrency, and nothing is persisted. PROJECT.json lists every hazard at its line, with the properties that cover it.

## 2. Modules

| Module | Models | Composes |
|---|---|---|
| `AbsLevels` | abstraction levels, what an encoding records, refinement of a level | |
| `Programs` | functions as proof obligations, command lines, codes | `AbsLevels` |
| `Validate` | driver, loop, checkRefinement, solvers | `Programs` |
| `Verdict` | the promise of the driver, without rounds and solvers | `Programs` |
| `ValidateProps` | properties; refinement `Validate` ⇒ `Verdict` | `Validate`, `Verdict` |
| `ValidateProofs` | theorems about the driver | `ValidateProps`, TLAPS |
| `Memory` | blocks, references, one operator per operation, refinement of memories | |
| `MemoryRun` | encoding of one function that works on memory | `Memory` |
| `MemoryContext` | a verified replacement inside a program that runs on | `Memory` |
| `MemoryRunProofs` | what operations and ranges of elements do; theorems about a function that works on memory | `MemoryRun`, TLAPS |
| `ContextProofs` | theorems about a replaced function | `MemoryContext`, `Numbers` |
| `FpEncoding` | numbers of an encoding, arithmetic, comparison, casts | |
| `FpArith`, `FpProps` | operations of a function that share declarations; IEEE reference | `FpEncoding` |
| `FpConstants`, `FpConstantsProps` | analysis of constants, bit widths, names, preconditions; the real valuation | `FpEncoding` |
| `FpProofs` | theorems about arithmetic and comparison | `FpProps`, `Numbers` |
| `FpConstantsProofs` | theorems about widths, constants and casts | `FpConstantsProps`, `Numbers` |
| `FpSums` | sums under `--associative`, their precondition | |
| `Analysis` | counts of numbers and blocks, globals of two functions | |
| `SharedTerms` | all encodings of a process, and the declarations and constants that outlive them | `Analysis`, `FpConstants` |
| `SharedTermsProofs` | theorems about widths of terms and numbers of blocks | `SharedTerms`, `Numbers` |
| `Terms` | elements of tensors as terms, programs as sequences of operations | |
| `BitVectors` | expressions of integers, and the shortcuts of their methods | `Terms` |
| `Tensors` | tensors as arrays over machine indices, operations of the class `Tensor` | `Terms` |
| `ConstantTensors` | constants and their cache | `Tensors` |
| `Regions`, `LinalgGeneric` | bodies of regions, indexing maps; linalg.generic | `Tensors` |
| `TensorOps`, `IntegerOps` | handlers of tensor, tosa, linalg, arith and math operations | `LinalgGeneric`, `BitVectors` |
| `Registers` | what registers hold: sizes, and refinement between tensors | `Tensors` |
| `TensorRun` | encoding of one program on tensors and integers | `TensorOps`, `IntegerOps`, `ConstantTensors`, `Registers` |
| `TensorMeaning`, `IntegerMeaning` | what such programs mean: the abstract specification | `Regions` |
| `TensorProps` | properties; refinement `TensorRun` ⇒ `TensorMeaning` | `TensorRun`, `TensorMeaning` |
| `ValueProofs` | theorems about the shortcuts, and about indices and operations of tensors | `BitVectors`, `Registers`, `ConstantTensors`, `Numbers` |
| `Numbers` | induction over sets of numbers, recursive functions, largest and smallest numbers, powers of two, quotients and remainders | TLAPS |
| `MCValidate`, `MCMemoryRun`, `MCMemoryContext`, `MCSharedTerms`, `MCTensors` | small instances | |

### Driver: `AbsLevels`, `Programs`, `Validate`

A function is reduced to what the driver can tell about it. `src` and `tgt` are sequences of operations, each with a kind and a class of lengths, and `OpFlags`, `Throws` say what encoding it under a level records in `usedOps` and when it throws. The obligations of `checkRefinement` (undefined behaviour, each returned value, each element type of the memory) are *needs*: sets of levels that must be concrete for the solver to prove them. `{"fpDot"}` is an obligation that is provable as soon as dots are sums of products; `{"wrong"}` is never provable. `Realizable` ties needs to operations: only a level some operation depends on can matter.

One action per step of the control flow:

| Action | Code |
|---|---|
| `SkipFunction`, `RejectFunction`, `StartFunction`, `Exit` | `validate(src,tgt)`: the name map, `analyze`, arity, merging of results |
| `EncodeRound`, `EncodeRoundThrows` | one iteration of the loop up to `encodeFinalStates` |
| `CheckUB`, `CheckRet`, `CheckMem` | the three steps of `checkRefinement`, by `Solve` and `Conclusion` |
| `ReturnInconsistent`, `RefineAbs`, `GiveUp` | the loop after a result |
| `EncodeSrc`, `EncodeSrcThrows`, `CheckAlwaysUB` | `checkIsSrcAlwaysUB` |

`fpEnc` says whether the encodings are there and whether printing a counterexample has pinned their constants. `asserted` is what a `Solver` holds; `Truth` is the answer of an honest solver to all of it, and `Answers` are the answers of all backends, any of which may be unknown and those in `Faulty` anything. `contradicted` is a history of the functions at one of whose obligations the backends gave `sat` and `unsat`; no action reads it. `rounds` is `itrCount`, which wraps at `ItrModulus`.

`Verdict` is the abstract specification: functions get verdicts in order, each verdict is one that the function justifies (`Justified`), and the exit code summarises them. `ImplementsVerdict` is `V!Spec`, checked as a property of `Validate`; the refinement mapping is the identity on `opt`, `prog`, `verdict` and `exitCode`, and rounds and queries are stutters.

### Memory: `Memory`, `MemoryRun`, `MemoryContext`

The program builds SMT expressions; a model of such an expression is a value, so `Memory` computes on values, and the initial memory and the arguments are not determined, as for a solver. A block is what `memory.h` keeps for it. Fresh contents of a local block are `Junk`, a value no other source produces, so that reading it shows. Operators carry the arithmetic of the code: offsets wrap at `Modulus`, array checks exclude overflow, element checks do not. An operation yields the memory and whether it was well-defined, and `MemoryRun` conjoins the latter like `State`.

Types do not alias, so one element type is modelled. References have identity layouts.

`MemoryContext` asks what the end-of-function refinement is good for. It takes all pairs of functions from a small set for which `checkRefinement` finds no counterexample (`Verified` is computed, over all inputs), and lets source and target go on in lock-step with the same surrounding program.

### Floating point: `FpEncoding`, `FpArith`, `FpConstants`

A number is a sign and a magnitude. `Add`, `Mul`, `Div` are the decision chains of the code, with the values of the uninterpreted functions as parameters; `FpArith` adds the cached declarations that decide which function an operation applies. `FpConstants` draws the non-negative f64 numbers on a line on which every `Gap`-th is an f32 number; `AnalyzeDouble` rounds as APFloat does, `SetAbstraction` computes widths, and `FpConstantPrecondition` and `FpTruncatePrecondition` are what a query asserts.

### Sums: `FpSums`

Under `--associative` an addition is a sum of two numbers, and a sum is a term that stands for an unknown number. `EncodeAdd` and `EncodeReduce` build up to `MaxSums` of them from arguments, the identity -0.0 and each other, and record them as bags, since nothing depends on the order of elements. Then the precondition is built. Without `--multiset` it says that sums which differ have different hash values; `HashPrecondition` is that formula, an operator of what the solver chooses. With `--multiset` it goes over all sums and relates each to pairs of earlier ones by `add`, which records another sum in the vector the loop goes over: `VisitSum` is one iteration of the outer loop.

`Combination` is what a sum adds up when it is taken apart. Since arguments may be numbers without any coincidence among their small combinations, real addition has different sums for different combinations; `AdditionIsAdmitted` asks whether the precondition leaves room for that, `ReassociatedSumsAreEqual` whether it makes equal combinations equal.

### Analysis and terms that outlive an encoding: `Analysis`, `SharedTerms`

`Analysis` translates the counting of `analysis.cpp`: a function is a sequence of typed values and of operations of the kinds that `analyzeBlock` tells apart; `IsFunction` is what MLIR has verified of it before. `NumBlocksPerType` and `NonConstsCount` are what `validate` makes of the counts, and `MergeThrows` and `Globals` are `mergeGlobals`.

`SharedTerms` follows the sequence of encodings of a process: for each function source and target under full abstraction, again with precise casts, and the source once more in `checkIsSrcAlwaysUB`. The bit widths of f32 and f64 in each are those that `FpConstants` computes (instantiated with the counts as parameters). A value is reduced to its width. `calleeMap` and `abstractlyEncodedAttrs` are kept between encodings as in the code; an operation whose operands do not have the widths of the encoding makes Z3 throw (`Abort`). A pair whose arguments differ is left after analysis (`RejectSignature`): before anything is reset if their number differs, and after the first `setAbstraction` if a type does. Answers of the solver are left open: any round may be the last one.

### Encoder: `Terms`, `Tensors`, `LinalgGeneric`, `TensorOps`, `TensorRun`

An element is a term, as for the solver: `Add(a, b)` says nothing about addition. This keeps floating point arithmetic out, which the modules above are about, and shows what encodings are usually wrong about: which elements, in which order, where. A tensor is what `value.h` keeps: sizes, an array `arr` over all `Modulus` machine indices, and `init` beside it. `To1DIdx`, `From1DIdx` and the bounds of lambdas compute with machine arithmetic, and what lies behind the last element is there and can leak. A sum is a term over the list of its addends (`lambdaSum` with the length as bound).

Each handler of `encode.cpp` is an operator from operands to `Encoded(wd, results)` or `Unsupported`. `TensorRun` has an action for each, with `regs`, `welldef` and the list of known constants (`attrs`) as state. An operation that is not well-defined leaves its condition behind and encoding goes on, as in the code.

`LinalgGeneric` follows `encodeOp(linalg::GenericOp)`: bounds of loops by inverting the maps of inputs, the condition that shapes agree, a parallel loop for a permutation as output map and a reduction `yield (out + sum)` for a projection of it.

`TensorMeaning` is the abstract specification: values have elements by their index tuples, no machine indices and no lambdas, and each operation says what is at each index of its result and when it has a meaning. It is not derived from the code but from the definitions of the operations. `ImplementsMeaning` is `M!Spec`, with the refinement mapping `View`, which reads a register at the tuples within its sizes, and `Resolve`, which replaces the unknowns of large constants by the elements of the constant they were made for. The run may not go on in the abstract specification once an operation was undefined, so `Reached` cuts the registers there.

### Integers: `BitVectors`, `IntegerOps`, `IntegerMeaning`

Methods of `Expr` return something simpler than what they are asked for when operands have a form they recognise. `BitVectors` models an expression as a term together with its value under the model at hand; a method builds a term by the rules of the code, and what it returns must have the value of what was asked. A rule that looks at the value of an unknown would be a mistake in the model, so numerals (`bv`) are the only terms whose `val` the rules read. Comparisons of concatenations call themselves with parts; `Ult` and `Eq` iterate one narrowing step (`UltRounds`, `EqRounds`). `IntegerOps` has the arith and math handlers on top, `IntegerMeaning` two's complement arithmetic.

## 3. Runs

Twelve runs; eight pass, four show a place where the code does not do what it, a comment or a test says.

| Run | Asks | Shows |
|---|---|---|
| `validate` | the loop on two functions, 20 kinds of function, all relevant command lines, one backend or two of which one may lie | soundness, no false alarms (without integer dots), at most three rounds, encodings are never pinned, messages match codes, backends that contradict each other at an obligation end the function as inconsistent, the exit code is the worst verdict, refinement of `Verdict`, termination |
| `validate_memory` | two element types | **violated**: `solve` does not reset its Solver, so a failing second type passes |
| `memory_run` | any three memory operations | no junk is read, only writable live elements within a reference change, copy is memcpy, blocks never become live or writable again |
| `memory_empty` | the same with empty references | **violated**: the last offset of an empty array at offset 0 wraps, the fill covers the block |
| `memory_context` | all verified pairs in all programs of three steps | neither undefined behaviour nor another value appears; refinement is kept |
| `fp_arith` | add, mul, div, cmp on all operands and all meanings | IEEE is a meaning, special cases are forced, commutativity, NaN and signs |
| `fp_division` | mul and div in one function | **violated**: both share one declaration |
| `fp_constants` | all sets of up to four constants | widths suffice, the real valuation satisfies the preconditions, casts of constants are IEEE's |
| `sums` | three associative sums of two arguments and of each other | the hash range leaves room for real addition, reassociated sums are equal, the loop over unions ends |
| `tensors` | 1,452 programs, of one to four operations on tensors or up to sixteen on integers | the encoder implements `TensorMeaning`; sizes in registers are machine numbers that count their elements; refinement of tensors is elementwise; equal constants agree |
| `shared_terms` | two functions out of 15 pairs, in all rounds | blocks suffice; f32 terms fit in all encodings of a function |
| `shared_terms_fit` | the same, without restriction | **violated**: declarations of callees and large constants keep the width of the encoding they were made in |

Each violation is a finding in PROJECT.json with the line of the code and the sentence it contradicts.

**What the properties leave out, and why.** Some provisos are places where the code is known not to do what is asked; the passing property then says that nothing *else* is wrong.

* `ProvedIsSound` speaks of the first element type only, since `MemoryProvedIsSound` is violated.
* `NoFalseAlarm` excludes functions with integer dots: that level is refined only if an integer sum was recorded as well (`vcgen.cpp:666`), so that a function with dots alone is never encoded with `SUM_MUL`.
* `memory_run` has no empty references among its arguments (`memory_empty` has).
* `AdmitsIEEEApart` excludes functions that both multiply and divide (`fp_division`), `CmpIsIEEE` a pair of zeros of different sign: `cmp` looks at the signs first (`abstractops.cpp:1110`), and -0.0 is both less than and equal to 0.0.
* `ConstantsAreAdmitted` and `ConstantsConvert` exclude states in which an assertion of the code fails: `PrecisionFits` (numbers from 1 on in log2 of their count bits, `abstractops.cpp:202`; two constants in one gap and no others suffice to break it) and `InfinityIsNoConstant` (a number above the largest f32 one that rounds down, `analysis.cpp:84`).
* `FlatAdditionIsAdmitted` excludes sums that grow beyond the longest recorded length when sums among their elements are taken apart. Multiplicities multiply, which `getHashRangeBits` does not count: four sums of lengths 4, 5, 4, 5, each of the one before (and x in front of the longer ones), add x 4, 17, 68 and 273 times; with hash values of 7 bits 17 and 273 times x hash alike, and the precondition makes them equal.
* `UnionsEnd` excludes recorded sums of fewer than two elements. With two reductions of one-element arrays and one addition under `--associative --multiset`, each sum the loop records is again a union, and the loop does not end.
* `tensors` leaves out programs for which encodings are known to differ from meanings; each is a note of a hazard in PROJECT.json:
  * convolutions with dilations (`value.cpp:740` subtracts dilation * filter, not dilation * (filter - 1) + 1), and filters larger than their input, for which the sizes of the result wrap;
  * tensors that are written element by element and then read as a whole (`isFullyInitialized` asks for all machine indices, `value.cpp:551`), and elementwise binary operations on uninitialized operands (the broadcast copies it asks are initialized by construction);
  * slices with strides that leave the tensor or that the bounds check refuses (`encode.cpp:2572`), slices of size zero, and a size register that is known to be one where the result is dynamic;
  * broadcasting of 1 with 0, a linalg.matmul of tensors that do not fit each other;
  * linalg.generic with several outputs of different maps, with the body `addf %out, %out`, with an output map (i) -> (i, i), or with an input larger than a map (i + j) needs;
  * large dense and large sparse constants in one program, which share names of unknowns (`value.cpp:1396`, `1450`);
  * arith.cmpi of two constants of different sign (`smt.cpp:598`) and math.absi of negative numbers (`smt.cpp:793` clears the sign bit).
* `FloatsFitWithinFunction` excludes f64 terms, callees of earlier functions and callees about which source and target disagree, since `TermsFit` is violated.

### Bounds

* `ItrModulus = 5` in the runs of the driver: rounds are counted in an `unsigned` number (`vcgen.cpp:606`), which wraps. Five values tell a fourth round from a third, and a loop that never ended would be a cycle of states, as in the code, instead of an endless row of new ones.
* `NumFns = 2`: what one function leaves to another (`usedOps`, encodings, merged codes) needs two; a third would see nothing new, as `usedOps` only grows.
* `AllPrograms` (in `MCValidate`): at least one function for every early return, level, order of refinement and step of `checkRefinement`; sequences of one or two obligations suffice to have a first and a last one.
* `Modulus = 4`, `NumGlobals = 2`: two-bit offsets have references that overlap, are adjacent, wrap around and end at the last index; one block is an argument's, one a constant global. As many local blocks exist as in the code, so the limit on them is reached.
* `MaxOps = 3`, `MaxSteps = 3`: create, change, observe. `StillDefined` stops a run of `MemoryRun` at its first undefined operation: properties are about defined ones, and the step that becomes undefined is still checked.
* `Bits = 3`, `One = 3` in `fp_arith`: eight magnitudes, of which zero, one, infinity and NaN are special and four are not. The IEEE reference reads magnitude m as 2^(m - One), so that products are exact unless they leave the range, and sums are rounded towards zero. It is a number system with IEEE's rules, not one of its formats.
* `FpConstants` in `fp_constants`: `Gap = 4` puts three f64 numbers between f32 numbers, `FloatMax = 28` leaves eight of these, `DoubleMax = 33` makes numbers that overflow and, just above `FloatMax`, numbers that do not. `MaxConstants = 4` bounds `constSet` of f64. `NonConsts = {0, 3}`: none, and a number that is no power of two. A precise encoding must be able to number all f32 constants from both ends of the line (`FloatMag`); four constants cannot fill it.
* `FpSums`: `NumArgs = 2`, so that combinations may differ in either argument; `Sizes = {1, 4}`, since sums of two come from `add` and lengths 1 and 4 (5 with an initial value) have different logarithms; `MaxSums = 3`, as a relation between two sums may need a third among their elements; `MaxRecorded = 6` lets the precondition record three more, and `VisitSum` stops at it only where the proviso of `UnionsEnd` fails. `ReassociatedSumsAreEqual` takes hash functions into {1, 2}: the hash value of a sum is linear in the hash values of the arguments, so that two sums that agree under these agree under all functions.
* `tensors`: `Modulus = 64`, which the largest tensor (24 elements) does not fill, so that there are indices behind every end; sizes are one to three or four, different in different dimensions, so that a swapped dimension shows; every operation has static and dynamic result types, dimensions of size one, and operands that make it undefined. `MaxConstSize = 3` makes constants of four elements large. `Word = 64` is the machine word of `isInt` and shifts; integers have 2, 4, 8, 16 or 64 values, so that the word is the width of some of them and wider than the others. Programs have up to four operations: a first one to make an operand that is not an argument, one or two to rearrange or compute, and a last one to observe. `Arithmetic` has all pairs of an unknown or a constant on either side.
* `SharedTerms`: `NumFns = 2`, one to leave something behind and one to find it; 17 pairs in `MCSharedTerms`, among them each kind of operation, few and many numbers, f64 with and without casts, blocks of the target only, and each reason for rejection. The line of numbers has the constants that are always there (zero, one, the largest numbers); functions have no others, as widths differ by counts of variables already.

### Deadlock and fairness

Every cfg has `CHECK_DEADLOCK FALSE`: the process exits after `Exit`, a function ends after `MaxOps` operations, `SetAbstraction` ends the analysis, a precondition is built once, a program on tensors ends with its last operation, and a process that aborts stays so.

`Validate` and `Verdict` have `WF_vars(Next)`: the code is sequential and never waits, as every query ends by an answer or by `--smt-to`. `Terminates` says that it then exits; it would not if a level could be refined twice: `usedOps` is never reset, so a level that has been refined still looks due, and only the test of the level itself (`vcgen.cpp:678` for sums) keeps a function that goes on failing from feeding the queue for ever. `FpSums` has `WF_vars(Next)` for the same reason: the loop over unions is plain code. The other specifications state safety only.

## 4. Proofs

Eight modules hold theorems; each names its invariant and proves that initial states have it, that every action keeps it, and that it implies the property.

**Types of the driver.** `ValidateProofs` proves `TypeCorrect`, `Spec => []TypeOK`, for any number of functions, programs, command lines and backends. `TypeOK` is not inductive: `Head(queue)` is an abstraction only if the queue is not empty, and `prog[fn]` a function only if `fn` is one. `TypeInv` is `TypeOK /\ Control`, where `Control` ties the phase to the queue, the index and the function. There is one lemma per group of actions.

**What verdicts are worth.** `SoundVerdicts` (`[]ProvedIsSound`) and `TrueAlarms` (`[]NoFalseAlarm`) are about command lines with honest backends, any of which may give up at any query; the command line does not change (`InputsStay`).

* `SoundInv` adds what `checkRefinement` has gone past: in phase "ret" and later undefined behaviour is not wrong (`PassedUB`), returned values below the index are not (`PassedRets`), nor is the first element type once it was passed (`PassedMems`). Two lemmas carry the argument: an abstraction never proves what is wrong (`AbstractionSound`), and an honest unsat from a fresh `Solver` proves the obligation asserted (`UnsatProves`). The second is where a `Solver` that is not fresh falls out of the proof, which is why the theorem stops at the first element type, as the code does.
* `AlarmInv` says what a counterexample refutes: the code of a round tells of an obligation that its abstraction does not prove (`StopsAtUnproved`), and the operations of the function were recorded under that abstraction (`RoundRecorded`). When the loop gives up, no recorded flag asks for a more concrete level; so every level that matters to the function is refined, but for integer dots (`NothingLeft`), and what is still not proved needs more than levels. Flags that other functions have left only make the loop refine more.

**The loop.** `RoundsRefine` is `OnlyMoreConcrete`, `ThreeRounds` is `[]AtMostThreeRounds`. The first is local: what `nextAbstraction` returns has more levels refined. The second is not, as `usedOps` grows while a function is encoded, and comes with flags of earlier functions. `LoopInv` says what a round leaves: the first one records every flag that an operation of the function records as long as its level is not refined (`Recorded`), the second one, if there is one, refines all dot and cast levels that are due (`Settled`), and no later encoding records a flag that makes one due again; only the level of sums is left, for one more round.

**Reports.** `ReportsMatch`, `ExitCodes` and `FreshEncodings` are about what is told in the end. Functions get verdicts in order (`InOrder`), `merged` is the worst code of those behind (`MergedIsWorst`), and the line printed last tells the result at hand while the driver decides what to do about it (`LineTellsResult`). Of the functions without a verdict, backends contradicted each other at most at the one at hand, and then the driver is about to leave it with the code for that (`Contradictions`).

**Refinement.** The module about the driver ends with `StepsAsPromised`, `Spec => V!Init /\ [][V!Next]_(V!vars)`: the safety part of `ImplementsVerdict`. The mapping is the identity; the work is in `StepPromised`, that each way to leave a function gives it a verdict it justifies. A success is justified by `SoundInv`, a counterexample by `AlarmInv`, a refusal since what throws under some abstraction throws under the concrete one (`ThrowIsPossible`), the exit code by `MergedIsWorst`.

**Memory.** `MemoryRunProofs` shows for each operation that it is `Safe`: it leaves a memory, blocks only fade, and if it is well-defined, only live and writable blocks change. From this follow `TypeCorrect`, `BlocksOnlyFade` and `WritableOnly`, for any modulus, values, number of blocks, sizes and length of the run. The invariant of `NoJunk` (`[]NoJunkRead`), `KnownInv`, says that while the function is defined, every element of a block that counts as initialized, and lies within it, is known. It rests on the arithmetic of ranges: in a range that passes `RangeInBounds`, no offset wraps (`ElementOfRange`), and what `storeArray` marks as initialized is exactly what it stores (`CoveredElement`). For empty ranges the second is false (`memory_empty`), hence the assumption `NoEmptyRefs`.

`ReferencedOnly` is `OnlyReferencedChanges`, and `CopyCopies` is `CopyIsMemcpy`. `StoredWhere` says where a stored range lies: it is within the block, which has fewer than `Modulus` elements, so its end does not wrap, and the comparisons of `noalias` (`RangesApart`), which do not look at overflow, are right about two ranges that passed. Copying does not need `NoEmptyRefs`, since elements of an empty source are not asked for.

**Replaced functions.** `ContextProofs` proves `SafeReplacement` (`[]SafeInContext`) and `RefinementKept` (`[]RefinementIsKept`), for functions and surrounding programs of any length. `Inv` relates the two runs: references are the same, and each block of the target will do wherever that of the source does (`BlockLeq`). This includes that the target has initialized what the source has, which `Memory::refines` does not compare. It follows all the same (`TargetInitializes`): what an element holds that nobody initialized is up to the solver, so that a verified pair is verified for two contents that differ there only (`ContentsOK`); a target that leaves the element alone leaves both, while the source has stored one value. The lemmas `...Alike` say that an operation keeps two memories related, one for each operation, and `RunLeq` that a body does, by induction along its states (`TraceExists`, `StatesAreSteps`). The premise `NothingEmpty` excludes blocks and references without elements: no element of such a block is compared, not even whether it is alive, and a store of no elements may cover a whole block.

**Floating point arithmetic.** `FpProofs` has one theorem per property of `fp_arith`, for any width and any place of 1.0: `ComparisonsAreIEEE`, `ArithmeticCommutes`, `SpecialsAreExact`, `NansAndSignsAreExact`, `AdmitsIEEEArithmetic`. Operands and declarations are what the invariant is about (`OperandsStay`, `Declared`: an operation applies its own function, unless mul and div meet); the rest are facts about operators. `AddCases`, `MulCases` and `DivCases` say what the code does, `SumCases`, `ProductCases` and `QuotientCases` what IEEE 754 does, in the same cases: NaN, infinities, zeros, identities, equal magnitudes, all others. `SymmetricCommutes` is that bits of `Symmetric` are those of both values, and `SymmetricSame` that of one value twice it is that value; for the second, a number is determined by its bits (`SameBits`, by induction on the width). With the latter the meaning that admits IEEE arithmetic is the IEEE result itself (`RealMeaning`).

**Constants.** `FpConstantsProofs` is about any formats on the line of numbers, any constants up to the bound and any counts.

* The invariant has two parts. `Collected`: sets of constants are finite, f32 constants are the f64 constants that are f32 numbers, and with an f64 constant its f32 neighbours are constants. `Sized`: encodings are absent or have the widths that `setAbstraction` computes from the final sets (`SizesStay`).
* `CastsAreUndone` (`[]CastsRoundTrip`) needs only where the fields of a magnitude are: `LayoutIs` names the powers of two, `Layout` proves it, `RoundTrip` and `ExtendKeepsOrder` follow by quotients and remainders.
* `ConstantsAreNeverContradictory` (`[]ConstantsAreAdmitted`) gives a valuation and shows that it satisfies both preconditions. The number of a constant is its rank among named constants (`Rank...` lemmas); `RoomForFloats` and `RoomForBeyond` are that the widths leave enough magnitudes, by what `log2_ceil` is (`Log2`). f32 constants are numbered from below, those near the largest number from above (`FloatMagRange`, `FloatMagOrder`, `FloatMagSteps`: f32 neighbours get neighbouring magnitudes, as the precondition of truncate asks). f64 constants are their f32 number and precision bits (`Low`, `Offsets`, `LowOrder`), or, beyond f32, are counted down from the largest magnitude (`High`).
* `ConstantsConvertAsIEEE` (`[]ConstantsConvert`) evaluates truncate and extend there (`LowTruncates`, `HighTruncates`, `Extends`).
* `FewConstants` says that a function has fewer constants than f32 has numbers, so that those counted from below and those counted from above do not meet. It is needed: with `Gap = 4`, `One = 4`, `FloatMax = 12`, `DoubleMax = 19` and enough constants all f32 numbers are constants, and TLC finds `ConstantsAreAdmitted` violated by this valuation. A function would have to name two billion numbers. Its second half keeps the constants below what the widths can hold once `min(29, ...)` and `min(32 - ..., ...)` cut them.

**Terms that outlive an encoding.** `SharedTermsProofs` is about any number of functions of any length, any types and counts.

* `TypesAreOK` (`[]TypeOK`): the number of values before an operation is that of the arguments and of all results in front of it. `TypeOK` alone does not say that `prog[fn]` is a pair of functions with equal arguments, without which `regs` of the source would not do for the target; `RunTyped` and `MapsTyped` do. `ValuesInOrder` says where in the flattened results the result of one operation is, and `OperandsAreValues` that its operands are in front of it. The lemmas on `FlattenSeq` under them (`FlattensExist` to `FlattenKeeps`) go by induction along the sequence.
* `BlocksAlwaysSuffice` (`[]BlocksSuffice`) is an argument about counts of different things: `MemRefVars` counts operations with a memref as result, the globals of a function are at most as many as the operations that refer to one (two may refer to the same), and those of both functions at most the two numbers together. It needs that such an operation has one result, a memref of the type of the global.
* `FloatsFit` (`[]FloatsFitWithinFunction`) needs to know what is in the maps. `CalleesAreCalled`: a declaration is that of a callee of this function or of an earlier one, and of this one only after its encoding has started. So when a function starts whose callees are its own, there is no declaration of any of them. `AllFit`: while a function that keeps to the conditions is encoded, declarations are those that each of its calls would make now (`DeclarationsFit`), large constants have the width of their type now (`AttrsFit`), and so has each value (`RegsFit`). The first two outlive the encoding because the width of f32 is the same under both abstractions (`WidthStays`), which is a property of `setAbstraction` and not of the maps; that a constant has one type (`IsPair`) is what its entry rests on. As `phase # "aborted"` is part of `AllFit`, Z3 refuses no application.

**Shortcuts of expressions.** The first part of `ValueProofs` is about operators, not about a behaviour: for every width, whatever an expression is built of, extraction, remainder, quotient, choice, sum, difference, product, comparison and equation return an expression with the value that was asked for. An operand `HasMeaning` if its `val` is the value of what it is built of; `IsBV` bounds it by its width. `UltKeeps` and `EqKeeps` are by induction on the rounds of narrowing, over a set of terms closed under the parts they look at (`AreTerms`): every round leaves two terms of one width that compare as the two before. `SumsKeep` needs `EqKeeps`, as `operator+` asks an equation whether a divisor is zero. The lemmas are about quotients and remainders (a number is its high and its low bits in one way only), which the SMT solver needs in small steps as they are not linear. Two theorems carry a premise that the code does not check: `UltKeeps`, that no remainder by the numeral zero is among the terms, and `SignedComparisonsKeep`, that two numerals have the same sign.

**Tensors.** The second part of `ValueProofs` is about tensors of any rank and any sizes, with elements of any kind. What it needs of sizes is `FitsMachine`: they are machine numbers, and there are fewer elements than machine indices. `RegistersFit` says so of all registers, and the run `tensors` checks it after every operation; a size that is inferred and never resolved, or one that wraps below zero, breaks it.

* `CellsAreIndices`: `from1DIdx` and `to1DIdx` are inverse to each other between the indices in bounds and the first `get1DSize` cells. Three recurrences are tied together: products of leading sizes (`Products`, of which `Volume` is the last), linear indices without wrapping (`LinearIn`), and what is left of a linear index after division by trailing sizes (`RestOf`). Each partial linear index is below the product of the sizes so far (`LinearBelow`), and as these only grow (`ProductsGrow`; a tensor with an element has no size zero) nothing wraps (`To1DIs`); one division undoes one step (`BackToIndices`, `CellsAreInside`).
* `LexIsRowMajor`: the cells in their order are the index tuples in lexicographic order, in which `TensorMeaning` goes over elements.
* `RefinementIsElementwise` (`RegistersFit => RefinesIsElementwise`): the quantifier of `Tensor::refines` goes over machine indices below the size of the source; by the correspondence these are the index tuples in bounds, each once, and no cell behind the end is compared. It holds for whatever is in registers, so it needs no invariant but `RegistersFit`.
* The operations of the class: `InsertChangesOneElement`, `ReshapeKeepsOrder`, `ConstantsAreRowMajor`, `SumsTakeEveryElement`, `ReverseTakesFromTheEnd`, `ConcatTakesBothInTurn`, `TileRepeats`, `TransposeSwaps` and `MatMulSumsRowTimesColumn` say which element of an operand is at each index of a result, as `TensorMeaning` does, and that it is an element of the operand rather than something behind its end. The last one goes through a transpose, two slices of one row and a dot product.
* `ConstantsStay`: a constant that is asked for again gives the same tensor, since the list of known constants is only appended to and `Found` takes the first that is related. This is `EqualConstantsAgree` for one attribute and any two lists; that the encoder's list only grows is what the run adds.

**Induction.** A theorem of the library takes a predicate, which these provers cannot instantiate. `Numbers!Least` and `Numbers!Induction` say the same of a *set* of natural numbers, and a proof defines the set of numbers for which its claim holds. Recursive functions (`States` of `MemoryContext`) are handled so: that a function with the recurrence exists for every length is itself a claim by induction; `Recursion` says so once for all functions that take one step from each number to the next, and `Upward` and `Downward` are induction along an interval in either direction. Powers of two are numbers of subsets (`PowerCounts`), from which `PowerDoubles` follows.

**Assumptions.** `ProgramsOK` (programs and command lines are of their types), `ItrOK` (the counter of rounds can tell a fourth round), `MemoryOK`, `RunOK` (initial memories and arguments are well-formed, and initialized elements of globals are known), `ContextOK`, `ContentsOK` (contents of elements that are not initialized are arbitrary), `FunctionsOK` (operands are results of earlier operations or arguments), `ArithOK` (1.0 is neither zero nor the largest number), `WordOK`, `NumbersOK` (f32 numbers are among f64 numbers, and the largest one is odd), `FewConstants`, `SharedTermsOK` (functions are what MLIR has verified: operands are earlier values, globals and blocks are memrefs of their type, moved elements keep their type, a constant has one type); `NoEmptyRefs` as a premise of `NoJunk` and `ReferencedOnly`, `NothingEmpty` of the theorems of `ContextProofs`, `FitsMachine` or `RegistersFit` of those about tensors; `ModulusOK` and `MaxConstSizeOK` (there are machine indices, and a threshold from which constants are large). All are evaluated by the runs that use the modules.

**Only model-checked.** `Terminates`, `UnionsEnd` and the liveness part of `ImplementsVerdict` (the prover has no fairness). `FpSums`: hash values and combinations are folds over bags inside recursive functions; that a hash function exists that tells sums apart is a counting argument about all hash functions. Tensors and integer operations: `ImplementsMeaning`, `EqualConstantsAgree` and `RegistersFit` as invariants of the encoder, because terms of `Regions` and `TensorProps` are recursive operators and `IntegerOps`, `IntegerMeaning` use bitwise ones, neither of which the prover accepts. Slices, windows and convolutions, whose index arithmetic wraps on purpose.

## 5. Plan

Done: driver and its proofs; memory, its proofs for plain references and for replaced functions; arithmetic and constants with their proofs; sums; counts and terms that outlive an encoding; tensors, loops and integers. Next, in this order:

1. **Proofs**: the invariants of `FpSums` and `ImplementsMeaning`, as far as their recursive definitions can be replaced by recursive functions; the theorems about operations of tensors are the steps of the latter.
2. **Memory model**: returned references (compared as block numbers), strided layouts and subviews, fresh arrays of arguments, several element types.
3. **Loops on buffers**: linalg.generic and linalg operations with memrefs, which join `LinalgGeneric` and `Memory`.
4. **Tensors**: what slices, padding, pooling and convolutions take from their operands, for all sizes, strides and paddings; filters larger than their input.
5. **Analysis**: the claim that no counterexample needs more numbers than are counted, for which values of registers and elements must be modelled; options that replace counts (`--num-memory-blocks`, `--fp-bits`, `--memref-inputs-simple`).
6. **Sums**: the default level with `fp_add` beside sums of equal length.
7. **Called functions**: dimensions of results, `--use-fn-argument-dims`, and that source and target agree about equal calls.

Abstract specifications: `Verdict` and `TensorMeaning` are there; a memory of plain C objects that `Memory` implements for defined code, and a real-number arithmetic for `FpArith`, would be worth stating.

## 6. Not modelled

* Arrays, quantifiers and uninterpreted functions of the solvers, substitution, sorts; printing and parsing of SMT-LIB.
* Of the encoder: tosa.clamp and bitwise operations, arith.cmpf and casts of elements, affine.apply, shape operations, integer reductions, shifts of whole tensors, loops on buffers. Integer elements of tensors are uninterpreted terms like floating point ones. Bodies of regions are terms of their arguments and loop variables.
* Contents of `int_dot` and `int_sum` terms; floating point sums beyond `--associative`.
* `exp`, maximum and casts between integers and floating point numbers, and the mode in which all floating point operations are uninterpreted.
* Option parsing, file I/O, splitting of input files, counterexample formatting, the test harness.
