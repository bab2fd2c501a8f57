---------------------------- MODULE HostObjects ----------------------------
(***************************************************************************)
(* Guest code calling the host: the host's object table, the table of each *)
(* VM frame through which alone its guest names objects, and the budget    *)
(* that is handed to the VM as fuel and back at every crossing.            *)
(*                                                                         *)
(* A guest is arbitrary code.  It may pass any value to a host function: a *)
(* small value, or a handle of any tag and number, forged or not.  What    *)
(* its linear memory holds is not state, since it may write anything there *)
(* before a call; positions and lengths are checked by the functions.      *)
(***************************************************************************)
EXTENDS HostValues
LOCAL INSTANCE SequencesExt

CONSTANTS
  CpuLimit, MemLimit,  \* limits of the budget
  CpuPerFuel,          \* cost of a unit of fuel (the WasmInsnExec model)
  CallCost,            \* cost of a host function, its dispatch included
  Smalls,              \* small values the guest computes by itself
  Words,               \* u64 numbers it passes
  Pieces,              \* <<hi, lo>> of the wide integers it passes
  Strings,             \* bytes it has in its memory
  Foreign,             \* ScVals whose encoding it has, well formed or not
  RootArgs,            \* argument ScVals of the invocation
  MaxFrames            \* bound on the depth of calls

ASSUME BudgetAssumption ==
  {CpuLimit, MemLimit, CpuPerFuel, CallCost, MaxFrames} \subseteq Nat

VARIABLES
  objects,  \* HostImpl::objects
  frames,   \* the VM frames; the guest of the last one runs
  budget,   \* consumed cpu and memory
  work      \* ghost: what the guests executed and called, in cpu

vars == <<objects, frames, budget, work>>

Top == Last(frames)
Running == frames # <<>>

----------------------------------------------------------------------------
(* Budget and fuel *)

\* A charge is added before the limits are checked.
charge(b, cpu, mem) == [cpu |-> b.cpu + cpu, mem |-> b.mem + mem]
check_budget_limit(b) == b.cpu <= CpuLimit /\ b.mem <= MemLimit
get_remaining(b) == IF b.cpu > CpuLimit THEN 0 ELSE CpuLimit - b.cpu
get_wasmi_fuel_remaining(b) ==
  get_remaining(b) \div (IF CpuPerFuel = 0 THEN 1 ELSE CpuPerFuel)

return_fuel_to_host_uncosted(b, f) == charge(b, f.used, 0)
return_fuel_to_host(b, f) == charge(b, f.used * CpuPerFuel, 0)

Clean(f) == [f EXCEPT !.used = 0, !.fuel = 0]
add_fuel_to_vm(b, f) == [f EXCEPT !.used = 0, !.fuel = get_wasmi_fuel_remaining(b)]

----------------------------------------------------------------------------
(* Handles *)

\* A guest's value as the host's: a handle must be relative, in the frame's
\* table, and tagged as the object there.
relative_to_absolute_any(rel, v) ==
  IF ~v.obj THEN {v}
  ELSE IF is_relative_object_handle(v.n)
       THEN {o \in {rel[i] : i \in DOMAIN rel \cap {handle_to_index(v.n)}} : o.tag = v.tag}
       ELSE {o \in {Ref(objects, i) : i \in DOMAIN objects \cap {handle_to_index(v.n)}} :
               o.tag = v.tag}
relative_to_absolute(rel, v) ==
  IF ~v.obj THEN {v}
  ELSE IF is_relative_object_handle(v.n)
       THEN {o \in {rel[i] : i \in DOMAIN rel \cap {handle_to_index(v.n)}} : o.tag = v.tag}
       ELSE {}

\* A value the host gives the guest enters the frame's table.
absolute_to_relative(rel, v) == IF v.obj THEN Append(rel, v) ELSE rel

RECURSIVE AllRelative(_, _)
AllRelative(rel, vs) ==
  IF vs = <<>> THEN rel
  ELSE AllRelative(absolute_to_relative(rel, Head(vs)), Tail(vs))

\* Every value the running guest can get through to the host.
RawVals ==
  Smalls \cup [tag : ObjectTags, obj : {TRUE}, n : 0..(2 * MemLimit + 1)]
Args == UNION {relative_to_absolute(Top.rel, v) : v \in RawVals}
ArgsOf(t) == {v \in Args : v.tag = t}
Data(t) == {Object(objects, v).data : v \in {x \in ArgsOf(t) : x.obj}}

\* The objects a value leads to.
RECURSIVE Reach(_, _)
Reach(objs, v) ==
  IF ~v.obj THEN {}
  ELSE LET o == Object(objs, v)
           parts == IF o.tag = "Vec" THEN ToSet(o.data)
                    ELSE IF o.tag = "Map" THEN ToSet(Flat(o.data)) ELSE {}
       IN {handle_to_index(v.n)} \cup UNION {Reach(objs, x) : x \in parts}

----------------------------------------------------------------------------
(* Crossing into the host and back *)

\* The dispatch of a host function: the fuel comes back, the call is charged,
\* and the values returned (one, or those written to memory) enter the table.
\* `objs' is the object table afterwards.
Dispatched(objs, vals) ==
  LET new == (Len(objects) + 1)..Len(objs)
      rel == AllRelative(Top.rel, vals)
      b == charge(return_fuel_to_host(budget, Top), CallCost,
                  Cardinality(new) + Len(rel) - Len(Top.rel))
  IN /\ check_budget_limit(b)
     /\ objects' = objs
     /\ budget' = b
     /\ work' = work + CallCost
     /\ frames' = [frames EXCEPT ![Len(frames)] =
                     add_fuel_to_vm(b, [@ EXCEPT !.rel = rel, !.sees = @ \cup new])]

Makes(t, ds) ==
  \E d \in ds : LET r == add_host_object(objects, HostObject(t, d))
                IN Dispatched(r.objs, <<r.val>>)
Gives(vs) == \E v \in vs : Dispatched(objects, <<v>>)

\* The arithmetic on signed wide integers returns an object only when the number
\* is not small.
MakesI256(ns) ==
  \E n \in ns : IF IsSmall(n) THEN Dispatched(objects, <<Small("I256", n)>>)
                ELSE Makes("I256", {n})

\* The dispatch itself is charged before the function does anything.
Enters ==
  Running /\ check_budget_limit(charge(return_fuel_to_host(budget, Top), CallCost, 0))

Indexes == 0..U32Max

\* One unit of fuel of the guest's own instructions.
Exec ==
  /\ Running /\ Top.used < Top.fuel
  /\ frames' = [frames EXCEPT ![Len(frames)].used = @ + 1]
  /\ work' = work + CpuPerFuel
  /\ UNCHANGED <<objects, budget>>

\* obj_from_u64 and obj_from_i256_pieces make an object of a small number too.
NumberFn ==
  /\ Enters
  /\ \/ Makes("U64", Words)
     \/ Makes("I256", {i256_from_pieces(p[1], p[2]) : p \in Pieces})
     \/ MakesI256(LET N == {Number(objects, v) : v \in ArgsOf("I256")}
                  IN UNION {i256_add(a, b) \cup i256_sub(a, b) \cup i256_mul(a, b) :
                            a \in N, b \in N})

VecMake ==
  /\ Enters
  /\ LET A == Args IN Makes("Vec", {<<>>} \cup UNION {
       vec_pop_front(d) \cup vec_pop_back(d)
       \cup UNION {vec_append(d, e) : e \in Data("Vec")}
       \cup UNION {vec_push_front(d, x) \cup vec_push_back(d, x) : x \in A}
       \cup UNION {vec_del(d, i) : i \in Indexes}
       \cup UNION {vec_slice(d, i, j) : i \in Indexes, j \in Indexes}
       \cup UNION {vec_put(d, i, x) \cup vec_insert(d, i, x) : i \in Indexes, x \in A} :
       d \in Data("Vec")})

\* An element, or the index of one (whether the elements are sorted or not).
VecRead ==
  /\ Enters
  /\ LET A == Args IN Gives(UNION {
       vec_front(d) \cup vec_back(d) \cup UNION {vec_get(d, i) : i \in Indexes}
       \cup {IF n < 0 THEN Void ELSE Small("U32", n) :
             n \in UNION {{vec_first_index_of(objects, d, x),
                           vec_last_index_of(objects, d, x)} : x \in A}}
       \cup {Small("U64", r.pos) :
             r \in UNION {vec_binary_search(objects, d, x) : x \in A}} :
       d \in Data("Vec")})

MapMake ==
  /\ Enters
  /\ LET A == Args IN Makes("Map", {<<>>} \cup UNION {
       UNION {map_del(objects, m, k) : k \in A}
       \cup UNION {map_put(objects, m, k, v) : k \in A, v \in A} :
       m \in Data("Map")})

MapRead ==
  /\ Enters
  /\ \/ LET A == Args IN Gives(UNION {UNION {map_get(objects, m, k) : k \in A}
                     \cup UNION {map_key_by_pos(m, i) \cup map_val_by_pos(m, i) :
                                 i \in Indexes} : m \in Data("Map")})
     \/ Makes("Vec", {Keys(m) : m \in Data("Map")} \cup {map_values(m) : m \in Data("Map")})

BytesFn ==
  /\ Enters
  /\ Makes("Bytes", {<<>>} \cup UNION {
       bytes_pop(d) \cup UNION {bytes_append(d, e) : e \in Data("Bytes")}
       \cup UNION {bytes_push(d, u) : u \in Indexes}
       \cup UNION {bytes_del(d, i) : i \in Indexes}
       \cup UNION {bytes_slice(d, i, j) : i \in Indexes, j \in Indexes}
       \cup UNION {bytes_put(d, i, u) \cup bytes_insert(d, i, u) :
                   i \in Indexes, u \in Indexes} : d \in Data("Bytes")})

\* Objects made from the guest's linear memory.
Lists == LET A == Args IN {<<>>} \cup {<<x>> : x \in A} \cup (A \X A)
MemoryMake ==
  /\ Enters
  /\ \/ Makes("Vec", {vs \in Lists : \E p \in Indexes : checked_range(p, Len(vs), MemSize)})
     \/ Makes("Bytes", UNION {memobj_new_from_linear_memory(p, s) : p \in Indexes, s \in Strings})
     \/ Makes("Bytes", UNION {memobj_copy_from_linear_memory(d, i, p, s) :
                              d \in Data("Bytes"), i \in Indexes, p \in Indexes, s \in Strings})
     \/ Makes("Symbol", UNION {try_from_bytes(s) : s \in UNION {
                          memobj_new_from_linear_memory(p, t) : p \in Indexes, t \in Strings}})

\* map_new_from_linear_memory: the keys are symbols, made before the map.
MemoryMap ==
  /\ Enters
  /\ \E ss \in {<<s>> : s \in Strings} \cup (Strings \X Strings), vs \in Lists :
       /\ Len(ss) = Len(vs) /\ \E p \in Indexes : checked_range(p, Len(ss), MemSize)
       /\ \E r \in ToHostAll(objects, [i \in DOMAIN ss |-> ScVal("Symbol", ss[i])]) :
            \E m \in from_map(r.objs, [i \in DOMAIN ss |-> <<r.vals[i], vs[i]>>]) :
              LET a == add_host_object(r.objs, HostObject("Map", m))
              IN Dispatched(a.objs, <<a.val>>)

\* vec_unpack and map_unpack: the elements are written to the memory.  The
\* keys of the map must be the symbols that the guest expects.
MemoryUnpack ==
  /\ Enters
  /\ \E vs \in Data("Vec") \cup {map_values(m) : m \in
                 {x \in Data("Map") : \A i \in DOMAIN x : x[i][1].tag = "Symbol"}} :
       /\ vs # <<>>
       /\ \E p \in Indexes : checked_range(p, Len(vs), MemSize)
       /\ Dispatched(objects, vs)

\* Functions that leave the objects alone: bytes written to the memory, a key
\* looked for in a map.
Query ==
  /\ Enters
  /\ \/ \E d \in Data("Bytes") : \E i, p, n \in Indexes :
          memobj_copy_to_linear_memory(d, i, p, n) # {}
     \/ \E m \in Data("Map"), k \in Args : map_has(objects, m, k) # {}
  /\ Dispatched(objects, <<Void>>)

\* deserialize_from_bytes, and every other way a stored value is loaded: the
\* encoding is that of a value the guest had or of one it made up.
Load ==
  /\ Enters
  /\ \E s \in Foreign \cup UNION {ScBody(objects, v) : v \in {x \in Args : x.obj}} :
       \E r \in to_host_val(objects, s) : Dispatched(r.objs, <<r.val>>)

\* `call': the arguments enter the callee's new table; the caller's fuel was
\* returned at the dispatch and stays clean until the callee has ended.
Call ==
  /\ Enters /\ Len(frames) < MaxFrames
  /\ \E vs \in Data("Vec") :
       LET rel == AllRelative(<<>>, vs)
           b == charge(return_fuel_to_host(budget, Top), CallCost, Len(rel))
           callee == [rel |-> rel, used |-> 0, fuel |-> 0,
                      sees |-> UNION {Reach(objects, vs[i]) : i \in DOMAIN vs}]
       IN /\ check_budget_limit(b)
          /\ budget' = b
          /\ work' = work + CallCost
          /\ frames' = Append([frames EXCEPT ![Len(frames)] = Clean(@)],
                              add_fuel_to_vm(b, callee))
          /\ UNCHANGED objects

\* The frames that stay resume with what is left of the budget.
Resume(b, fs) ==
  IF fs = <<>> THEN fs ELSE [fs EXCEPT ![Len(fs)] = add_fuel_to_vm(b, @)]

\* The guest returns: its value is looked up in its own table, and enters
\* the caller's once the frame is gone.
Return ==
  /\ Running
  /\ \E v \in Args :
       LET fs == Front(frames)
           b0 == return_fuel_to_host(budget, Top)
           rel == IF fs = <<>> THEN <<>> ELSE absolute_to_relative(Last(fs).rel, v)
           b == IF fs = <<>> THEN b0 ELSE charge(b0, 0, Len(rel) - Len(Last(fs).rel))
       IN /\ check_budget_limit(b)
          /\ budget' = b
          /\ frames' = Resume(b, IF fs = <<>> THEN fs ELSE
                 [fs EXCEPT ![Len(fs)].rel = rel,
                            ![Len(fs)].sees = @ \cup Reach(objects, v)])
  /\ UNCHANGED <<objects, work>>

\* The guest traps, or a host function refuses its arguments, which traps
\* too; the frames above the caller that used try_call are gone.
Trap ==
  /\ Running
  /\ \E n \in 0..(Len(frames) - 1), c \in {0, CallCost} :
       LET b == charge(return_fuel_to_host(budget, Top), c, 0)
       IN /\ check_budget_limit(b)
          /\ budget' = b
          /\ work' = work + c
          /\ frames' = Resume(b, SubSeq(frames, 1, n))
  /\ UNCHANGED objects

\* The guest needs fuel it does not have, or calls a function for which the
\* budget is too small: no frame recovers from that.
OutOfBudget ==
  /\ Running
  /\ \/ /\ Top.used = Top.fuel
        /\ budget' = return_fuel_to_host(budget, Top)
        /\ UNCHANGED work
     \/ /\ budget' = charge(return_fuel_to_host(budget, Top), CallCost, 0)
        /\ ~check_budget_limit(budget')
        /\ work' = work + CallCost
  /\ frames' = <<>>
  /\ UNCHANGED objects

\* The host has an object of its own, the arguments enter the first table.
Init ==
  /\ \E args \in RootArgs :
       \E r \in ToHostAll(<<HostObject("Bytes", <<>>)>>, args) :
         LET b == [cpu |-> 0, mem |-> Len(r.objs)]
         IN /\ objects = r.objs
            /\ budget = b
            /\ frames = << add_fuel_to_vm(b,
                 [rel |-> AllRelative(<<>>, r.vals), used |-> 0, fuel |-> 0,
                  sees |-> 2..Len(r.objs)]) >>
  /\ work = 0

Next ==
  \/ Exec \/ NumberFn \/ VecMake \/ VecRead \/ MapMake \/ MapRead \/ BytesFn
  \/ MemoryMake \/ MemoryMap \/ MemoryUnpack \/ Query \/ Load
  \/ Call \/ Return \/ Trap \/ OutOfBudget

ObjectsSpec == Init /\ [][Next]_vars

----------------------------------------------------------------------------
(* Properties *)

Parts(o) ==
  IF o.tag = "Vec" THEN ToSet(o.data)
  ELSE IF o.tag = "Map" THEN ToSet(Flat(o.data)) ELSE {}

\* A guest reaches only the objects it made, was passed, got back from a call
\* or found inside such an object: through no sequence of calls, forged
\* handles included, does it get hold of another contract's or the host's.
Isolation ==
  \A i \in DOMAIN frames : LET f == frames[i] IN
    /\ \A j \in DOMAIN f.rel : handle_to_index(f.rel[j].n) \in f.sees
    /\ \A k \in f.sees : \A v \in Parts(objects[k]) :
         v.obj => handle_to_index(v.n) \in f.sees

\* The values among which orders are compared.
AllVals == Smalls \cup {Ref(objects, i) : i \in DOMAIN objects}

\* The order and the equality that contracts and maps see depend only on the
\* value: comparing in the host, where a number or a symbol may be small or
\* an object, agrees with comparing the ledger's form of the same values.
OrderIsOfValues ==
  \A a, b \in AllVals :
    LET h == Compare(objects, a, b, DepthLimit)
        s == CompareScVal(from_host_val(objects, a), from_host_val(objects, b), DepthLimit)
    IN h # Deep /\ s # Deep => h = s

\* What the ledger accepts: keys of a map in its order and none twice, a
\* symbol made of its characters.
WellFormed(o) ==
  /\ o.tag = "Map" => \A i, j \in DOMAIN o.data : i < j =>
       CompareScVal(from_host_val(objects, o.data[i][1]),
                    from_host_val(objects, o.data[j][1]), DepthLimit) \in {-1, Deep}
  /\ o.tag = "Symbol" => Len(o.data) <= SymbolLimit /\ ToSet(o.data) \subseteq SymbolChars

\* No sequence of host functions builds a value the ledger would refuse or
\* change: every object is well formed and refers to earlier objects under
\* their own tags, and a value with an encoding can be loaded again and is
\* then equal to what it was.
LoadsBack ==
  \A i \in DOMAIN objects :
    /\ WellFormed(objects[i])
    /\ \A v \in Parts(objects[i]) :
         v.obj => handle_to_index(v.n) < i /\ objects[handle_to_index(v.n)].tag = v.tag
    /\ \A s \in ScBody(objects, Ref(objects, i)) :
         \E r \in to_host_val(objects, s) :
           Compare(r.objs, r.val, Ref(objects, i), DepthLimit) \in {0, Deep}

\* Every instruction and every call is paid for exactly once, however the
\* calls nest and whichever frames trap: what is charged and what the running
\* guest has used add up to the work done, and only it holds fuel, no more
\* than the budget has left.
FuelIsCharged ==
  /\ ~Running => budget.cpu = work
  /\ Running => /\ budget.cpu + Top.used * CpuPerFuel = work
                /\ budget.cpu + Top.fuel * CpuPerFuel <= CpuLimit
  /\ \A i \in 1..(Len(frames) - 1) : frames[i].used = 0 /\ frames[i].fuel = 0
=============================================================================
