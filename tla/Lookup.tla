------------------------------- MODULE Lookup -------------------------------
(***************************************************************************)
(* Variable lookup in first-class environments, and the caches that        *)
(* compiled code keeps of it: microcode/lookup.c and lookprm.c.            *)
(*                                                                         *)
(* A variable has a value cell: in the symbol (global), in the argument    *)
(* part of a procedure's frame, or in the frame's extension.  Compiled     *)
(* code does not search for the cell.  When a block is linked, each of its *)
(* reference sites is given the variable's cache (or a clone of it, or a   *)
(* UUO link to the procedure that is its value), and the cell is made to   *)
(* trap to the same cache.  Every later definition, assignment, linking    *)
(* and unbinding must keep the sites in step with what a search from the   *)
(* block's environment would find.                                         *)
(*                                                                         *)
(* The heap is one record, because each primitive is a sequence of updates *)
(* of it; an operator named after a C procedure maps a heap to a heap.     *)
(* GC_CHECK fails before anything is changed, so an interrupted primitive  *)
(* is a step that does nothing; the one exception is LinkInterrupted.      *)
(***************************************************************************)
EXTENDS Naturals, Sequences, FiniteSets, TLC

CONSTANTS
  Frames,       \* procedure frames (environments that are not global)
  Parent,       \* frame -> the environment of its procedure
  Params,       \* frame -> the parameters of its lambda
  Symbols,
  Values,       \* ordinary objects
  Unassigned, Unbound, Macro,   \* the reference traps of a value cell
  Global, NullEnv,              \* THE_GLOBAL_ENV and packag.scm's null-environment
  Blocks,       \* compiled code blocks
  BlockEnv,     \* cc_block_environment
  Sites,        \* reference sites: [block, name, kind]
  MaxCaches,    \* bound: cache objects alive at one time
  NoCell,
  Workloads     \* what the program does, [sites, assign, define, unbind, link]: the
                \* sites of the blocks it links; the values that it assigns; the
                \* <<environment, symbol>> that it defines or assigns, and that it
                \* unbinds; the <<target env, symbol, source env, symbol>> that it links

Env == Frames \cup {Global, NullEnv}
Kinds == {"lookup", "assignment", "operator"}
SiteKinds == Kinds \cup {"global_operator"}
Traps == {Unassigned, Unbound, Macro}
Caches == 1..MaxCaches
\* The local variable dummy_cell of add_cache_reference.
Dummy == <<NoCell>>
Cells == {<<Global, s>> : s \in Symbols}
           \cup (Frames \X Symbols \X {"arg", "ext"}) \cup {Dummy}

\* A frame and those around it, up to the global or the null environment: the least set
\* that has the frame and with a frame its parent.
Enclosing ==
  [e \in Env |-> {x \in Env : \A S \in SUBSET Env :
                    e \in S /\ (\A y \in S \cap Frames : Parent[y] \in S) => x \in S}]

ASSUME EnvAssumption ==
  /\ Global \notin Frames /\ NullEnv \notin Frames /\ Global # NullEnv
  /\ Parent \in [Frames -> Env]
  /\ \A e \in Env : Enclosing[e] \cap {Global, NullEnv} # {}
  /\ Params \in [Frames -> SUBSET Symbols]
  /\ BlockEnv \in [Blocks -> Env]
  /\ Sites \subseteq [block : Blocks, name : Symbols, kind : SiteKinds]
  /\ MaxCaches \in Nat
  /\ Unassigned # Unbound /\ Unassigned # Macro /\ Unbound # Macro
  /\ Values \cap Traps = {} /\ (Values \cup Traps) \cap Caches = {}
  /\ NoCell \notin Values \cup Traps \cup Cells \cup Caches
  /\ \A w \in Workloads :
       /\ w.sites \subseteq Sites
       /\ w.assign \subseteq Values \cup {Unassigned, Macro}
       /\ w.define \cup w.unbind \subseteq (Frames \cup {Global}) \X Symbols
       /\ w.link \subseteq (Frames \cup {Global}) \X Symbols
                            \X (Frames \cup {Global}) \X Symbols

VARIABLES
  load,   \* the workload, chosen at the start
  heap,   \* [cell, ext, trap, val, clone, refs, slot, strong], see TypeOK
  hung    \* the variable, if any, whose references a primitive moves for ever

vars == <<load, heap, hung>>

-----------------------------------------------------------------------------
(* Environment structure. *)

\* An extension binding comes before an argument of the same name; an
\* argument that was unbound is skipped unless the caller defines.
scan_frame(h, e, sym, find_unbound_p) ==
  CASE e = Global  -> <<Global, sym>>
    [] e = NullEnv -> NoCell
    [] OTHER ->
         IF sym \in h.ext[e] THEN <<e, sym, "ext">>
         ELSE IF sym \in Params[e]
                 /\ (find_unbound_p \/ h.cell[<<e, sym, "arg">>] # Unbound)
              THEN <<e, sym, "arg">>
              ELSE NoCell

\* Where find_binding_cell stops: at the first frame with a cell, or the last of all.
BindingFrame(h, e, sym) ==
  LET stops == {f \in Enclosing[e] : f \notin Frames \/ scan_frame(h, f, sym, FALSE) # NoCell}
  IN  CHOOSE f \in stops : stops \subseteq Enclosing[f]

find_binding_cell(h, e, sym) == scan_frame(h, BindingFrame(h, e, sym), sym, FALSE)

Cached(h, cell) == h.cell[cell] \in Caches          \* TRAP_COMPILER_CACHED
cache_of(h, cell) == h.trap[h.cell[cell]]           \* GET_TRAP_CACHE

-----------------------------------------------------------------------------
(* Lookup.  A result is <<code, value>>. *)

lookup_value(v) ==
  CASE v = Unassigned -> <<"ERR_UNASSIGNED_VARIABLE", NoCell>>
    [] v = Unbound    -> <<"ERR_UNBOUND_VARIABLE", NoCell>>
    [] v = Macro      -> <<"ERR_MACRO_BINDING", Macro>>
    [] OTHER          -> <<"PRIM_DONE", v>>

lookup_variable_cache(h, c) == lookup_value(h.val[c])

lookup_variable(h, e, sym) ==
  LET cell == find_binding_cell(h, e, sym)
  IN  IF cell = NoCell THEN lookup_value(Unbound)
      ELSE IF Cached(h, cell) THEN lookup_variable_cache(h, cache_of(h, cell))
      ELSE lookup_value(h.cell[cell])

\* The same result for (lookup with unassigned allowed) and (unassigned? var).
safe_lookup(r) == IF r[1] = "ERR_UNASSIGNED_VARIABLE" THEN <<"PRIM_DONE", Unassigned>> ELSE r
unassigned_p(r) == CASE r[1] = "ERR_UNASSIGNED_VARIABLE" -> <<"PRIM_DONE", TRUE>>
                     [] r[1] = "PRIM_DONE" -> <<"PRIM_DONE", FALSE>>
                     [] OTHER -> r
variable_unbound_p(h, e, sym) == lookup_variable(h, e, sym)[1] = "ERR_UNBOUND_VARIABLE"

\* What compiled code gets from a site: the cache's value, or for a call the
\* procedure of the UUO link, or what the link's trampoline looks up.
compiled_value(h, s) ==
  IF h.slot[s].to = "proc" THEN <<"PRIM_DONE", h.slot[s].id>>
  ELSE lookup_variable_cache(h, h.slot[s].id)

-----------------------------------------------------------------------------
(* Reference lists: an alist from the name used to the sites that use it.  *)
(* The references to a block that was collected are not listed, and leave  *)
(* their entry behind, possibly empty.                                     *)

EntriesNamed(alist, sym) == {i \in DOMAIN alist : alist[i].name = sym}
FirstNamed(alist, sym) ==
  CHOOSE i \in EntriesNamed(alist, sym) : \A j \in EntriesNamed(alist, sym) : i <= j

find_references_named(alist, sym) ==
  IF EntriesNamed(alist, sym) = {} THEN {} ELSE alist[FirstNamed(alist, sym)].refs

\* WALK_REFERENCES drops the entries that it finds empty.
walked(alist) ==
  LET kept[i \in 0 .. Len(alist)] ==
        IF i = 0 THEN <<>>
        ELSE IF alist[i].refs = {} THEN kept[i - 1] ELSE Append(kept[i - 1], alist[i])
  IN  kept[Len(alist)]
SitesIn(alist) == UNION {alist[i].refs : i \in DOMAIN alist}

add_references(alist, sym, refs) ==
  IF EntriesNamed(alist, sym) = {} THEN <<[name |-> sym, refs |-> refs]>> \o alist
  ELSE [alist EXCEPT ![FirstNamed(alist, sym)].refs = @ \cup refs]

delete_references(alist, sym, refs) ==
  IF EntriesNamed(alist, sym) = {} THEN alist
  ELSE [alist EXCEPT ![FirstNamed(alist, sym)].refs = @ \ refs]

\* move_ref_pair_p: the block's environment is env or inside it.
move_ref_pair_p(s, env) == env \in Enclosing[BlockEnv[s.block]]

ref_pairs_to_move(alist, env, sym) ==
  {s \in find_references_named(alist, sym) : move_ref_pair_p(s, env)}

-----------------------------------------------------------------------------
(* Caches, clones and UUO links. *)

Fresh(h) == CHOOSE c \in Caches : h.val[c] = NoCell

\* Mutant: a cell that has a cache is given a second one.
guarantee_cache_again(h, cell) ==
  LET c == Fresh(h)
  IN  [h EXCEPT !.cell[cell] = c, !.trap[c] = c, !.val[c] = h.cell[cell],
                !.clone[c] = FALSE, !.refs[c] = [k \in Kinds |-> <<>>]]

guarantee_cache(h, cell) ==
  IF Cached(h, cell) THEN h
  ELSE LET c == Fresh(h)
       IN  [h EXCEPT !.cell[cell] = c, !.trap[c] = c, !.val[c] = h.cell[cell],
                     !.clone[c] = FALSE, !.refs[c] = [k \in Kinds |-> <<>>]]

\* The value itself is bound into a UUO link, directly or in a trampoline,
\* unless it is a trap: then the trampoline looks the cache up at every call.  (A
\* compiled entry that is no procedure, as the expression that a compiled file loads to,
\* ends Scheme here: ERR_COMPILED_CODE_ERROR under DIE_IF_ERROR.  Values has none.)
make_uuo_link(h, c) ==
  IF h.val[c] \in Traps THEN [to |-> "fake", id |-> c] ELSE [to |-> "proc", id |-> h.val[c]]

\* What install_cache stores in a site.
install_cache(h, c, kind) ==
  CASE kind = "lookup"     -> [to |-> "cache", id |-> c]
    [] kind = "assignment" -> [to |-> IF h.clone[c] THEN "clone" ELSE "cache", id |-> c]
    [] kind = "operator"   -> make_uuo_link(h, c)

InstallAll(h, c, kind, sites) ==
  [h EXCEPT !.slot = [s \in Sites |-> IF s \in sites THEN install_cache(h, c, kind)
                                      ELSE @[s]]]

\* InstallAll over the whole list of one kind, with the walk's side effect.
reinstall(h, c, kind) ==
  [InstallAll(h, c, kind, SitesIn(h.refs[c][kind]))
     EXCEPT !.refs[c][kind] = walked(@)]

NeedsClone(h, c) == h.refs[c]["assignment"] # <<>> /\ h.refs[c]["operator"] # <<>>

update_clone(h, c) ==
  IF h.clone[c] = NeedsClone(h, c) THEN h
  ELSE reinstall([h EXCEPT !.clone[c] = NeedsClone(h, c)], c, "assignment")

\* Counting the references for the space check walks the list first.
update_uuo_links(h, c, v) ==
  reinstall(update_clone([h EXCEPT !.val[c] = v, !.refs[c]["operator"] = walked(@)], c),
            c, "operator")

\* Mutant: the clone is not brought up to date.
add_cache_reference_no_clone(h, s) ==
  LET kind == IF s.kind = "global_operator" THEN "operator" ELSE s.kind
      found == find_binding_cell(h, IF s.kind = "global_operator" THEN Global
                                    ELSE BlockEnv[s.block], s.name)
      cell == IF found = NoCell THEN Dummy ELSE found
      h1 == guarantee_cache(h, cell)
      c == cache_of(h1, cell)
  IN  InstallAll([h1 EXCEPT !.refs[c][kind] = add_references(@, s.name, {s})], c, kind, {s})

add_cache_reference(h, s) ==
  LET env == IF s.kind = "global_operator" THEN Global ELSE BlockEnv[s.block]
      kind == IF s.kind = "global_operator" THEN "operator" ELSE s.kind
      found == find_binding_cell(h, env, s.name)
      cell == IF found = NoCell THEN Dummy ELSE found
      h1 == guarantee_cache(h, cell)
      c == cache_of(h1, cell)
      h2 == update_clone([h1 EXCEPT !.refs[c][kind] = add_references(@, s.name, {s}),
                                    !.strong = IF cell = <<Global, s.name>>
                                               THEN @ \cup {s.name} ELSE @], c)
  IN  InstallAll(h2, c, kind, {s})

-----------------------------------------------------------------------------
(* Moving references between caches. *)

\* Mutant: the pair that is moved is not taken off the list that is walked.
LoopsOnMoved(h, from, to, env, sym, movedFirst) ==
  \E k \in Kinds : ref_pairs_to_move(h.refs[from][k], env, sym) # {}

\* Both lists are the same list, and its first pair is to be moved: it is put back in
\* front and found again for ever.  (If the first pair stays, the others are moved in
\* front of it and the walk ends.)  The order of a list is not kept: movedFirst says
\* which pair is first of those to be moved and those that stay.
Loops(h, from, to, env, sym, movedFirst) ==
  /\ from = to
  /\ \E k \in Kinds :
       LET moving == ref_pairs_to_move(h.refs[from][k], env, sym)
       IN  /\ moving # {}
           /\ movedFirst \/ moving = find_references_named(h.refs[from][k], sym)

\* Mutant: the references stay in the list they are moved from.
copy_ref_pairs(h, from, to, kind, env, sym) ==
  LET moved == ref_pairs_to_move(h.refs[from][kind], env, sym)
  IN  InstallAll([h EXCEPT !.refs[to][kind] = add_references(@, sym, moved)], to, kind, moved)

move_ref_pairs(h, from, to, kind, env, sym) ==
  LET moved == ref_pairs_to_move(h.refs[from][kind], env, sym)
  IN  IF moved = {} THEN h
      ELSE InstallAll([h EXCEPT !.refs[from][kind] = delete_references(@, sym, moved),
                                !.refs[to][kind] = add_references(@, sym, moved)],
                      to, kind, moved)

delete_ref_pairs(h, from, kind, env, sym) ==
  [h EXCEPT !.refs[from][kind] =
              delete_references(@, sym, ref_pairs_to_move(@, env, sym))]

\* Mutant: assignment references are forgotten.
update_cache_references_read(h, from, to_cell, env, sym) ==
  IF to_cell = NoCell THEN h
  ELSE LET h0 == guarantee_cache(h, to_cell)
           to == cache_of(h0, to_cell)
           h1 == move_ref_pairs(h0, from, to, "lookup", env, sym)
       IN  update_clone(update_clone(move_ref_pairs(h1, from, to, "operator", env, sym), to), from)

update_cache_references(h, from, to_cell, env, sym) ==
  IF to_cell = NoCell
  THEN LET d1 == delete_ref_pairs(h, from, "lookup", env, sym)
           d2 == delete_ref_pairs(d1, from, "assignment", env, sym)
       IN  update_clone(delete_ref_pairs(d2, from, "operator", env, sym), from)
  ELSE LET h0 == guarantee_cache(h, to_cell)
           to == cache_of(h0, to_cell)
           h1 == move_ref_pairs(h0, from, to, "lookup", env, sym)
           h2 == move_ref_pairs(h1, from, to, "assignment", env, sym)
           h3 == move_ref_pairs(h2, from, to, "operator", env, sym)
       IN  update_clone(update_clone(h3, to), from)

\* The moves of update_cache_references, or the loop in them.
MoveHangs(h, from, to_cell, env, sym, movedFirst) ==
  /\ to_cell # NoCell
  /\ Cached(h, to_cell)
  /\ Loops(h, from, cache_of(h, to_cell), env, sym, movedFirst)

\* The list of one cache is put at the end of the other's.
Spliced(h, from, to, kind) ==
  [h EXCEPT !.refs[to][kind] = @ \o walked(h.refs[from][kind]), !.refs[from][kind] = <<>>]

\* Mutant: the references change lists, and the sites are not written again.
move_all_references_unwritten(h, from, to, kind) == Spliced(h, from, to, kind)

move_all_references(h, from, to, kind) ==
  Spliced(InstallAll(h, to, kind, SitesIn(h.refs[from][kind])), from, to, kind)

-----------------------------------------------------------------------------
(* Assignment and definition. *)

\* force: the caller defines, and may assign to an unbound or macro binding.
Writable(v, force) == force \/ v \notin {Unbound, Macro}

\* Mutant: the UUO links are not updated.
assign_variable_cache_only(h, c, v, force) ==
  IF ~Writable(h.val[c], force) THEN h ELSE [h EXCEPT !.val[c] = v]

assign_variable_cache(h, c, v, force) ==
  IF ~Writable(h.val[c], force) THEN h
  ELSE IF h.refs[c]["operator"] # <<>> THEN update_uuo_links(h, c, v)
  ELSE [h EXCEPT !.val[c] = v]

assign_variable_end(h, cell, v, force) ==
  IF Cached(h, cell) THEN assign_variable_cache(h, cache_of(h, cell), v, force)
  ELSE IF Writable(h.cell[cell], force) THEN [h EXCEPT !.cell[cell] = v]
  ELSE h

assign_variable(h, e, sym, v) ==
  LET cell == find_binding_cell(h, e, sym)
  IN  IF cell = NoCell THEN h ELSE assign_variable_end(h, cell, v, FALSE)

\* Mutant: the symbol of a new global binding stays weak.
NotStrengthened(h, e, sym) == h

Strengthened(h, e, sym) == IF e = Global THEN [h EXCEPT !.strong = @ \cup {sym}] ELSE h

\* The heap with the new binding, and the cache whose references may have to
\* move to it because the binding shadows another one.
NewBinding(h, e, sym, v) ==
  [h EXCEPT !.ext[e] = @ \cup {sym}, !.cell[<<e, sym, "ext">>] = v]
Shadowed(h, e, sym) == find_binding_cell(h, Parent[e], sym)

DefineHangs(h, e, sym, v, movedFirst) ==
  LET shadowed == Shadowed(h, e, sym)
  IN  /\ scan_frame(h, e, sym, TRUE) = NoCell
      /\ shadowed # NoCell /\ Cached(h, shadowed)
      /\ MoveHangs(NewBinding(h, e, sym, v), cache_of(h, shadowed),
                   <<e, sym, "ext">>, e, sym, movedFirst)

\* Mutant: the references to the binding that is shadowed are left there.
define_variable_no_recache(h, e, sym, v) ==
  LET cell == scan_frame(h, e, sym, TRUE)
  IN  IF cell # NoCell THEN assign_variable_end(Strengthened(h, e, sym), cell, v, TRUE)
      ELSE NewBinding(h, e, sym, v)

define_variable(h, e, sym, v) ==
  LET cell == scan_frame(h, e, sym, TRUE)
      shadowed == Shadowed(h, e, sym)
  IN  IF cell # NoCell THEN assign_variable_end(Strengthened(h, e, sym), cell, v, TRUE)
      ELSE IF shadowed = NoCell \/ ~Cached(h, shadowed) THEN NewBinding(h, e, sym, v)
      ELSE update_cache_references(NewBinding(h, e, sym, v), cache_of(h, shadowed),
                                   <<e, sym, "ext">>, e, sym)

-----------------------------------------------------------------------------
(* Linking. *)

CanLink(h, te, ts, se, ss) ==
  LET source == find_binding_cell(h, se, ss)
  IN  /\ source # NoCell
      /\ h.cell[source] # Unbound
      /\ scan_frame(h, te, ts, TRUE) # source

\* The target already has a cache: it takes over the source's references and
\* value, and the source's trap, wherever it is stored, leads to it.
ToTargetCache(h, target, source) ==
  LET tc == cache_of(h, target)
      sc == cache_of(h, source)
      m0 == [h EXCEPT !.val[tc] = h.val[sc], !.refs[tc]["operator"] = walked(@)]
      m1 == move_all_references(m0, sc, tc, "lookup")
      m2 == move_all_references(m1, sc, tc, "assignment")
      m3 == move_all_references(m2, sc, tc, "operator")
      m4 == update_clone(update_clone(m3, sc), tc)
  IN  IF ~Cached(h, source) THEN [h EXCEPT !.val[tc] = h.cell[source],
                                           !.cell[source] = h.cell[target]]
      ELSE IF tc = sc THEN h
      ELSE [m4 EXCEPT !.trap[h.cell[source]] = tc, !.cell[source] = h.cell[target]]

LinkIntoCache(h, te, ts) ==
  LET target == scan_frame(h, te, ts, TRUE) IN target # NoCell /\ Cached(h, target)

link_variables(h, te, ts, se, ss) ==
  LET source == find_binding_cell(h, se, ss)
      target == scan_frame(h, te, ts, TRUE)
      h1 == guarantee_cache(h, source)
  IN  IF LinkIntoCache(h, te, ts) THEN ToTargetCache(Strengthened(h, te, ts), target, source)
      ELSE define_variable(h1, te, ts, h1.cell[source])

LinkHangs(h, te, ts, se, ss, movedFirst) ==
  LET source == find_binding_cell(h, se, ss)
      h1 == guarantee_cache(h, source)
  IN  ~LinkIntoCache(h, te, ts) /\ DefineHangs(h1, te, ts, h1.cell[source], movedFirst)

-----------------------------------------------------------------------------
(* Unbinding. *)

unbind_variable_1(h, cell) ==
  IF Len(cell) = 3 /\ cell[3] = "ext"
  THEN [h EXCEPT !.ext[cell[1]] = @ \ {cell[2]}, !.cell[cell] = Unbound]
  ELSE [h EXCEPT !.cell[cell] = Unbound]

unbind_cached_variable(h, cell, frame, sym) ==
  update_cache_references(unbind_variable_1(h, cell), cache_of(h, cell),
                          find_binding_cell(h, Parent[frame], sym), frame, sym)

UnbindHangs(h, e, sym, movedFirst) ==
  LET frame == BindingFrame(h, e, sym)
      cell == find_binding_cell(h, e, sym)
  IN  /\ frame \in Frames /\ Cached(h, cell)
      /\ h.val[cache_of(h, cell)] # Unbound
      /\ MoveHangs(h, cache_of(h, cell), find_binding_cell(h, Parent[frame], sym), frame, sym,
                   movedFirst)

unbind_variable(h, e, sym) ==
  LET frame == BindingFrame(h, e, sym)
      cell == find_binding_cell(h, e, sym)
      h1 == IF frame = Global THEN [h EXCEPT !.strong = @ \ {sym}] ELSE h
  IN  IF cell = NoCell THEN h1
      ELSE IF ~Cached(h, cell)
           THEN IF h.cell[cell] = Unbound THEN h1 ELSE unbind_variable_1(h1, cell)
      ELSE IF h.val[cache_of(h, cell)] = Unbound THEN h1
      ELSE IF frame \in Frames THEN unbind_cached_variable(h1, cell, frame, sym)
      ELSE [h1 EXCEPT !.val[cache_of(h, cell)] = Unbound]

-----------------------------------------------------------------------------
(* The garbage collector, as far as it is seen here: a cache that no cell  *)
(* and no site reaches can be allocated again, and a block that dies takes *)
(* its references with it (they hold it weakly).                           *)

Reclaimed(h) ==
  LET h1 == [h EXCEPT !.cell[Dummy] = Unbound]
      usedTraps == {h1.cell[x] : x \in Cells} \cap Caches
      usedCaches == {h1.trap[t] : t \in usedTraps}
                      \cup {h1.slot[s].id : s \in {r \in Sites : h1.slot[r].to # "proc"}}
  IN  [h1 EXCEPT !.trap  = [t \in Caches |-> IF t \in usedTraps THEN @[t] ELSE t],
                 !.val   = [c \in Caches |-> IF c \in usedCaches THEN @[c]
                                             ELSE IF c \in usedTraps THEN Unbound ELSE NoCell],
                 !.clone = [c \in Caches |-> c \in usedCaches /\ @[c]],
                 !.refs  = [c \in Caches |-> IF c \in usedCaches THEN @[c]
                                             ELSE [k \in Kinds |-> <<>>]]]

WithoutBlock(h, b) ==
  LET dead == {s \in Sites : s.block = b}
      Without(alist) == [i \in DOMAIN alist |-> [alist[i] EXCEPT !.refs = @ \ dead]]
  IN  [h EXCEPT !.slot = [s \in Sites |-> IF s \in dead THEN [to |-> "none", id |-> NoCell] ELSE @[s]],
                !.refs = [c \in Caches |-> [k \in Kinds |-> Without(@[c][k])]]]

-----------------------------------------------------------------------------
NoHeap ==
  [cell   |-> [x \in Cells |-> IF Len(x) = 3 /\ x[3] = "arg" /\ x[2] \in Params[x[1]]
                               THEN Unassigned ELSE Unbound],
   ext    |-> [f \in Frames |-> {}],
   trap   |-> [c \in Caches |-> c],
   val    |-> [c \in Caches |-> NoCell],
   clone  |-> [c \in Caches |-> FALSE],
   refs   |-> [c \in Caches |-> [k \in Kinds |-> <<>>]],
   slot   |-> [s \in Sites |-> [to |-> "none", id |-> NoCell]],
   strong |-> {}]

Init == load \in Workloads /\ heap = NoHeap /\ hung = {}

Room == Cardinality({c \in Caches : heap.val[c] = NoCell}) >= 2
Step(h) == hung = {} /\ Room /\ heap' = Reclaimed(h) /\ UNCHANGED <<load, hung>>
Hang(e, sym) == hung = {} /\ Room /\ hung' = {<<e, sym>>} /\ UNCHANGED <<load, heap>>

Assign == \E d \in load.define, v \in load.assign :
            Step(assign_variable(heap, d[1], d[2], v))

Define == \E d \in load.define, v \in load.assign :
            Step(define_variable(heap, d[1], d[2], v))

Link == \E l \in load.link :
          /\ CanLink(heap, l[1], l[2], l[3], l[4])
          /\ ~LinkHangs(heap, l[1], l[2], l[3], l[4], FALSE)
          /\ Step(link_variables(heap, l[1], l[2], l[3], l[4]))

LinkLoops == \E l \in load.link :
               /\ CanLink(heap, l[1], l[2], l[3], l[4])
               /\ LinkHangs(heap, l[1], l[2], l[3], l[4], TRUE)
               /\ Hang(l[1], l[2])

\* define_variable asks for a garbage collection after the target's symbol was made
\* strong and guarantee_cache has given the source a cache; the primitive is restarted
\* from the beginning.
LinkInterrupted == \E l \in load.link :
                     /\ CanLink(heap, l[1], l[2], l[3], l[4])
                     /\ ~LinkIntoCache(heap, l[1], l[2])
                     /\ Step(guarantee_cache(Strengthened(heap, l[1], l[2]),
                                             find_binding_cell(heap, l[3], l[4])))

Unbind == \E u \in load.unbind :
            /\ ~UnbindHangs(heap, u[1], u[2], FALSE)
            /\ Step(unbind_variable(heap, u[1], u[2]))

UnbindLoops == \E u \in load.unbind :
                 UnbindHangs(heap, u[1], u[2], TRUE) /\ Hang(BindingFrame(heap, u[1], u[2]), u[2])

LinkBlock == \E s \in load.sites :
               heap.slot[s].to = "none" /\ Step(add_cache_reference(heap, s))

\* Compiled code stores in the cache it holds; if that holds a trap, a clone's
\* EXPENSIVE_OBJECT included, compiler_assignment_trap does the assignment.
CompiledAssign == \E s \in load.sites, v \in load.assign :
  LET c == heap.slot[s].id
  IN  /\ s.kind = "assignment" /\ heap.slot[s].to \in {"cache", "clone"}
      /\ IF heap.slot[s].to = "cache" /\ heap.val[c] \notin Traps
         THEN Step([heap EXCEPT !.val[c] = v])
         ELSE Step(assign_variable_cache(heap, c, v, FALSE))

\* The collector finds a block dead: no code runs in it any more.
BlockDies == \E b \in {s.block : s \in load.sites} : Step(WithoutBlock(heap, b))

Next == Assign \/ Define \/ Link \/ LinkLoops \/ LinkInterrupted \/ Unbind
          \/ UnbindLoops \/ LinkBlock \/ CompiledAssign \/ BlockDies

Spec == Init /\ [][Next]_vars

-----------------------------------------------------------------------------
(* Properties. *)

\* The heap is well formed: a cell holds a value or leads to a cache, a cache
\* holds a value and never leads to another cache, and a site holds a cache, a
\* clone, a link to a procedure or a link that looks a cache up.
TypeOK ==
  /\ heap.cell \in [Cells -> Values \cup Traps \cup Caches]
  /\ heap.ext \in [Frames -> SUBSET Symbols]
  /\ heap.trap \in [Caches -> Caches]
  /\ heap.val \in [Caches -> Values \cup Traps \cup {NoCell}]
  /\ heap.clone \in [Caches -> BOOLEAN]
  /\ heap.slot \in [Sites -> [to : {"none"}, id : {NoCell}]
                              \cup [to : {"cache", "clone", "fake"}, id : Caches]
                              \cup [to : {"proc"}, id : Values]]
  /\ heap.strong \subseteq Symbols
  /\ hung \subseteq Env \X Symbols

LinkedSites == {s \in Sites : heap.slot[s].to # "none"}
SiteEnv(s) == IF s.kind = "global_operator" THEN Global ELSE BlockEnv[s.block]
SiteCell(s) == find_binding_cell(heap, SiteEnv(s), s.name)

\* A variable reference in compiled code, also a safe one and unassigned?, sees
\* what a search from the block's environment would find (lookup_variable),
\* whatever was defined, assigned, linked or unbound since the block was linked.
LookupsAgree ==
  \A s \in LinkedSites : s.kind = "lookup" =>
     LET cached == compiled_value(heap, s)
         searched == lookup_variable(heap, SiteEnv(s), s.name)
     IN  /\ cached = searched
         /\ safe_lookup(cached) = safe_lookup(searched)
         /\ unassigned_p(cached) = unassigned_p(searched)

\* Two variables, <<environment, symbol>>, that links can have made one: the second is in
\* every set that has the first and with one end of a link the other.  The source of a
\* link is where the search for it ends.
Joined(links, u, v) ==
  \A S \in SUBSET (Env \X Symbols) :
     /\ u \in S
     /\ \A l \in links, e \in Env : e \in Enclosing[l[3]] =>
          (<<l[1], l[2]>> \in S <=> <<e, l[4]>> \in S)
     => v \in S

\* The procedure that a call through a UUO link reaches is the variable's value.
Follows(h, s) == compiled_value(h, s) = lookup_variable(h, SiteEnv(s), s.name)
Operators == {s \in Sites : s.kind \in {"operator", "global_operator"}}

\* No UUO link is left to a procedure that was the variable's value, but when the program
\* has unbound the global variable, or may have linked the variable to another one.
OperatorsAgree ==
  \A s \in LinkedSites \cap Operators :
     LET variable == <<BindingFrame(heap, SiteEnv(s), s.name), s.name>>
     IN  \/ Follows(heap, s)
         \/ /\ variable_unbound_p(heap, Global, s.name)
            /\ variable[1] = Global /\ \E u \in load.unbind : u[2] = s.name
         \/ \E l \in load.link : Joined(load.link, variable, <<l[1], l[2]>>)

\* What compiled code reads and calls is the value of the variable: caches and clones
\* are never stale, and UUO links only as OperatorsAgree says.
ReferencesAgree == LookupsAgree /\ OperatorsAgree

\* A UUO link that reaches the variable's value goes on doing so, and one that does not
\* is put right when the value changes.  Two steps change the value and leave the links
\* behind: unbinding the variable (lookup.c:699-700), and a link of a target that has a
\* cache, for the operators in the target's list (lookup.c:609-619).
OperatorsFollow ==
  [][\A s \in Operators :
       /\ heap'.slot[s].to # "none"
       /\ \/ heap.slot[s].to = "none"
          \/ Follows(heap, s)
          \/ lookup_variable(heap, SiteEnv(s), s.name) # lookup_variable(heap', SiteEnv(s), s.name)
       => \/ Follows(heap', s)
          \/ variable_unbound_p(heap', SiteEnv(s), s.name)
          \/ \E l \in load.link :
               LET target == scan_frame(heap, l[1], l[2], TRUE)
               IN  /\ LinkIntoCache(heap, l[1], l[2])
                   /\ s \in SitesIn(heap.refs[cache_of(heap, target)]["operator"])
                   /\ heap' = Reclaimed(link_variables(heap, l[1], l[2], l[3], l[4]))]_vars

\* An assignment in compiled code stores into the binding that a search from
\* the block's environment would find, and into no other.
AssignmentsReachBinding ==
  \A s \in LinkedSites : s.kind = "assignment" =>
     IF SiteCell(s) = NoCell THEN heap.val[heap.slot[s].id] = Unbound
     ELSE Cached(heap, SiteCell(s)) /\ cache_of(heap, SiteCell(s)) = heap.slot[s].id

\* The EXPENSIVE_OBJECT protocol: a site that assigns to a cache directly shares
\* it with no linked operator reference, so no UUO link can miss an assignment.
CloneGuardsLinks ==
  \A s \in LinkedSites : s.kind = "assignment" /\ heap.slot[s].to = "cache" =>
     SitesIn(heap.refs[heap.slot[s].id]["operator"]) \cap LinkedSites = {}

\* Every linked site is in the reference lists of the cache of its variable and of
\* no other, so that it follows the variable; and a later definition finds it under
\* the name it uses.  (Two linked variables of one name may have two entries.)
SitesAreRecorded ==
  \A s \in LinkedSites : SiteCell(s) # NoCell =>
     LET kind == IF s.kind = "global_operator" THEN "operator" ELSE s.kind
         cell == SiteCell(s)
     IN  /\ Cached(heap, cell)
         /\ \A c \in Caches : s \in SitesIn(heap.refs[c][kind]) <=> c = cache_of(heap, cell)
         /\ load.link = {} =>
              s \in find_references_named(heap.refs[cache_of(heap, cell)][kind], s.name)

\* The structure that keeps the references in step: a well formed heap in which
\* every site is recorded with its variable and shares no cache it may not.
RecordsInv == TypeOK /\ SitesAreRecorded /\ CloneGuardsLinks

\* A symbol with a global binding is held strongly by the obarray, so that the
\* collector never drops a binding with its symbol.  The one exception: a global variable
\* that links have made one with another is unbound, which makes its symbol weak, and then
\* defined or assigned through the other.
BoundSymbolsHeld ==
  \A sym \in Symbols : ~variable_unbound_p(heap, Global, sym) =>
     \/ sym \in heap.strong
     \/ /\ \E u \in load.unbind : u[2] = sym
        /\ \E v \in (Env \X Symbols) \ {<<Global, sym>>} : Joined(load.link, <<Global, sym>>, v)

\* A variable that links can have made one with the variable of the same name that it
\* inherits.
JoinedToInherited(links, v) ==
  v[1] \in Frames /\ \E e \in Enclosing[Parent[v[1]]] : Joined(links, v, <<e, v[2]>>)

\* A primitive loops for ever over the references to a variable only when links have made
\* it one with the variable that it inherits: then the cache that the references are
\* moved from is the one they are moved to.  No other definition, linking or unbinding
\* makes the walk in move_ref_pairs endless.
OnlyInheritedLinksLoop == \A v \in hung : JoinedToInherited(load.link, v)
=============================================================================
