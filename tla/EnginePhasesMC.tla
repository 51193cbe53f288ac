--------------------------- MODULE EnginePhasesMC ---------------------------
(***************************************************************************)
(* Instances of EnginePhases for TLC: a partitioned parent of two tasks,   *)
(* large enough for estimates, and a small child that refers to it.        *)
(***************************************************************************)
EXTENDS EnginePhases

CONSTANTS p, c, p1, p2, c1

MCOrder == <<p, c>>
MCRefs == {<<c, p>>}
MCPartitioned == {p}
MCTaskOrder == <<p1, c1, p2>>
MCTableOf == (p1 :> p) @@ (p2 :> p) @@ (c1 :> c)
MCBatchRows == (p1 :> 200) @@ (p2 :> 200) @@ (c1 :> 1)

Modes2(x, y) == (p :> x) @@ (c :> y)

Plain == [mode |-> Modes2("recreate", "recreate"), free |-> {}, bare |-> {}, unchecked |-> {}, filtered |-> {},
          split |-> FALSE, hourly |-> FALSE, unlogged |-> FALSE, validate |-> TRUE, renamed |-> FALSE,
          stats |-> (p :> 795) @@ (c :> 0), existing |-> {}]

MCConfigs ==
  { [Plain EXCEPT !.unlogged = TRUE, !.existing = {c}],
    [Plain EXCEPT !.mode = Modes2("truncate", "truncate"), !.existing = {c}, !.free = {p},
                  !.validate = FALSE, !.unlogged = TRUE],
    [Plain EXCEPT !.mode = Modes2("truncate_partition", "append"), !.filtered = {p}, !.free = {p, c}, !.bare = {c}],
    [Plain EXCEPT !.mode = Modes2("append", "truncate_partition"), !.free = {p, c}, !.bare = {p},
                  !.unchecked = {p, c}],
    [Plain EXCEPT !.mode = Modes2("truncate_partition", "truncate"), !.free = {c}, !.unlogged = TRUE],
    [Plain EXCEPT !.mode = Modes2("recreate", "skip"), !.split = TRUE, !.filtered = {p}, !.existing = {c}],
    [Plain EXCEPT !.hourly = TRUE, !.validate = FALSE],
    [Plain EXCEPT !.renamed = TRUE, !.free = {c}, !.stats = (p :> 1000) @@ (c :> 2)],
    [Plain EXCEPT !.mode = Modes2("truncate_partition", "recreate"), !.existing = {p}, !.free = {c},
                  !.stats = (p :> 792) @@ (c :> 0)],
    [Plain EXCEPT !.mode = Modes2("append", "recreate"), !.free = {p}, !.bare = {p}, !.unchecked = {p}],
    [Plain EXCEPT !.mode = Modes2("recreate", "skip"), !.validate = FALSE] }
=============================================================================
