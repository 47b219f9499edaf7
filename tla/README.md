# Verification of raii-unique_rc

TLA+ models of the smart handles of this repository, the TLC runs that check
them on small instances, and TLAPS proofs of the most important properties for
every instance.

1. [The system](#the-system) – components, state, operations, interactions
2. [What is hard](#what-is-hard)
3. [Modules](#modules) – which module models what, and how it corresponds to the code
4. [Runs](#runs) – what each checks, bounds, fairness
5. [Proofs](#proofs)
6. [Disagreements found](#disagreements-found)
7. [What is not modelled](#what-is-not-modelled)
8. [Order of the work](#order-of-the-work), and what is left of it

Paths are relative to `src/unique_rc/include/urc/` unless they start with `src/`.

## The system

`raii::unique_rc<Handle, Deleter, ResolveHandle, Invalid, Policy>` is a
header-only generalisation of `std::unique_ptr`: it stores a *handle* of any
type and a *deleter*, and calls the deleter on the handle it owns. A *policy*
says which handle values are owned and which value marks an empty object.
`unique_ptr` and `unique_coroutine_handle` are built on it, and a number of
deleters, policies and handle types for C, Windows and GDI resources come with
it. There are no threads, files or messages; what makes the code hard is that
objects are moved, converted, assigned and destroyed in any order, that the
deleter is user code which may call back, and that the template's arguments are
chosen by the user.

| component | state | operations |
|---|---|---|
| `unique_rc` (`unique_rc.hpp`, `concepts.hpp`) | `hdt_`, a tuple of handle and deleter | constructors (empty, from a handle, with a deleter, move, converting), `reset`, `release`, move and converting assignment, `swap`, destructor, `operator bool` |
| `unique_rc_holder` (`unique_rc.hpp:103-232`) | the same tuple; four specialisations for deleters that can or cannot be move-constructed and move-assigned | what the operations above are made of |
| invalid-handle policies (`unique_rc.hpp`, `deleter_windows_kernel.hpp`, `coroutine_destroy.hpp`, `deleter_windows_gdi.hpp`) | none | `invalid()`, `is_owned(h)` |
| `unique_ptr` (`unique_ptr.hpp`) | that of `unique_rc`, the handle being a pointer | constraints on conversion, `make_unique`, `= nullptr`, element access |
| `unique_coroutine_handle` (`unique_coroutine_handle.hpp`) | that of `unique_rc`, the handle being a `coroutine_handle` | conversions, `= nullptr`, `address` |
| GDI guards (`deleter_windows_gdi.hpp`) | handles made of two members: a device context with its window, saved state or selected object | those of `unique_rc` |
| deleters (`memory_delete.hpp`, `stdio_fclose.hpp`, `deleter_windows_kernel.hpp`, `deleter_com.hpp`, ...) | none, or what the user gives them | the call |
| comparison, `hash`, `operator<<` | none | `==`, `<=>` with each other and with `nullptr` |
| examples (`src/examples/`) | a generator, its iterators; a log of calls | clients of the library |
| tests (`src/test/`) | – | read as statements of what is expected |

The components interact by calls within one thread. The objects of the library
call the deleter and the policy; a deleter may run destructors that call objects of the
library again, the one that is being reset or assigned to included; two objects
interact when one is constructed from, assigned from or swapped with the
other.

What makes each correct:

* `unique_rc`: every resource that is open has exactly one party that will close
  it, an object or the client; it is closed once, by a deleter made for it;
  `operator bool` tells whether the object owns something. These hold after any
  sequence of calls, and at every moment at which user code can look.
* policies: every handle of a resource is owned, no value that a failed API call
  returns is, and `invalid()` is not.
* `unique_ptr`: the conversions that its constraints let through are those after
  which the delete-expression is still defined.
* re-entrancy: a deleter that calls back sees consistent objects, those that are being
  destroyed excepted, and every operation ends.
* comparison: the ways of asking for emptiness, and of comparing with an empty
  object, agree where `invalid()` is `nullptr`.
* generator: no coroutine is used when it is finished or gone; values are read in
  order and once.
* GDI guards: every call is undone once and in the right order, and the device
  context comes back as it was received.
* reference deleters: whoever wrote through another reference in between, an
  owner finds a deleter that closes what it owns.

## What is hard

`PROJECT.json` lists every hazard with its line and the properties that cover
it. In short:

* *Order within an operation.* Assignment must close the old handle with the old
  deleter, `release` must read before it overwrites, the self-reset assertion
  must come before anything is closed.
* *Sequences.* Mixed moves, swaps, releases and resets over several objects, and
  a handle value that is closed and opened again while another object still
  stores it.
* *Template arguments.* A policy that does not fit the resource, or two kinds
  that convert into each other and disagree about what "empty" is.
* *Re-entrancy.* The deleter runs in the middle of `reset`, of an assignment and
  of the destructor.
* *Sharing.* A deleter stored by reference belongs to somebody else; assignments
  and swaps write through the reference, and what it refers to may end first.
* *Order between objects.* Guards of one device context must be undone in the
  reverse order of the calls, but can be moved out of the scopes that see to it.

## Modules

| module | models | |
|---|---|---|
| `Ownership` | what a smart handle promises, with no handles or deleters | abstract specification |
| `UniqueRc` | `unique_rc` and its holder, for any template arguments | implements `Ownership` |
| `InvalidHandlePolicy` | the shipped policies, as pure operators | used by the instances |
| `ShippedPolicies` | `unique_rc` with each shipped policy and what the functions it is made for return | extends `UniqueRc` |
| `UniquePtr` | `unique_ptr<T>`, `unique_ptr<T[]>` with `default_delete`; conversions; `make_unique` | extends `UniqueRc`; implements `Ownership` |
| `NestedPtr` | destructors that call back in the middle of an operation | stands alone, as its steps are finer; implements `Ownership` |
| `Generator` | `unique_coroutine_handle` in the generator of the examples: coroutines, iterators, loops | extends `UniqueRc`; implements `Ownership` |
| `GdiGuards` | guards of `SaveDC` and `SelectObject`, and the device contexts they act on | extends `UniqueRc`; implements `Ownership` |
| `SharedDeleter` | `unique_rc<H, D &>` with `unique_rc<H, D>` and variables whose deleters it refers to | stands alone; implements `Ownership` |
| `Comparison` | `==`, `<=>`, comparison with `nullptr`, as operators | extends `UniqueRc` |
| `MC...` | instances for TLC | |
| `UniqueRcProofs`, `UniqueRcRefinement`, `ComparisonProofs`, `UniquePtrProofs`, `GeneratorProofs`, `GdiGuardsProofs`, `SharedDeleterProofs`, `NestedPtrProofs` | proofs | |

### UniqueRc

A `Kind` is one instantiation of the template, and its arguments are constants
indexed by kind: `InvalidOf` and `OwnedOf` are the policy, `Traits` what the
deleter type supports (hence which holder specialisation is selected and which
members exist), `Constructs`, `Assigns`, `Cast` and `CastDel` the conversions
between kinds. `hnd[x]` and `del[x]` are the two elements of `hdt_`. A deleter
is abstracted to a tag, the way of closing it implements; `res` is the world
outside, the way each resource was opened for, or `Closed`; `raw` is what the
client itself must close. A deleter that was moved from is unspecified, so it is
either unchanged or `Gutted`, unless it has no members (`"empty"`), and so no
state to lose.

Each public member function that changes state is one action. `fault` is set
when a deleter is called on anything but an open resource it is made for, which
covers double close, close of an invalid value and close by the wrong deleter.
`aborted` is set by the assertion in `reset` against `r.reset(r.get())`, which
exists unless `RAII_URC_DISABLE_SELF_RESET_CHECK` or `NDEBUG` is defined; nothing
runs after it, so a move assignment that trips it assigns no deleter
(`DeletersAssigned`). The assertion compares handles by their `operator==`:
`Compared` says what that looks at, which need not be all that tells two resources
apart. The operators named "Slip" are plausible mistakes. No action uses
them; each shows that a property can fail.

What the client must see to, and the guards say:

* it hands over only a resource it is responsible for, which the deleter closes,
  a value a failed call returned, or `invalid()` (`MayGive`);
* it self-resets only if `SelfResets` says so;
* it assigns an owning object to itself only if the deleter's own assignment
  tolerates that (`"selfmove"`).

`Fits` is what the template arguments have to satisfy, in two parts.
`RunningFits` is needed as long as the program runs: policies and conversions that
fit, and no self-resets without the assertion. `HandlesTell` is needed by the
assertion, where there is one: handles of two resources never compare equal. The
library does not check any of it, and the three violation runs show what happens
without: `policy_mismatch` and `narrowing` without `RunningFits`, `gdi_checked`
without `HandlesTell`.

### UniquePtr

A kind is a type `[class, const, array]`. The operators of the language,
`PointerConvertible`, `ArrayConvertible` and `Deletes`, and those of the
templates, `DeleterConvertible`, `SingleConversionFrom` and
`ArrayConversionFrom`, compute the constants of `UniqueRc`; `IsUniquePtr` says
that the constants have these values. `MakeUnique` and `AssignNull` are the
operations it adds. So that a type checker's decision becomes a property of
states: every delete-expression that a sequence of conversions leads to must
have the right form (`delete` or `delete[]`) and class. The table of permitted
conversions agrees with `std::is_constructible` and `std::is_assignable` as
g++ 12 evaluates them on the real header.

### NestedPtr

In the other modules an operation is one step. Here it is interrupted at every
call of a deleter: `stack` holds what remains of the operations under way. A
`Node` has a `unique_ptr<Node>` as its member, like
`A` and `B` of the tests (`src/test/src/modifiers/reset.cpp`). The body of
`~Node()` may call any operation on any object whose own destructor is not running,
then the member is destroyed. `reset` does nothing after it called the deleter
(`unique_rc.hpp:169`), so nothing of it stays on the stack. Assignment writes the
deleter after `reset` returned, and that access needs objects that still exist.

`ownerBar` assigns a node to the party responsible for it *between* the steps of an
operation too: a node whose deletion has begun is nobody's any more, one that is
still stored is its holder's. So an operation takes effect where it begins, and
returns change nothing (`OwnershipSpec`). `Work` is what the stack and the nodes
still have to do.

The client's disciplines, three of them, and the code sees to none:

* Nobody calls an object from the moment its destructor has begun (`Usable`).
  `~unique_rc` calls the deleter with the handle still stored
  (`unique_rc.hpp:425-428`), so a body that reset, moved from or destroyed that
  object would have the node deleted again. The properties of `NestedPtr`, `NoFault`
  among them, are about callbacks that keep to this; `DestroyStillStores` is why they
  must.
* No node comes to own itself (`Acyclic`), or nobody can ever delete it.
* The call of a deleter does not destroy the objects of the move assignment that
  called it (`OperandsOutlive`). This is needed only for a deleter with members: with
  the stateless `default_delete`, `head = std::move(head->next)` destroys its source
  and is allowed by the model.

### Generator

The objects of `UniqueRc` are the generators of
`src/examples/UniqueCoroutineHandle.cpp`, its resources coroutine frames. `co`
is what a frame holds: the locals of `range`, `current_value` and `done()`.
`Resume` runs the body to its next suspension point. A `Traversal` is a
range-based for loop; `at` is what it does next (test, read, body) and `iter` the
plain handle its iterator keeps. Between a loop's steps any generator, that of
the loop included, may be moved, assigned, or destroyed, and another loop may go
on: more interleavings than nested loops have. `fault` is shared with `UniqueRc`:
here it is also set by `resume()` of a finished or destroyed coroutine, `done()`
of a destroyed one and a read of an empty `current_value`. `got` is history, the
values read from each frame. `StepsLeft` counts what a loop has before it; that nothing
else sets it back (`NoneSetBack`) is why it ends.

The client's disciplines, which nothing in the code checks: it does not dispose
of a coroutine that is being traversed (`Untraversed`), and begins no second
traversal of a coroutine that is being traversed or is finished, since `begin()`
resumes whatever it finds. `unhandled_exception`, which terminates, is left out,
as `range` does not throw.

### GdiGuards

The objects of `UniqueRc` are guards of two kinds, `dc_state` with
`gdi_restore_dc` and `dc_gdiobj` with `gdi_select_object`; what they own are
*calls* that have to be undone. A handle alone does not name one: `SaveDC` uses
the numbers of dropped states again, and two calls of `SelectObject` may return
the same object. So a resource is a handle with the number of its call. The number
is history: the client keeps to it and the properties speak of it, but no code looks
at it. In particular handles compare without it (`GdiCompared`), as the
`operator==` of both handle types does (`deleter_windows_gdi.hpp:133-134`,
`199-200`). `ctx` is the device context as the API
has it, the selected object and the stack of saved ones; `hist` is what it was
before each call. A step of `UniqueRc` in which a deleter runs (`Undoes`) changes
the context as `RestoreDC` or `SelectObject` would (`Effects`). Contexts are
acquired and released, objects created and deleted.

The client's disciplines: calls on one context are undone innermost first
(`Innermost`), a context is released when no call on it is left, and an object is
deleted when no call is left on the contexts it was selected in, or none that
selected it or was made while it was selected. The client goes by the calls it
undid, not by what the context has selected: that this is the same is a property
(`NoneDangling`). The code sees to none of the disciplines; destructors of local
guards do to the first, moving a guard out of its scope does not.

Since handles of different calls may be equal, `HandlesTell` fails, and a *checked*
build differs from an *unchecked* one: assigning the guard of one call to the guard of
another with an equal handle trips the assertion in `reset`, though nothing is reset
to itself (run `gdi_checked`). The run `gdi_guards` is of the unchecked build, in
which such guards may be assigned, and shows that the call is undone and the context
restored. The theorems cover both: whatever a deleter does, it does right in every
build; that the program goes on, only the unchecked build guarantees.

`HGDI_ERROR`, what `SelectObject` returns when it fails on a region, and the numbers it
returns for regions otherwise are left out.

### SharedDeleter

`del` gives the state of each deleter, a variable of the client's (`Var`) or the
deleter in an object that stores its own (`Val`); `at[x]` is the one object `x`
refers to. The operations of `UniqueRc` again, as they are for `D &`: construction
copies the reference, assignment and swap copy, move or swap the *deleters
referred to*. `Ref` converts into `Val` by construction and both into each other
by assignment.

Two things are left to the client. An operation that writes a deleter must leave
the others that refer to it able to close what they own (`Tolerated`). And a
deleter may end only when no `Ref` is left that was made with it, or
move-constructed from one that was (`Unused`): *not* when nothing refers to it,
which the client does not see. So it is a property of the code, not of the model,
that an assignment or a swap does not make an object refer to a shorter-lived
deleter, as an assignment that rebinds references would. Self-assignment of a
`Val` is in `UniqueRc`, and of a `Ref` it changes nothing. Where a deleter would
be moved to itself, through a `Ref` that refers to the `Val` on the other side,
the client must not assign.

### Comparison

Operators on the state of `UniqueRc`: comparison of two objects goes by the stored
handles, but `== nullptr` by the policy and `<=> nullptr` by the value. `Scalar` are
the kinds whose handles have an order and compare with `nullptr`; `Below` is any
strict order with null below all other handles. `unique_ptr` and
`unique_coroutine_handle` declare the operators again and compute the same.
`EmptinessAgrees` relates the three for objects of any two kinds whose `invalid()` is
null: an object equals `nullptr` by both operators or by neither, it equals an empty
object exactly if it is empty, and it is less than an owner then. `OwnsAllButInvalid`
and `ConversionsStay` are what the policies and conversions have to satisfy for that:
they speak of the handles a kind comes to store (`KindHandles`), not of all values,
so that they can hold for several kinds at once. `MCConvert` extends the module, so
the property is checked over objects that were moved, converted and released.

Hashing has no operator here: `unique_rc_hash` hashes the handle, two owners have
different handles by `Exclusive`, and equal handles hash alike.

`ShippedPolicies` gives the template the arguments the library ships: for `file`,
`coro`, `dc_wnd`, `dc_state` and `dc_gdiobj` the handle type, the policy, and what the
API functions return when they succeed or fail, over any sets of handles; `ApiFits`
is what is assumed of the API, that success is never reported with a failure value.
A resource is its handle there; that two calls may yield one handle is the matter of
`GdiGuards`.

## Runs

| run | instance | shows |
|---|---|---|
| `unique_rc` | 3 objects of one kind, 2 resources, 2 ways of closing, self-resets in a checked build | type invariant, no fault, exclusive ownership, truthful `operator bool`, raw handles are open, the assertion closes nothing; implements `Ownership`, hence leaks nothing |
| `convert` | 3 objects of kinds that convert into each other and select different holder specialisations, unchecked build | no fault across conversions and self-move; comparisons with `nullptr` and with empty objects agree; implements `Ownership` |
| `policies` | one object for each shipped policy | each policy tells the resources of its API functions from their failure values |
| `unique_ptr` | 5 objects, one for each of `D`, `const B`, `D[]`, `B[]`, `const B[]` (`D` derived from `B`), 2 resources | all delete-expressions are defined, and what is owned can be deleted; no assignment trips the self-reset assertion; implements `Ownership`, `make_unique` being its `Create` |
| `nested` | 2 variables, 3 nodes, stateless deleter, any number of calls per destructor body, on all objects but those being destroyed | nothing is deleted twice; no destructor sees a node that is being deleted through an object it may use; the destructor of `unique_ptr` still stores the node while its deleter runs; destructors nest no deeper than there are nodes; implements `Ownership` |
| `nested_fair` | 1 variable, 3 nodes, stateful deleter, one call per body | no deleter of a dead object is accessed; the outermost operation ends, as every step decreases `Work` |
| `generator` | 3 generators, 2 coroutines, 2 loops, an empty range and one of two values | no coroutine is used when finished or gone; values are read in order and once; implements `Ownership`; each step of a loop brings it nearer to its end and nothing sets it back; loops end |
| `gdi_guards` | 2 guards of each kind, 1 context, 2 objects, up to 3 calls not undone, unchecked build | every call is undone once, by its deleter, and puts the context back to what it was; the context is given back as received; no deleted object is selected, or kept to be |
| `shared_deleter` | 3 reference and 2 storing objects, 2 variables, 2 resources, 2 ways of closing | no deleter is used after its end or on what it does not close; owners can close; implements `Ownership` |
| `gdi_checked` | the same in a checked build | a violation, see [below](#disagreements-found) |
| `policy_mismatch`, `narrowing` | instances that do not fit | see [below](#disagreements-found) |

`OwnershipSpec` is the refinement: `ownerBar` computes the party responsible for
each resource, and every step must be one of `Ownership`'s transfers. A leak
maps to `Lost`, which is no party of `Ownership`, so a run that checks `OwnershipSpec`
needs no `NoLeak` besides. `UniqueRc` and what extends it map in the same way,
`SharedDeleter` and `NestedPtr` in their own. For the GDI guards the refinement is
proved and not run: with the three calls the other properties need, TLC takes too long
to evaluate it on each of the many steps (with two calls it holds).

**Bounds.** Only the calls on a device context could grow without limit;
`MaxCalls` bounds those that are not undone. All runs visit every reachable state
of the instance. Three objects are needed for an
assignment or swap while a third party holds something; operations take at most
two, so a fourth adds no new interaction. Two resources let one handle value be
reused while another is held; two tags make it matter which deleter is called.
In `unique_ptr` the five types have every kind of permitted conversion (to a
base, to `const`, of an array to `const`) and refused ones. In `nested` three
nodes make lists of three, so a deleter can run below a deleter below an
operation, and the stack's depth is bounded by the nodes, as a node is deleted
only once; `OneCall` bounds a body to one call in `nested_fair` only. In
`generator` two coroutines can be traversed at once while a third generator is
there to be moved to; the range of two values has a first, a next and an end,
and the empty one ends at once. In `gdi_guards` three calls are the fewest that
have one of a kind between two of the other, which makes handles equal and states
be dropped; two guards of a kind can be swapped and assigned; contexts do not
interact, so there is one. In `shared_deleter` one deleter can be shared by all
three `Ref`, or by two while the third refers to that of a `Val`;
the two variables let one end while the other lasts. Objects, resources and tags
that are alike are symmetric there and in `nested` and `gdi_guards`; no run with
symmetry checks liveness. In `narrowing`
`Width` is 2 bits, enough for two resources whose handles collide.

**Fairness.** `NestedPtr` has the liveness property `Unwinds`, under
`WF_vars(Continue)`: a thread inside an operation goes on running. `Generator`
has `Ends`, under `WF_gvars(Continue(l))` for each loop: it goes on, which
assumes that its body, the client's code, ends. Nothing is assumed about the
client otherwise; it may never call anything. A destructor body that makes calls
for ever would never end, whatever the library does; so `Unwinds` is checked
with bodies that make at most one call (`OneCall`).

**Deadlock** is checked in all runs but the one where the assertion ends the
program (`unique_rc`).

**Mutants.** Every property of a passing run has a mutant in `PROJECT.json`: one
definition replaced by a slip, under which the property fails.

## Proofs

All proofs are for any constants that satisfy the named assumptions
(`ConstantsAssumption`, `PtrAssumption`, `GeneratorAssumption`, `GdiAssumption`,
`SharedAssumption`, `NestedAssumption`, `ComparisonAssumption`): any number of
objects, handles, resources, kinds and conversions; any finite number of nodes,
as the client's discipline speaks of finite sets of them.

| theorem | module | says |
|---|---|---|
| `TypeCorrect` | `UniqueRcProofs` | `Spec => []TypeOK`, for any template arguments |
| `Invariance` | | `Fits` implies `Spec => []IInv` |
| `NeverFaults`, `SoleResponsibility`, `NeverLeaks`, `BoolIsTruthful`, `RawHandlesAreOpen` | | the safety invariants that follow from it |
| `AbortIsHarmless`, `AssertionIsSilent` | | the self-reset assertion fires before anything is closed or changed, and under `Fits` only for self-resets |
| `ImplementsOwnership` | `UniqueRcRefinement` | `Fits` implies `Spec => OwnershipSpec` |
| `PtrFits` | `UniquePtrProofs` | what `unique_ptr` passes to `unique_rc` fits, if base classes have virtual destructors |
| `DeletionIsDefined`, `NothingIsLeaked`, `StoredIsDeletable` | | hence its delete-expressions are defined, also those still to come, and nothing leaks |
| `PtrImplementsOwnership` | | likewise `PtrSpec => OwnershipSpec` |
| `CoroutinesAreSafe`, `CoroutinesAreDestroyed`, `ValuesInOrder` | `GeneratorProofs` | the generator's safety properties, for any number of generators, loops and ranges |
| `GeneratorImplementsOwnership`, `TraversalsAdvance` | | `GenSpec => OwnershipSpec`, and `GenSpec => NoneSetBack` |
| `NullComparisons` | `ComparisonProofs` | the property of `Comparison`, for any order |
| `ShippedPoliciesFit`, `ShippedBoolIsTruthful`, `ShippedNeverLeaks` | | `AreShipped` implies `Fits`, and so what the run `policies` checks, for any handles |
| `GdiFits` | `GdiGuardsProofs` | `RunningFits` for what the guards pass to `unique_rc`: failed calls are not owned |
| `GdiInvariance`, `CallsAreUndoneOnce`, `GuardsUndo`, `ContextsComeBack`, `NothingDangles` | | any number of guards, contexts, objects and calls, in every build: calls are undone once and by the right deleter, and contexts are restored |
| `NoCallIsLost` | | in every build, as long as the assertion has not ended the program, each call has its guard |
| `GuardsImplementOwnership` | | `GdiSpec => OwnershipSpec` in builds without the assertion |
| `SharingInvariance`, `NoDanglingDeleter`, `SharersCanClose`, `SharersImplementOwnership` | `SharedDeleterProofs` | any number of objects that share deleters: references are good, and `Spec => OwnershipSpec` |
| `Invariance`, `TypeCorrect`, `ReentrancyIsSafe`, `NothingStaleIsSeen`, `OneOwner`, `AnOwner`, `HandleStaysStored` | `NestedPtrProofs` | all invariants of `NestedPtr`, for any number of variables and nodes, any depth of nesting, deleters with and without members, one call or many per destructor, under the three disciplines |
| `ReentrantImplementsOwnership`, `NestingIsBounded`, `ReentrancyEnds` | | `Spec => OwnershipSpec`; the bound on nesting; `Spec => WorkDecreases` |

*The inductive invariant.* None of the safety invariants is inductive alone.
That a deleter never faults (`NoFault`) needs that an owning object holds an open
resource and its deleter (`BoolMeansLive`); closing a resource keeps
`BoolMeansLive` only if no other object holds it (`Exclusive`) and keeps
`RawIsOpen` only if the client does not; a client that hands over a resource
keeps `Exclusive` only by the part of it that is about `raw`; and `NoLeak` needs
the same facts to know which holder disappears. `IInv` is their conjunction with
`TypeOK`. There is a lemma for each shape that operations share (`BeginKeeps`,
`BeginFromKeeps`, `ResetEffect`, `AssignFromKeeps`, ...), and `StepIInv` puts
them together. For moves and conversions alike `Corresponds` says what the
stored values have to satisfy: `SameKindCorresponds` and `CastCorresponds`
establish it, the latter from `ConversionFits`.

*The assertion.* Under `HandlesTell` it trips only when an object is reset to the
very handle it owns (`TripsOnOwn`). By `Exclusive` an assignment cannot bring that
handle from another object, nor a client that is responsible for what it hands over
have it, and a self-move has released it before; what remains is `r.reset(r.get())`,
which only a client with `SelfResets` calls. So `AssertionIsSilent` rests on the whole
of `IInv`.

*The refinement.* `Party(r)` states that the four values of `ownerBar[r]` mean
what they should; `IInv` implies it, so the `CHOOSE` in `ownerBar` has one
candidate. `PutMaps`, `TakeMaps` and `StutterMaps` then map a step to a transfer
from two facts: who else holds what is unchanged, and what was closed. What
`UniquePtr`, `Generator` and `GdiGuards` add to `Next` is covered by the same lemmas
and by `OpenedMaps`, for an object made together with its resource; their own
variables play no part in `ownerBar`.

*unique_ptr.* `ConvertedStillDeletes` shows that a permitted conversion preserves
the definedness of the delete-expression, `PtrFits` that the template arguments
therefore fit, and the invariance of `IInv` then needs a new argument for
`MakeUnique` only. The hypothesis `PolymorphicBases` is the one that
`std::unique_ptr` has too.

*Generator.* `GenIInv` adds to `IInv` that an iterator's coroutine exists and is
traversed by it alone (`Traversed`), and where a loop is determines whether the
last value the coroutine computed is still unread. `Disposes` is what the
operations on generators may do to coroutines, and `ResumeKeeps` is shared by
`begin()` and `operator++`. `MakeUnique` and `Range` share `BeginOpenedKeeps`. The end of a
loop is a matter of fairness, but why it comes is proved: `InOrder` puts a finished
range at its end, so `StepsLeft` is a natural number that `ResumeKeeps` and the loop's
other steps lower (`LeftCases`); and what is done to generators or in other loops
leaves its coroutine as it is, the latter because `Traversed` gives each coroutine one
loop (`MovesSpare`, `LeftSame`).

*Comparison.* `NullComparisons` does not need
`Fits`, but that a policy owns every handle except `invalid()`
(`OwnsAllButInvalid`), as those for scalar handles do, and that objects only come to
store handles of their kind (`Stored`, which `StoredInvariance` proves).
`ShippedPoliciesFit` takes one lemma for each policy (`FileTells`, ..., `DcGdiObjTells`),
in which `ApiFits` separates what success and failure return.

*GdiGuards.* `GdiIInv` adds to `IInv` what makes the calls a stack although their
guards may be anywhere. `Counted`: the calls on a context that are not undone are
numbered as the elements of `hist` are. `Reversible`: undoing each of them in the
context that followed it gives the one before it, down to the context as it was
received. `Kept`: what was selected at any of these times exists, and nothing was
saved that had not been selected. With `Innermost` the call undone is the last
one, so the context becomes the last element of `hist`; and a context without
calls is the first of its course, the one received. Where the assertion ends the
program in the middle of an assignment, the source's handle is in no guard any more,
so `NoLeak` and with it `IInv` do not survive; `EndedOrIInv` says what does, `TypeOK`
and `NoFault`, and as no step follows the theorems lose nothing by it.

*SharedDeleter.* `IInv` adds to exclusive and complete ownership and
`OwnersCanClose` that a `Ref` refers to the deleter the client knows of
(`made[x] = at[x]`) and a `Val` to its own (`Bound`). This is what makes `Unused`,
which does not look at `at`, a sufficient discipline, and what an assignment that
rebinds references would break. The refinement is that of `UniqueRc`, simpler as an object
that does not exist stores null.

*NestedPtr.* The invariant has to hold between any two calls of deleters, so it
speaks of the stack. `Nested`: all objects with a frame that is not a return exist
and have one such frame only, and above a destructor is the deletion of the node
its `unique_ptr` stores. `Done`: where the deleter has returned to a destructor,
its node is gone. `Held`: usable objects store nodes that exist and are not being
deleted, no node has two owners, and each has one. `Outlive`: deleters with members
only return to objects that exist. The last needs a closure: `Spares` names a set
`T` of nodes that the deletions under way will reach; no step below extends what
is reached, since a node to be deleted stores only what is in `T`. `NoCallKeeps`,
`DisposeKeeps` and `ReturnKeeps` are the three shapes of a step; `EndBodyKeeps`
and `EndDestroyKeeps` unwind.

For the refinement `Held` gives each node one party, as `Party` does for `UniqueRc`, and
`Nested` says which nodes are past saving, so a return maps to a stutter. The
bound on nesting maps each running destructor to its node, an injection by `Nested`.
For `Work` one accounts for frames and nodes: a call pays with its body's frame,
which becomes spent; a deletion takes its node from those still standing, and this
outweighs the frames it pushes; a return drops a frame. The measure is a natural number
by `NestedAssumption`'s finite sets.

*Only model-checked:* the two liveness properties, `Unwinds` and `Ends`, as fairness
is out of the prover's reach. Their substance is proved nevertheless: `WorkDecreases`
and `NoneSetBack` give the measures that each step of a fair run lowers. That such a
step is always enabled, which is what remains, TLC checks. Every other property of a
passing run is stated by a theorem, `OnlySelfResets` for `UniqueRc` but not for what
`unique_ptr` adds to it.

## Disagreements found

Each of the first three is a violation run, and was reproduced by compiling the
headers with g++ 12, the last of them with stubs of the GDI functions.

* `policy_mismatch`: the converting constructor and assignment compare handle and
  deleter types, not policies. An empty object's `invalid()` value can count as
  owned in the destination.
* `narrowing`: converting assignment accepts `long` to `int` (construction, with
  braces, does not) and truncates the handle.
* `gdi_checked`: the comments and the message of the assertion say that it finds
  self-resets, `p.reset(p.get())`. For the guards it also finds others: two calls of
  `SelectObject` that return the same object have equal handles, and assigning the
  guard of the first to the guard of the second ends a checked program, where an
  unchecked one undoes the second call and goes on.

Two more have no run, as they need none to be seen:

* The README's `CreateFile` example gives the *deleter* an `invalid()` of
  `INVALID_HANDLE_VALUE`. The library asks the policy, not the deleter; the default
  policy takes the value for an owned handle and closes it.
* A comment of the tests (`src/test/winapi_tests.cpp:242`) says that comparing a pipe
  with `nullptr` should not compile. It does, by `==`, which asks the policy, and by
  `<=>`, which asks the value. Where `invalid()` is not null the two disagree about
  every empty object: it `==` `nullptr` and is greater than it. `EmptinessAgrees`
  makes no claim there.

`deleter_com_shell.hpp` does not compile as it stands and is listed but not
modelled.

## What is not modelled

* Element access, formatting, stream output, the call log: no state.
* Deleters whose move or swap throws: the operations are `noexcept` all the same,
  so the program ends in that step, and no later state is left to state anything
  about.
* Function pointers and functions as deleters. They take the constructors of
  `unique_rc` for which the model has traits; what differs is that a null pointer
  is rejected or not by the type checker.
* Conversion of a coroutine's owner to a type-erased one, and `= nullptr` for it:
  the client of the repository, the generator, keeps its owner private and uses
  neither. As operations they are `ConvertConstruct`, `ConvertAssign` and `Reset`
  of `UniqueRc`, with conversions that change no handle.
* `std::hash`: see `Comparison`. Regions in a device context: see `GdiGuards`.
* Which API function a deleter calls: abstracted to its tag. In a device context,
  whatever `SaveDC` saves besides the selected object.
* `ResolveHandle`, `concepts.hpp`: they compute types; what they decide appears
  as `Constructs`, `Assigns` and `Traits`.
* The size of the stack that recursive destruction of a long list consumes.
  `NestingBounded` bounds the depth by the number of nodes; how much is too much,
  the code does not say.
* `src/examples/UniquePtr.cpp` calls swaps, assignments and resets one after the
  other: a few of the sequences that `unique_rc` and `unique_ptr` enumerate.
* Calling `begin()` of a generator that was traversed to its end, which resumes a
  finished coroutine: undefined, not detected, and excluded in `BeginIter`.
* Tests: read as statements. Build system and packaging: no behaviour at run time.

## Order of the work

`Ownership`, `UniqueRc`, the policies and the proofs about them came first, then
`NestedPtr`, `UniquePtr`, `Generator` with their clients, then what had been left
out of `UniqueRc`: `GdiGuards`, `Comparison`, `SharedDeleter`; the inductive
invariant of `NestedPtr` followed; last came the measures, the remaining
refinements of `Ownership`, and `ShippedPolicies`. What could still be added:

1. A type-erased owner of coroutines, once the repository has a client for it.
2. The GDI guards as users of `ShippedPolicies`' kinds, so that one proof that the
   policies fit serves both.
