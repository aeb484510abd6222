# A model of gemian-leds

gemian-leds is a daemon that drives the LEDs of the Gemini PDA. It listens on
D-Bus (its own object, and connman's signals), keeps what it knows in one
`LightState`, and after most changes rewrites the whole program of the AW9120
LED controller through `/proc/aw9120_reg`.

This directory models that daemon in TLA+, checks it with TLC and proves what
holds for every size of it with TLAPS. Paths below are those of the repository.

## The system

| Part | State | Operations | Talks to |
|---|---|---|---|
| `LightState` (`src/core/LightState.cpp`) | caps lock, connectivity x 3, call, animation steps, power levels, program counter | `handle*` (each edits fields and most run `Update()`), `Update()` | the AW9120 and two class LEDs, by writing files |
| AW9120 (hardware) | SRAM of 256 words, IMAX, mode registers | runs the program it was given | |
| `Daemon` (`Daemon.cpp`) | action queue, its mutex and condition variable, `running` | `run`, `stop`, `flush`, `enqueue_action`, `enqueue_priority_action`, `dequeue_action` | `LEDs` (handlers), `LightState` (actions) |
| `main.cpp` | pointer to the daemon | signal handler: `stop()` | `Daemon`, from whichever thread the signal interrupts |
| `LEDs` (`LEDs.cpp`) | six handlers, torch timers of its loop | D-Bus methods, registration of handlers | `Daemon::enqueue_action` through the handlers |
| `ConnectionWatcher` (`ConnectionWatcher.cpp`) | three signal registrations | subscribe, query with a blocking call, `PropertyChanged` | connman; `LightState` *directly*, not through the queue |
| `EventLoop`, `DBusEventLoop` | a thread, a GLib main context, a promise per callback | construction, `enqueue`, `schedule_in`, `register_*_handler`, `stop` | used by both of the above |
| `HandlerRegistration`, `EventLoopHandlerRegistration` | the function that undoes it | register and unregister on the loop's thread, waiting for it; moves | the vector of `Daemon`, members of `LEDs` and `ConnectionWatcher` |
| `DBusConnectionHandle` | a connection | connect, `request_name`, close; the first two throw | the bus |
| `DBusMessageHandle`, logs, `ScopedGError`, `DaemonConfig` | handles | wrap GIO, syslog, construction | |

Threads: the main thread (performs actions), the loop of `LEDs`, the loop of
`ConnectionWatcher`, and in the tests the thread that calls `flush()` and
`stop()`. The main thread and the loop of `LEDs` meet only in the action queue.
The loop of `ConnectionWatcher` calls `LightState` without the queue and without
a lock.

What is hard: those two threads in one `LightState`; a signal handler that
takes a mutex; a condition variable; timers that nobody cancels; the
program of the chip, which must close its loop within the SRAM whatever the
clients have sent; the query of connman that races its own signals, with a
connman that may be restarted; and an event loop whose callbacks are undone, and
waited for, from other threads while it is being used, stopped and freed.
`PROJECT.json` lists each hazard with its line and the properties about it.

What makes each part correct:

- `LightState`: whatever is sent, the chip runs a closed program that waits, and
  shows on each LED what the fields say; no handler forgets its `Update()`.
- `Daemon`: actions are performed once, in the order they were accepted; a stop
  goes before all of them; nothing waits for a wakeup that was lost, and the threads
  never all wait for each other; `flush()` returns after what was pushed before it.
- `LEDs`: each accepted call takes effect, in order; a refused one does nothing;
  no argument reaches an LED, register or opcode that is not a client's to set;
  a torch with a duration has its end before it, and ends.
- `ConnectionWatcher`: what it shows is true or about to be corrected; the
  constructor returns.
- `EventLoop`: when a wait ends, the callback and all enqueued before it are done;
  no promise or quit is dropped, so that no wait is for ever; `stop()` returns, and
  after it nothing is called.
- Registrations: each is undone once, whoever holds it by then.
- Lifecycle: who waits for the name finds a daemon that is ready; no call is lost
  before the daemon is stopped; nothing calls the `Daemon` after `run()`.

## Modules

| Module | Models | Based on |
|---|---|---|
| `AW9120` | the controller, external: how its words decode, when a program runs for ever, what level can be seen on a channel while it waits | |
| `LightProgram` | what `LightState.cpp` makes of the fields: `Program(s)`, `Imax`, and the registers after an `Update()` (`Updated(s)`) | `AW9120` |
| `LightState` | the class: `lights` (the fields), `chip`, one action per handler, each with the `Update()` it runs | `LightProgram` |
| `UpdateRace` | `Update()` taken apart into its groups of register writes, run by the main thread and the watcher's loop at once | `LightProgram` |
| `ActionQueue` | abstract: what the action queue promises | |
| `Daemon` | the queue as it is: mutex, wait set, notify, `run()`, `flush()`, `stop()`, the signal handler | refines `ActionQueue` |
| `LEDs` | the D-Bus object, its timers, the queue as promised, and the main thread, composed with `LightState` | refines `LightState` |
| `ConnectionWatcher` | subscriptions, blocking queries, signals, connman and its restarts, and the bus between | |
| `EventLoop` | the thread, its sources, the future of each callback, construction and `stop()` | |
| `HandlerRegistration` | registration objects made, moved and destroyed | |
| `Lifecycle` | the daemon from connecting to the bus to closing it: handlers, object and name, calls and timers in between | composes `EventLoop`, and refines it |
| `LightProgramProofs` | theorems about `LightProgram`: the shape of a program, and what can be seen of it | |
| `LEDsProofs` | theorems about `LightState`, and about `LEDs` above it | |
| `UpdateRaceProofs`, `ConnectionWatcherProofs`, `EventLoopProofs`, `LifecycleProofs` | theorems about the modules they are named after | |
| `RegistrationProofs` | theorems about `HandlerRegistration` | |
| `DaemonProofs` | theorems about `Daemon`: types, wakeups, order, its refinement of `ActionQueue`; what `flush()` promises; who waits for whom | |
| `MC*` | values for TLC | |

Correspondence of state and code:

- `LightState.lights` is a record of the fields of `LightState.h:62-70`, with
  `powerLevels` reduced to its three bits per LED (the code only ever assigns
  two constants in which all LEDs have the same three bits). `shown` is a history variable: the
  fields the last `Update()` read, in a set, empty before the first.
- `chip.sram` is the SRAM. Words past `SRAM_WORDS` are dropped as
  `WriteSramProgAW9120` drops them, and an address that this `Update()` did not
  write is `LeftoverWord`: it may hold anything of an earlier program, so that a
  program must never run into it.
- In `Daemon` a thread has a place in its own code (`pc`) and one in the signal
  handler (`handler`): a thread in the handler does not go on with its own code.
  The mutex is not recursive, so `stop_daemon(t)` waits for it even if `t` holds
  it. The handler logs and allocates, too, which is not safe in a handler: wherever
  the thread may have been interrupted inside libc it may stay in `log()` ("log")
  or in the deque's `push_front()`, with the mutex held ("allocate"), for ever
  (`CaughtInLibc`). Waiting in the condition variable is one step that unlocks and sleeps.
  Pushing and notifying are two steps, both under the mutex.
- `UpdateRace` has one place per group of writes. `programCounter` is shared;
  increments may be lost while the other thread is counting too, up to `MAX_LOST` of a
  group, and so may the reset to 0. `handleTorch()` runs two `Update()`s, one through
  `handlePushBlock()` and one of its own (`again`), and the other thread may come
  between them. A loop over
  the steps that meets a change of the vector reads nothing or anything. What
  is *inside* one group (the prelude's words, say) is not interleaved.
- `ConnectionWatcher.bus` is the bus from connman to the daemon, in order.
  `Receive` is GDBus's own thread: a signal goes to the event loop's sources, an
  answer to the blocked call. That is how a signal sent before an answer is
  handled after it. `Restart` is another connman: it has any technologies, has
  told nobody of them, and the bus answers a call to the one that is gone with an
  error. `heard` is history: how `LightState` came to what it has of each
  technology, "told" by the connman there is, or one of the ways to be left wrong.
- `EventLoop.idle` are the sources that `enqueue` attached, in order; `timed`
  stands for everything GLib may dispatch out of that order: timeouts and GDBus's
  calls. The promise of a callback is kept when `static_call()` returns or
  throws, or broken when the freed context destroys its source.
- `Lifecycle` gives the main thread a `Script`, one step per thing it waits for or
  changes: the members of `LEDs` in the order of `LEDs.h`, the registrations of
  `Daemon::run` in theirs, and destruction in reverse. The loop beside it is an
  instance of `EventLoop`. `reached` is history: what each call found in the
  handler it was for. Calling a destroyed `std::function` is undefined, so it
  either returns or crashes the process.
- `Daemon` treats the loop's last action as before `run()` returns (`Return`):
  that no call is made after it is what `NoCallAfterRun` of `Lifecycle` shows.

## Runs

| Run | What it asks | Bounds, and why they are enough |
|---|---|---|
| `lightstate` | types, closed program, each LED shows what it should, full current for the torch, no forgotten `Update()` | 3 steps out of set, fade and wait on one component, set by a colour there is not and faded by red, which is what the code takes it for: one step to set, one to overwrite it, one to wait, in any order and wrapping round the loop. 22 words = 3 steps + 19 words of overhead, the smallest SRAM in which everything fits |
| `lightstate_capacity` | README.md:34's count of steps (violated) | SRAM scaled to 24 words, 15 steps: 24 - 1 - 8 |
| `daemon` | the queue with the loop of `LEDs`, a caller, two signals at any point and a spurious wakeup: safety, refinement, liveness, and who can wait for whom | one loop, since `LEDs`' is the only one that enqueues; two requests: one in hand while another waits, and two pushes before one wakeup; two signals: a second stop behind the first, two threads in the handler at once |
| `daemon_stop` | that `stop()` from the signal handler ends `run()` (violated) | the smallest: one loop, one request, one signal |
| `leds` | each call takes effect, isolation of the block LEDs, `LEDs` implements `LightState!Spec`, timed torches have an end before them and end | 4 calls or changes (`MAX_REQUESTS`) out of 19 calls and 6 changes: two clients' clear, set, set, push; arguments on both sides of each limit. `MAX_STEPS`, what a client adds to one animation, is a bound of its own and large enough here not to bite |
| `leds_stale` | that a timer of an earlier torch leaves a later animation alone (violated) | 4 calls |
| `update_race` | two threads' `Update()`s interleaved: the chip is left running, a later undisturbed `Update()` repairs everything | 2 handler calls, one of them possibly the torch with its two `Update()`s: the second of these repairs alone what the first and the watcher's left; or one that overlaps two. Caps lock, the torch and two technologies go both ways (`States`), so that a shorter program replaces a longer one; one lost increment of a group (`MAX_LOST`), which is enough to overwrite a word and to miss the start of the loop, and any number in the proofs |
| `update_race_at_once` | that the chip is right when nothing runs (violated) | 2 handler calls that only switch on |
| `watcher` | what is shown wrongly is being corrected and ends up right, but for three ways named below; the constructor returns | 2 changes, or 1 and a restart of connman, each between any two of subscription, query, answer and delivery; three technologies, so that one is subscribed, asked for or waiting while another changes |
| `event_loop` | waits, their order, the promises they rest on, `stop()` | three callbacks from any threads beside the constructor's, a timeout and a call of the bus: two in order and one left behind by `stop()`, in each of its phases |
| `lifecycle` | ready when named, no call lost, none after `run()`, the loop used as it may be, no blocking on it | two torches with a duration, one without, one other call: two timers pending at once, beside a call for the same handler and one for another; the name free or taken, changing hands, and the call for it failing all the same |
| `registration` | each registration undone once | three registrations and four objects: a temporary, a variable, and a vector's elements before and after it grows |

The four violations are disagreements of the code with what the repository says
of it; `findings` in `PROJECT.json` quotes both sides.

`CHECK_DEADLOCK FALSE` is given where the system may stop: when clients have made
all the calls the bound allows, or the daemon has ended. `LightState` alone can
always take a step, and its runs check deadlock.

### Fairness

- `Daemon`: every thread that can run does (`WF` of the main thread's steps and
  of each other thread's): they are threads of a preemptive scheduler. No
  fairness for clients' requests, callers' calls, signals or spurious wakeups:
  nobody has to make them. The mutex needs no strong fairness for the properties
  checked, because each of the finitely many calls holds it for a bounded time.
  A thread whose signal handler waits for the mutex that the thread itself holds
  (`SelfBlocked`) waits for ever, and so does one whose handler logs or allocates while
  the thread is inside libc (`LibcBlocked`). The liveness properties name these two
  exceptions; `daemon_stop` finds the first with the second left aside, and
  `OnlySelfBlockedStays` says that, of what is modelled, nothing else keeps a stop from
  ending `run()`. No fairness takes a thread into libc's locks, and none frees it.
- `LEDs`: a timer ends (`WF(TorchTimer)`), the main thread performs what waits
  (`WF(RunAction)`).
- `ConnectionWatcher`: messages arrive, both threads run, and a call without an
  answer times out (GDBus's default timeout). Nothing obliges connman to answer.
- `EventLoop`: its thread runs, a callback returns, a timeout expires, and the
  threads that construct or free the object go on when they can. Nobody has to
  use it or to stop it.
- `Lifecycle`: both threads run. Nobody has to call or to stop the daemon, and no
  other process has to give up the name.

### Properties worth a word

- `IndicatorsFaithful` and `AnimationFaithful` compare the levels *seen* while
  the controller waits, in the steady state of its loop, with what the fields
  call for. The first follows the code where no document says more: with no
  waiting animation the connectivity LED blinks one colour after another, with
  one it is steady. A torch (all LEDs) lights it steadily in a call at the ear, or beside
  an animation that waits; otherwise it goes on blinking (or stays dark) over the torch, because
  the colours are written behind the steps (`LightState.cpp:260-291`). That is what
  the code does; no document says more than that all LEDs are lit.
- `BlockIsolation` looks at words, not arguments: whatever four unsigned numbers
  a client sends, what reaches the chip is a WAIT or drives channels 0 to 14.
- `SoloUpdateRepairs` is why `LightState` may treat a handler as one step: the
  damage of a race is temporary, until the next `Update()` that is alone.
- `KeepsPromise` is the refinement `Daemon => ActionQueue`: `accepted` is the
  history of pushes at the back, `performed` of actions run; no action is taken
  up once a stop has been pushed.
- `WrongIsCorrected` speaks of every moment, also while the constructor asks: where
  `LightState` has a technology wrong, the signal that will put it right exists, or
  the constructor has yet to ask. That needs three facts at once: subscribe before
  asking, connman's order kept on the bus, and signals held back while the loop is
  blocked. It holds of all technologies but for three ways to be left wrong until
  the technology changes again (`LeftWrong`), none of which anything in the code
  repairs: the query failed (`failed`); connman was restarted and has told nothing of
  it since, as nothing watches for connman's owner to change (`restarted`); or the
  answer of a restarted connman overtook a signal of the one before, which waited on
  the blocked loop and is passed on after it, as nobody looks at who sent it
  (`overtaken`). `saveStateForPath` sets "overtaken" at the moment of the answer, only
  if such a signal is there, and "told" otherwise; a signal of a connman that is gone
  never changes `heard`, so that a technology once "told" stays under the property
  until connman is restarted. `ShownInTheEnd` says that the signal arrives.
- `NeverStuck` is about deadlock, which TLC's own check cannot see here: a daemon that
  sleeps on an empty queue is as still as one whose threads wait for each other.
  `Blocked` lists the waits of the code (mutex, condition variable, promise, the
  unregistering of handlers), and when all threads are in one, either the daemon has
  ended, or there is nothing left to do (`AtRest`), or a thread waits for itself, for the
  mutex or in libc. The wait for the mutex is final, and takes the queue with it
  (`SelfBlockIsFinal`).
- `TorchHasEnd`, like `TimedTorchEnds`, is about clients that give each torch a
  duration (`TorchesTimed`): one that is asked to stay on may do so.
- `NameMeansReady` is what systemd relies on: `debian/gemian-leds.service` is
  `Type=dbus`, so that the service counts as started when its name is owned.
- `KeepsToLoop` is a refinement: `Lifecycle` may use its loop only in the ways
  `EventLoop` allows, so that what is checked and proved of `EventLoop` (a wait
  means done, nothing after `stop()`) applies to it. With `LEDs`' members declared
  in another order it fails.
- `WaitsEnd` and `MainNeverStuck` are about one hazard from both sides: a loop
  that is stopped breaks the promises left in it, and the daemon never gets to
  wait for one that is not in it.

## Proofs

Everything below is checked by `tlapm` to the last leaf.

`LightProgramProofs` is about the program, for every record of fields whose
steps are ones `LEDs` lets through (or the torch's own):

- `StepsStayInTheBlock`: the word of a verified step is a WAIT, or sets a level
  on one of channels 0 to 14 and to the level asked for; it is never a jump.
- `PreludeShort`, `FallbackShort`, `LoopShape` bound the program's parts: at most
  6 + steps + 12 + 1 words, of which only the last is a jump, back to the start
  of the loop, with a WAIT in between.
- `CarriedLoops`: hence, if steps plus 19 words fit (`ProgramFits`), `RunsForEver` holds
  of any SRAM that carries the program from its start on, whatever is behind it
  (`Carries`); `ProgramLoops` is the case of a chip loaded with nothing else.
- `ProgramWords`, `ImaxWords`: no word or register exceeds 16 bits.

Its second half is about what can be *seen*. `Visible` reads the SRAM: where the loop
ends, what drove a channel last in this round, in the round before or ahead of the
loop. That is brought down to two operators on a run of words and the level `x` a
channel had before it: `After(words, ch, x)`, the level it has behind it, and
`Seen(words, ch, x)`, its levels at the words that wait.

- `AfterConcat`, `SeenConcat` (`JoinLevels`): both of `u \o v` follow from those of `u`
  and of `v`, so that a program is read part by part, as `Update()` writes it. They
  need the last of a set of places to be what it should (`LatestIs`,
  `LatestShifted`; that there is one is well-foundedness, `LatestExists`).
- `VisibleIsSeen`: of a program `prelude \o loop \o <<Len(prelude)>>` in the SRAM, what
  is visible of a channel is `Seen(loop, ch, y)`, where `y` is its level after the
  prelude and one round. The words of an earlier program behind the jump do not
  count, nor does how many rounds there were.
- `PreludeLevels`, `FallbackLevels`: what the words beside the steps do to each
  channel, by joining them one at a time; a blink shows its colour and leaves it off.
- `ProgramSeen`: what these give for `Program(s)` (`ProgramShows`), for any steps and
  again for any SRAM that carries the program.

`LEDsProofs` begins with `LightState`. Its inductive invariant `IInv` is: the types;
the fields hold verified steps, and a torch among them only with the torch's current
(`Held`); and the chip is `Updated(s)` of the fields last read,
which differ from the present ones in the steps alone (`ChipFollows`). The last
is what makes it inductive: what is to be shown of any reachable chip becomes a
fact about one program. From it `TypeCorrect`, `NothingForgotten`, `TorchIsBright`
(with `LimitGiven`: a nibble read back from the sum of four is the one put in) and,
assuming the steps and the overhead fit the SRAM, `NeverRunsOff`, `AnimationShown`
and `IndicatorsShown`. For these the steps come in: `CodeIsWiring` says that
the number `AWLEDCodeForStep` gives is the channel the LED is wired to, and so
`StepDrives` that a step drives that channel, to the level it asks for, and no other.
`BlockLevels` follows an animation round its loop, and
`IndicatorLevels` says that only a torch touches the indicators.

The assumption `MAX_STEPS + OVERHEAD <= SRAM_WORDS` of the three is
exactly what the code does not enforce, and `lightstate_capacity` shows the need for
it. `MAX_STEPS` bounds the steps held at once, not how many calls there ever are.

`DaemonProofs` is about the action queue, for any number of loops, callers,
requests, signals and spurious wakeups. Its inductive invariant `DaemonInv` has
two parts.

- `Alert`: the types; which places each thread can be in (`Placed`); only the main
  thread sleeps, and only inside `wait()` (`Sleeps`); and `NoLostWakeup`, which is
  inductive given these: a push is made under the mutex and announced before the
  mutex is released, and the thread that holds it is about to do so.
- `Orderly`: the queue is some stops and then exactly the actions that were sent and
  not begun, in order (`Shape`); the action in hand is the next of those sent, and
  what is done is a prefix of them (`InOrder`); a stop was asked for exactly if one
  is in front, in hand or acted on (`Stopping`); `running` holds while the loop
  runs (`Looping`). None of it can be left out: that no action is taken up after
  a stop needs `Stopping`, which needs to know how many stops the queue holds,
  which is what `Shape` counts.

From it `DaemonTypeCorrect`, `NoWakeupLost`, `StopsInFront` and
`QueueImplemented`: `Spec => KeepsPromise`, each step of the daemon being a step
of `ActionQueue` or leaving its variables alone. The lemmas `ShapeAppend`, `ShapeStop`,
`ShapePopStop` and `ShapePopItem` say what one push or pop does to the shape.

The second half of the module adds what a promise means (`FlushInv`): every action is sent once;
one that is sent and not done belongs to the call its thread is still in; a
promise that is set while its caller waits was set by running that caller's
action. From it `FlushMeansIt`: when `flush()` returns, the daemon is in its loop
and everything pushed before the flush has been run.

The third asks who waits for whom (`WaitInv`): the mutex is held by exactly the
thread that is between lock and unlock (`Exclusive`); loops neither flush nor stop,
and who joins has pushed a stop (`Errands`); the action of a caller that still waits
has been sent and not done (`Expected`). From it `DaemonNeverStuck`, by following the
waits to their end: who holds the mutex can go on, unless it is its own handler that
wants it; if nobody holds it, only the sleep of the main thread, `flush()`, and the
unregistering of handlers are left to wait in. By `Shape` and `NoLostWakeup` main
sleeps only when all is done that was sent, so that by `Expected` nobody flushes, and
the loops that main waits for at the end hold no lock. `SelfBlockIsForEver` follows
from `Exclusive`: only its holder releases the mutex, and it is not coming back from
the handler.

`UpdateRaceProofs`, for any number of handler calls and however the two threads
interleave. `RaceTypeCorrect`; `LeftRunning`, because the chip is off only while a
thread is between disabling and enabling it, and held only while one is on its way
to running it (`Executing`); and, if the longest program fits the SRAM,
`RepairsAlone`. Its invariant (`Solo`) follows a thread that has been alone since its
handler began: from the reset of the load address on, the counter, the address and
the SRAM agree on the words written so far, whatever they were before (`Progress`).
The counter and the address may differ for ever while updates overlap, so that no
stronger invariant holds of them. `RepairedShows` joins this with `ProgramSeen`: after
an `Update()` that was alone the chip loops, and each channel is seen as after
the undivided `Update()` of `LightState`, although words of an earlier, longer program
may be left behind the new one. That is why `LightState` may take as one step a
handler that no other overlaps.

`EventLoopProofs`: the invariant is that the callbacks dispatched are a prefix of
those enqueued, and what is left of them is `idle`, in order; all but the last
dispatched are done, and the last may be the one being called (`Ordered`).
`WaitMeansDone` alone is not inductive: a later callback might be taken from the
context first. Once the context is freed there is no order left to state, and no
thread to disturb what `WaitMeansDone` says. From it `EventLoopTypeCorrect`,
`WaitsAreOrdered` and `NothingAfterStop`. The safety that the waits' liveness rests
on is a second invariant: `PendingIsHeld`, and `Starts`, which says how far the thread
is by how far construction and `stop()` are. Its heart is that a thread which has not
reached its loop still owes the constructor its callback: so `stop()` cannot have
begun, and no quit is overtaken by the loop's start. From it `NothingPendingIsLost` and
`QuitReachesTheLoop`.

`RegistrationProofs`: `UndoneOnce` with the types is inductive. A step changes one
or two places, and a registration is in them or not: `Elsewhere`, `Moved` and
`UndoneNow` are the three things that can happen to it.

`LEDsProofs` goes on with `LEDs`, for any set of calls: the queue holds only verified actions
(`QueueOK`), and it *leads* from the fields as they are to those the accepted
calls ask for (`QueueLeads`): there is a function from positions in the queue to
fields, each got from the one before by performing the action between. That the
path exists is what makes it inductive without a recursive "perform all":
enqueuing appends to it, performing drops its first, and a change of connectivity
is made to each field of it at once. With an empty queue it has one point, which is
`CallsTakeEffect`. `QueueOK` gives `LEDsImplementsLightState`: each action performed
is one that `LightState`'s own clients may ask for, so that the theorems about
`LightState` hold of the daemon (`DaemonShows`); and `ClientsStayInTheBlock`.
`DaemonShows` covers any number of calls: `MAX_REQUESTS` is any natural, and
what is bounded by `MAX_STEPS` is what clients add to one animation, between one clear
or torch and the next. The bound is a guard of `SetLEDBlockStep` and counts the steps
wanted, of which part may still be queued; that it never stops the main thread
instead is `StepsHaveRoom`, for which `QueueLeads` says of each queued step that
there is room in the fields it will be added to.
`TorchesHaveAnEnd` has an invariant of its own (`TorchInv`): every step either sets
a timer with the torch it queues, turns a timer into the action that puts the torch
out, at the end of the queue, or performs an action from the front of it, which lights
nothing where nothing is queued to be lit (`StaysDark`).

`ConnectionWatcherProofs`, for any number of changes and restarts. What connman has
to say of a technology is in one of four places, and the order in which they are
read is bus, then signals on the loop, then the answer, then `LightState`. The
invariant is `Rest /\ History /\ Right`. `Right` says that the last of the news is right
wherever it is; an answer is right unless news follows it on the bus. `Rest` has what it
needs of the messages: nothing is heard before its subscription (`Unheard`), which
fails if the query comes first, and nothing is from a connman to come (`Past`).
`History` is about the ones that are gone, whose messages may still arrive and say
anything: they are ahead of what the present connman sends, on the bus and on the
loop (`InOrder`), and so, once it has told of a technology, none of them about it is to
follow (`Fresh`). That is where the overtaken signal would break it, and needs to be
known when the answer is read: the answer has then left the bus, so that all
older signals are on the loop, where `Overtaking` sees them. `Queried` and `Unasked`
tie "unasked" to the constructor's turn to come. From it `WatcherTypeCorrect` and
`WhatIsWrongIsCorrected`: where there is news there is a last one (`LastNews`, by
well-foundedness), and by `Right` it is a signal with the present state, on the bus or
else on the loop, unless `LightState` has that state already. When nothing is on its
way that leaves `WhatIsSettledIsTrue`.

`LifecycleProofs`, for any calls and timers. The main thread goes through a script and
waits for each step that it gives to the loop. The invariant (`LifeInv`) therefore tells
everything from the futures of those steps: what was waited for has its value before
main goes on (`Settled`), the loop holds at most the present step and it is not being
called yet (`OneEnqueued`), each handler and the object are as the last finished step
about them left them (`HandlersSet`, `ObjectThere`), and nobody calls before the
object is there (`CalledAfter`). Two parts say what a call that is under way
may rely on: it is the only thing the loop is doing (`Promises`), and so the
handler it found is still set (`CalledAsSet`). None of the properties is inductive
without these. From it `LifecycleTypes`, `NameIsReady`, `CallsAreServed`,
`DaemonCanBeDestroyed` and `NoAwaitedPromiseBroken`, the safety half of
`MainNeverStuck`. `UsesLoop` is the refinement of `EventLoop`, step by step: an
enqueuing before the constructor has returned, or of a callback that was promised
before, is excluded by the script, and a crash leaves the loop as it was. With it
the theorems of `EventLoopProofs` become theorems of the daemon
(`LoopPromisesKept`).

Assumptions on constants: `SRAM_WORDS \in 1..256`; steps given to
`handleSetBlockRGB` are verified ones (that `LEDs` verifies them is part of the
refinement that `LEDsProofs` proves); the steps that a client of `LEDs` may add
are among those `LightState` is told of (`StepsOfRequests`); calls have the arguments of their methods; the
bounds are naturals; the thread names are distinct; the callbacks given to
`schedule_in` are some of those the loop may be given, and the constructor's is not one
(`CallbacksAssumption`); the null function is no registration (`PlacesAssumption`).

Only model-checked: liveness, which TLAPS does not prove under fairness
(`RequestsRun`, `FlushReturns`, `OnlySelfBlockedStays`, `TimedTorchEnds`,
`ConstructorReturns`, `ShownInTheEnd`, `WaitsEnd`, `StopEnds`, `MainNeverStuck`). Every
invariant and every step property that a passing run checks is also a theorem, and
so are the three refinements. The types of `EventLoop` are checked with those of
`Lifecycle`, which include them; those of `UpdateRace` are proved only. The safety that most of these rest on is proved:
`NoLostWakeup`, `NeverStuck` and `SelfBlockIsFinal` for the daemon's, `TorchHasEnd` for
the torch's, `WrongIsCorrected` for the watcher's, `PendingIsHeld` and `QuitIsKept` for
the loop's, `NoAwaitedPromiseBroken` for the main thread's. What is left to TLC is that
whoever can take a step in the end does.

## Not modelled

- Failure to open `/proc/aw9120_reg` or the class LEDs: the code ignores it.
- What the controller does that the code does not rely on: ramp times, step
  timer, the switch of LER and CTRS registers (constants, written each time).
- D-Bus replies; `g_variant_get` of a boolean into a `bool` in
  `ConnectionWatcher.cpp:71`, an answer without a body (`:109-111`).
- `watch_fd` and `schedule_with_cancellation_in` of `EventLoop`: nothing calls them.
- A registration with GDBus that fails: each connection has one object, and the
  signal subscriptions cannot fail.
- The bus going away while the daemon runs: GDBus keeps the closed connection
  silent, and nothing in the code looks at it.
- Which lock of libc a signal handler is caught in, and that it may be lucky: the model
  has both outcomes wherever the thread is not asleep.
- GLib's priorities: `Lifecycle` lets any pending call go before or after an
  enqueued callback. GLib would let the call go first, which is one of these orders; an
  endless flood of calls, which would hold up a registration for ever, is left out.
- `ConnectionWatcher`'s construction and destruction in `Lifecycle`: it has a loop
  and a connection of its own, and what it shares with `LEDs` is `LightState` alone.
- That steps which were not pushed are shown early, by another handler's
  `Update()`, is in the model and contradicts no document; no property forbids it.
- `flush()` by one thread while another stops the daemon: it blocks for ever, and
  no test does it.
- `DaemonConfig`, logs, `ScopedGError`, `DBusMessageHandle`: no behaviour of their own
  (the last is used by nothing), but for the `log()` of the signal handler in `Daemon`.

## Plan

Done: the chip and its program, `LightState`, the action queue and its abstract
specification, `LEDs` on top of both, the race of two `Update()`s, the watcher with
a connman that is restarted, the event loop, registrations, and the daemon's life
on top of them; proofs about each of these, and of every safety property the runs
check.

Left: liveness itself, which is checked on the instances above and not proved.
