# A TLA+ verification of ntsc-rs with its WGPU path

The repository renders an analog-TV effect over video. An effect library (`crates/ntscrs`, CPU and
WGPU) is driven by a desktop application and a command line (`crates/gui`, both on GStreamer) and by
After Effects and OpenFX plugins. The pixels are floating-point arithmetic, which a model checker has
nothing to say about; what surrounds them (a process-wide device shared by worker threads, a bus
handler called on streaming threads, a single-threaded executor, a display thread with mutexes in
common with all of these) is where an interleaving no test tries can lose an error, a frame, or the
program. That part is modelled here, and so is what can be said of the effect without its arithmetic: which
stages run, in which order, on which planes, on the CPU and on the GPU; which row of a picture goes where; and
what becomes of a setting on its way through a preset and three hosts.

## The system's parts

| Part (source) | State | Operations | Hard behaviours | What makes it correct |
|---|---|---|---|---|
| Entry points and runner (`ntscrs/src/lib.rs`, `gpu/runner.rs`) | thread-local cached runner, resolved backend, fallback reason, last backend, two field slots | `apply_effect`, `apply_effect_to_rgba8`, runner replacement | fallback against error, second field failing after the first was copied, retry | fresh pixels or an error; the fallback policy; no frame shared by two backends |
| WGPU backend (`gpu/wgpu_backend.rs`) | process-wide device, error list, lost flag, buffers, staging maps | begin, upload, encode, submit, map, poll, read back | callbacks of the driver at any time, state shared by threads, buffers reused | failures are reported to the frame they belong to; staging buffers get unmapped |
| Frame processing (`gst_utils/process_gst_frame.rs`) | none | direct RGBA8 attempt, general path | retry after a partial first attempt | an automatic frame does not fail where it may fall back |
| Render job (`app/render_job.rs`, `widgets/render_job.rs`) | job state, waker, pipeline, progress samples | bus messages, loading callback, end-of-stream task, pause, resume, drop, poll | messages from streaming threads against host tasks and clicks | the state shown is the pipeline's; ended and closed jobs stay so |
| Command line (`bin/ntsc-rs-cli.rs`) | output and job mutexes, channel, future | run, redraw, close, join | three mutexes taken in two orders, lost wake-ups | it returns, with the job's outcome |
| Pipeline construction (`gst_utils/ntsc_pipeline.rs`) | `finished_loading`, callback taken once | pads added, AsyncDone, Error | an error while loading, errors after it | the callback is called once |
| Executor (`app/executor.rs`, `NtscApp::tick`) | task list, functions to run, repaint request | spawn, wake, tick | wake-ups and spawning from other threads during a tick | a woken task is served; nobody waits for the executor in a circle |
| Presets (`app/presets.rs`) | listings, counters of active operations, selection | list, reload, rename, delete, create, overwrite, install, load | overlapping reloads, operations that fail | once all is quiet, a listing shows its directory |
| Preview (`app/main.rs`, `pipeline_info.rs`, `gst_utils/egui_sink.rs`, `ntscrs_filter.rs`) | pipeline status, recent files, volume; last frame, settings, mode, texture | load, close, play, rescale, change effects; show a frame, redraw | streaming thread against UI thread, drop against both | the texture shows the last frame with the current settings |
| Render queue (`app/main.rs`, `app/render_settings.rs`) | job list, one slot for a job to confirm | render, confirm, refuse, save frame, close | dialogs that close after the application moved on; jobs that spawn while the executor is locked | no circular wait |
| Backend manager (`ntscrs/src/backend`) | table of backends | select | none | not used by a host |
| Rows and fields (`thread_pool.rs`, `yiq_fielding.rs`) | a loop's heads and calls; a YIQ buffer | cut a buffer, run its chunks; read, filter and write rows | threads on slices made from raw pointers, odd and tiny sizes, offsets, flips | every row is visited once and lands where it belongs |
| Effect (`ntsc.rs`, `filter.rs`, `shift.rs`, `noise*`, `gpu/prepare.rs`, shaders) | none | stages in a fixed order | the GPU's order must be the CPU's | same stages under the same conditions |
| Settings (`settings/*`) | descriptor tables | presets in and out | old versions, damaged files, ranges | the look survives |
| Plugins (`ae-plugin`, `openfx-plugin`) | the host's parameters and controls | change, save, load, render | menus by position or by number, slider scales, nested groups | a host renders what its user means |
| Dialogs, workspace, licences, timeline, expression parser, macros, xtask | presentation | | | |

How they interact: the application and the command line build a GStreamer pipeline
(`NtscPipeline::try_new`) whose filter element calls the library from GStreamer's worker threads; each
worker thread owns one cached runner, and all runners share one `WgpuShared`. GStreamer reports back
through the *synchronous* bus handler, on the thread that posts the message. The handler writes the
shared job state, spawns tasks on the executor, asks for a repaint and wakes a future. The graphical application is
one thread that, frame by frame, polls its tasks with the executor locked, runs the functions they returned, and shows
widgets, whose clicks spawn tasks and change the preview's pipeline. Presets are files, which carry settings between
the application and the plugins; each host turns its controls into settings before it renders a frame, row by row, on a pool
of threads.

## Modules

| Module | Models | Used by |
|---|---|---|
| `WgpuRunner` | entry points, runner, WGPU backend, direct-frame retry | `MCWgpuRunner` (4 configurations), its proofs |
| `WgpuRunnerProofs` | its theorems | the proof system |
| `RenderJob` | a job of the application | `MCRenderJob` (2 configurations), `RenderJobProofs` |
| `RenderJobProofs` | its theorems | the proof system |
| `CliRender` | the command line while it renders | `MCCliRender` (2 configurations), `CliRenderProofs` |
| `CliRenderProofs` | its theorems | the proof system |
| `CpuEffect` | the stages of the effect on one field, as the CPU computes them | `GpuEffect` |
| `GpuEffect` | the same stages encoded as GPU commands, the queue and the device | `MCGpuEffect` (1 configuration), its proofs |
| `GpuStagesProofs` | a theorem on the stages, without queue and device | `GpuEffectProofs` |
| `GpuEffectProofs` | its theorems | the proof system |
| `TaskPool` | what the executor promises (abstract specification) | `AppExecutor` (refinement) |
| `AppExecutor` | the executor and the frame that drives it | `Preview` |
| `EguiSink` | the preview's sink, between two threads | `Preview` |
| `Preview` | the media in the preview and its bus handler | `PresetsDir`, `RenderQueue` |
| `PresetsDir` | the presets pane | `App` |
| `RenderQueue` | requests to render, the list of jobs | `App` |
| `App` | the application: all of the above, frame by frame | `MCApp` (2 configurations), its proofs |
| `AppProofs` | its theorems: on the executor, the preview and its sink, types, listings and jobs | the proof system |
| `RowLoop` | a parallel loop over the rows of a buffer | `YiqFielding`, `RowLoopProofs` |
| `RowLoopProofs` | its theorem, and its invariant for `Plugins` | `PluginsProofs` |
| `YiqFielding` | rows of pictures to planes and back | `Plugins` |
| `Settings` | descriptors, defaults, preset files | `Hosts` |
| `Hosts` | parameters, controls and presets of the three hosts | `Plugins` |
| `Plugins` | the hosts' settings, or the frames they render | `MCPlugins` (1 configuration), its proofs |
| `PluginsProofs` | its theorems, and those of `Hosts` | the proof system |

`RenderJob` and `CliRender` look at the same handler from two sides. In the application the handler's
mutexes are never held while another is waited for (a repaint request of egui takes no lock of the
job), so a handler is one step and the questions are about the order of messages, tasks and clicks. In the
command line a repaint request takes a mutex, so `CliRender` gives every acquisition a step of its own,
and leaves out what the command line has not (pause, resume, close).

### WgpuRunner

A worker thread's call is a `pc` that walks through the steps between two accesses to shared state:
`enter` (the prologue: fallback, empty frame, capacity), `begin` (`begin_execution`, which clears the
shared error list), `check` (device loss), `upload`, `again` (the second `begin_execution`, progressive
path only), `encode`, `download` (batched and direct paths), `wait` (poll), `finish` (mapping results)
and `take` (the shared error list, then the copy to the caller). Pixels are abstracted to where they come
from: a plane buffer holds this call's `"input"`, its `"output"`, something `"stale"`, or is `"invalid"`;
staging buffers and the caller's planes likewise. `dst` therefore tells whether the caller got *this
call's* picture. The kinds of frame are the shapes that take different paths: `"single"` (progressive),
`"fields"` (interleaved), `"second"` (lower-first frame of one row: the first field is empty),
`"direct"` (RGBA8) and `"empty"`.

The driver is the environment: any step of a kind listed in `Faults` may raise an error through the
uncaptured-error callback (`Raise`), a poll or a map may fail, and `LoseDevice` may happen between any
two steps. How WGPU treats a rejected submission, an invalid buffer or a buffer still mapped is
external and follows the rules of its validation (`Rejects`, `Processed`, `Copied`, `Unprocessed`,
`CopyFailure`, `MapAsync`). A map request on a buffer still mapped is taken to be reported as rejected, to its receiver; a
wgpu that panics there instead also ends the call before a pixel is copied, and is not modelled. `runtime_errors` is the set of threads whose command raised an error: the code's list holds
strings, and no decision depends on more than whether it is empty; whose they are is what the properties need.
`raised` is a history variable: the steps of the current call that failed; a copy into buffers that an earlier call left mapped has a
name of its own, `"mapped"`.

A slot has three staging buffers. `mapping` is the state of those the current readback uses: all of them on the YIQ path, only
the first on the RGBA8 path, which unmaps only that one. `left_mapped` are the slots whose other two are still mapped since a failed
poll of the YIQ path; only a YIQ readback or a new frame frees them. So after such a poll an automatic direct frame fails twice: once on
the first buffer, and in its retry on the other two.

### RenderJob

`current`, `target` and `msg` are the pipeline: each committed change is reported once, synchronously,
by whoever commits it. A set_state upwards is committed later by streaming threads (`Commit`), a
set_state(Null) is done when it returns and its reports come from the caller (`SetNull`). `state` is the
job's state as `HandleStateChanged`, `HandleError`, the end-of-stream task and drop leave it. The end of stream
is two steps (`RunEosTask`, `FinishEosTask`) because the job's mutex is free between them. The host thread
draws the widget from a copy of the state (`Show`, `seen`) and then serves the click (`Click`, `Close`);
tasks run between two frames only (`OnHost`).

### CliRender

Three kinds of threads and three mutexes in `owner`. A lock taken and released within one statement is a
guard (`Free`) of that step; a lock held across another acquisition is a step that sets `owner`. The display
thread holds `inner` and `job` for its whole round; the bus handler's Error branch holds `state` while it
requests a repaint; `SharedRenderJob::poll` holds `job` while it reads the state. Reports made by
set_state(Null) on the main thread use the same handler actions with `t = "main"`.

### GpuEffect and CpuEffect

`ntsc.rs` and `encode_effect` describe the same twenty-odd stages twice, by hand. `CpuEffect` is the first
description: the planes of a field as a function of the settings, with a *signal* as a term (an operation and its
operands), so that two signals are equal exactly when the same operations were applied to the same
operands in the same order. Seeds, filter coefficients, initial conditions, delays and the field's frame
number are parts of the term. What the arithmetic of an operation computes is left out, and so is whether the shader's arithmetic is
the CPU's; the two are assumed to be given the same name only where they are meant to compute the same.

`GpuEffect` is the second description, and how it runs. The host turns the stages (`EffectSteps`) into commands
(`EncodeStep`) on buffers that are shared: the scratch planes by stages and block filters, the slots of
`data_cache` and of the ring of uniforms by both fields of a frame and by all frames. `write_buffer` takes
effect when the next submission starts (`staged`), submissions run in order (`queue`), and the device takes
its steps (`Execute...`) at any time, whatever the host encodes meanwhile. `FailEncoding` is
a control buffer beyond the device's limit: the call fails, what it had staged stays staged, and commands of
its first field may still be under way when the next frame is encoded. The rows a command was encoded for
(`rows`) are a history variable of the command, for `DispatchReadsItsData`; the device reads the slot.

A slot of `data_cache` is written again, never replaced: the code replaces the buffer when a control grows, which
only keeps the contents of two dispatches further apart.

### The application: AppExecutor, EguiSink, Preview, PresetsDir, RenderQueue, App

`ui` is the phase of the interface's thread: asleep (`idle`), polling tasks (`poll`, the executor's mutex held),
running the functions they returned (`run`), or showing widgets (`show`). A task is a record in `tasks`, with what its
future does next (`fut`) and whether it can be polled, waits, or is done; a poll is an atomic step of the thread, except for
what `blocking` hands to a pool thread, which is a step of `PoolThread`. `App` composes the four parts: each
action of `Next` is one step of a thread, and says what the other parts keep.

* `TaskPool` is the abstract executor: spawned, waiting and woken tasks, each woken task served in the end.
  `AppExecutor` maps its queue, its functions and its repaint request to it (`Pool`).
* `EguiSink` gives every acquisition of the texture's and frame's mutexes a step (`Lock`, `Draws`), for the streaming thread
  in `show_frame` and for the interface's thread in `set_property`.
* `Preview` adds the pipeline: its status and end-of-stream flag as the bus handler leaves them, the pads that appear while media
  loads, volume, recent files. `Dropping` is `PipelineInfo::drop`: a sink in the middle of a frame is waited for.
* `PresetsDir` has a file system, a listing per directory with the counter of active operations and a generation (a root
  reload makes new listings of folders), and the reload and operation tasks at the steps where they await something.
* `RenderQueue` has a job's streaming thread only as far as it meets the executor: it spawns a task at the end, and a
  task or a click stops it and waits for it. `RenderJob` is the detailed model of the rest.

Taken as they are used, not modelled further: dialogs (answered at any time or never), the file system (each call is
atomic; directory entries are read when the iterator is consumed), GStreamer (after `set_state(Null)` began no new frame comes).

What these modules show without a property of their own, because no document or comment promises otherwise: the volume is not applied to media
loaded later; a state change overwrites the preview's error with "loaded" (`main.rs:418`); presets are applied in the order
their files were read, not clicked (`presets.rs:611`); renaming checks for the target before it renames (`presets.rs:745`);
the slot for a job to confirm holds one job, and a second one overwrites it (`main.rs:1522`); saving a frame uses the pipeline loaded when the dialog closes
(`main.rs:1703`). Read but not modelled: the low-latency setting looks for a queue that is made later (`main.rs:484`).

### RowLoop and YiqFielding

`RowLoop` is `ZipChunks`: `Begin` a loop, `SpawnHead` cuts a head with `split_at` and hands it to the pool, `Call` runs
the next chunk of any head, `Return`. `calls` is a history variable. `YiqFielding` runs each of its passes as
such a loop: `SetRow` reads a picture's row into the planes, `FilterChunk` filters rows of a plane, `WriteRow` writes a row
of pixels. A sample is the pixel it was read from with the frame numbers of the filters it went through, a written pixel the set of
samples it is the mean of: enough to tell a wrong row, a wrong field, a stale buffer, a filter twice or with the wrong number.
One filter pass stands for the whole effect, whose stages are the business of `CpuEffect`.

### Settings, Hosts, Plugins

`Settings` holds all 62 descriptors with their numbers, names, groups, ranges and menus, the defaults, the
values for older presets, and `FromJson`/`ToJson` with each way a file may be wrong. A percentage or float is an integer of millionths.
`Hosts` has a host's parameters as the host stores them: OpenFX menus by position, After Effects menus from one and
percentages and logarithmic sliders on scales, which are names here. `intended` is a history
variable: the settings the users mean each host to have. `Plugins` adds rendering: a frame is
read, filtered and written, with the field, number, rectangle, offset, padding and orientation each host uses.

In these modules settings are read once before a frame's passes, and a host acts between two frames. OpenFX hosts may in fact load
a preset while they render (`openfx-plugin/src/lib.rs:553` reads parameters one by one). `Opened` is a
project of an older version in After Effects, whose missing parameters take the legacy values; an OpenFX host gives them
the defaults, which is another look (`propDefault`): such projects are opened in After Effects only. Presets of ntscQT are not
clamped when read but are when saved and read again: they are loaded, not saved on. What an OpenFX
host's controls show right after a preset or an old project is loaded depends on the host's notification, which
`ControlsFollowGroups` waits for (`stale`).

## Runs

Sizes are distinct states.

| Run | Question | Bounds | Result |
|---|---|---|---|
| `runner_single` | Is every frame fresh or an error, does the fallback policy hold, does every call return? | one thread, every preference, every kind, every outcome of initialization, every fault | holds, 498 808 |
| `runner_pair` | Do two threads' frames stay fresh, and what becomes of staging buffers that a failed poll leaves mapped? | two threads (symmetric), automatic requests, hardware found, poll failures and device loss; `"single"`, `"fields"` and `"direct"` frames | holds, 1 259 106 |
| `runner_upload_lost` | Is an explicit WGPU failure an error? | one thread, upload faults | violated |
| `runner_shared_errors` | The same with two threads | submission faults only | violated |
| `render_job` | Does a job's state follow its pipeline, do ended and closed jobs stay so, does a started one end? | one job, every control, every input | holds, 1 913 |
| `render_job_error_retained` | Does a failed job keep showing its error? | the same | violated |
| `cli` | Does the program return, with the outcome of a stopped pipeline? | two streaming threads, terminal or not, any input | holds, 14 658 |
| `cli_failure_returns` | Does a failed render return on a terminal? | one streaming thread | violated |
| `app` | Are tasks served, listings fresh, the preview in step with the application, and is there no circular wait? | five kinds of sessions, up to two acts each, one fault or none | holds, 248 003 |
| `app_rescale` | Does the interface's thread survive controls used while media loads? | the same, imprudent users | violated |
| `plugins` | Do settings survive presets and hosts, and does every pixel come from where it should? | every setting through every pair of neighbouring hosts; 95 renderings with two threads | holds, 60 403 |
| `gpu_effect` | Does the GPU deliver the planes the CPU computes? | clips of two frames, 82 settings, two outcomes of the random numbers | holds, 45 963 |

What they show:

* **runner_single**. `SubmitFailuresReported`: with one thread, no error of a submission, map or poll is
  lost. `FreshPixels`: Ok without a failed step means every field holds this call's output, through
  reuse of frames that earlier calls left invalid, stale or mapped. `RuntimeFailuresAreOwn`: errors left over by
  one call do not fail the next. `FallbackPolicy` and `AutoFallsBack` are the two halves of the policy in
  `GPU_PORT_SPEC.md`: who may be served by the CPU, and who must be. `NoMixedFrame`: a frame is never
  partly the CPU's. `StagingReleased`, over the step that ends a readback: with whatever outcome it ends, runtime errors, lost devices and
  retries included, the staging buffers it used are unmapped. One end is excepted, by name: `wait_for_submitted_work` returns from a failed
  poll of the YIQ path before anything is unmapped. `EveryCallReturns` is liveness.
* **runner_pair** shows that freshness survives two threads; the properties that attribute errors do
  not, which is what the next two runs show. It also takes up the exception of `StagingReleased`. The next copy into the buffers is rejected and
  its error goes to the shared list, where another thread may clear or take it; `LeftMappedIsReported` says that the frame is not delivered all the
  same, because the map requests are rejected too and `finish_download_after_poll` asks every receiver first. A direct frame in between
  does not repair the fault: its readback frees one buffer of three.
* **runner_upload_lost**: `apply_effect_and_enqueue_download` calls `begin_execution` after the upload
  and so forgets an upload's error (a finding).
* **runner_shared_errors**: the error list belongs to the process; one runner's `begin_execution`
  erases, or its readback takes, another's error (a finding).
* **render_job**. `StateTracksPipeline` relates the job's state to the pipeline's between reports;
  `CompleteMeansEos`; `NeverRestarted` and `ClosedStaysStopped` name the one exception, the loading callback
  that was still to run (`loader = "late"`): it holds the pipeline and sets it playing, whatever happened meanwhile.
  `StartedJobEnds` is liveness.
* **render_job_error_retained**: a later state change or the end-of-stream task overwrites the error (a finding).
* **cli**. `CompleteMeansStopped`: the file is final when success is printed. `VideoReturns` and
  `OutcomeReturned` are liveness: no wake-up is lost between `poll`, the handlers and the end-of-stream task.
* **cli_failure_returns**: the handler holds the job's state and asks for the output; the display thread
  holds the output and asks for the job's state (a finding).

* **gpu_effect**. `DeliveredMatchesCpu`: the order, conditions, seeds, filters and fallbacks of the stages agree, each
  scratch copy is taken at the right moment, filters by rows and by blocks may be mixed, and nothing an earlier
  frame left behind is seen. `DispatchReadsItsData`: no slot is overwritten before its reader ran. `TypeOK`
  also says that no submission needs more uniform slots than the ring has.

* **app**. `TasksImplementPool` is the refinement: the executor, with tasks woken by other threads at any moment, implements
  `TaskPool`, its liveness included; `NoLostWake` is the reason. `ListingFresh`: when nothing is in flight, a listing
  shows its directory, in whatever order reloads and failing operations ended; it excludes a folder
  whose listing a reload of the root replaced while operations were counted on the old one (`lost`), where the code does leave the
  new one stale. `TextureCurrent` and `SinkFollowsApp`: frame, settings and mode of the texture are the last ones, across two drawing threads and
  replaced pipelines. `NoExecutorDeadlock`: while the interface's thread waits for a job's streaming thread, that thread is not about to
  spawn. `EosPauses` is liveness: the bus handler's repaint is what brings the frame that pauses. `RecentFilesOrdered`. `TypeOK` says in addition who may hold the
  texture in which phase, dropped pipelines included.
* **app_rescale**: `rescale_video` unwraps an element that is made when the video's pad appears (a finding).
* **plugins**. `EveryRowOnce` for each loop that runs; `FrameAsReference` compares every pixel of every rendered frame with a
  definition that knows nothing of planes, buffers or loops. `LooksKept`: after any changes, saves and loads, each host
  renders the settings its user means. `ControlsFollowGroups`: controls are disabled exactly when the effect
  ignores them. `TypeOK`: settings stay in range whatever a preset says.

`CHECK_DEADLOCK FALSE` stands in the configurations of jobs, of a clip and of the plugins' sessions, which end. The runner's and the application's are checked for deadlock.

### Bounds

The runner, the render job and the command line have no counters: instances are small in the number of actors and of inputs only. The others
bound what happens in a session, as follows.
Two threads suffice for the runner's shared state because a third adds only another writer of the same set and
the same flag. Calls follow one another for ever, so frames are reused in every state an earlier call can leave.
Two streaming threads let two handlers contend for a mutex, and an error overlap the end of the stream.
`runner_pair` takes fewer preferences, kinds and faults than `runner_single`, which has all of them together. A preference
concerns the thread alone; the automatic one adds the retry. Poll failures bring the errors of the shared list with them, since a copy into mapped
buffers is rejected whatever the faults, and a lost device the flag.

`GpuEffect` runs clips of two frames (`LastFrame = 1`): the second one finds every buffer in use, writes left by a
failed encoding and a device that is still busy, and a third would find the same. Settings are
independent switches, so `MCSettings` takes them where they meet: every pair of the stages that share scratch
planes or uniforms, all stages but each one, each other setting in each of its values, every kind of field
with heights 1 to 3, and both outputs; never the full product.

`App` is bounded by sessions. A session names the kinds of things its user does (`Sessions`) and how many (`Acts`);
kinds go together where their state meets: presets with effects (loading one sets the settings), media with effects, with audio, with
rendering. Two acts suffice to overlap two operations, two reloads, or a change and a load, and each act may spawn tasks
that the next one meets at any step. Longer sessions go without faults, the others may have one file fault and one pipeline error (`MaxFaults`, `Errors`): two
failures at once only compose what one leaves behind. `Presets` with effects takes one act, to keep the run short; each kind has two when it is alone. `MaxTasks = 14` is never reached by a session and
serves the abstract pool. Two files and one in the folder give renames a target that exists and one that does not. `RecentLimit = 2` (the code: 10) makes the list overflow
at the third file. `MaxJobs = 1`: jobs share nothing but the executor.
`Prudent` users do not scale a video before it appeared; `app_rescale` has the others.

`Plugins`: settings are independent of each other but for groups, so each session changes one setting (`focus`) and its
groups, from a project where all others are unusual. Three acts are change, save and load in the next host, or load, change, save. Heights 1 to 5 and 9 make every combination of
parity with one, two or more rows per field and of whole or partial chunks for two threads (two filter rows at once); more threads are the proof's
business. Two frames show what a reused buffer keeps. Layers lie at odd and even rows, start inside the frame, and exceed it; those of one row are excluded (hazard at
`yiq_fielding.rs:617`). `Lengths` and `Sizes` belong to `LoopSpec`, which only the proof uses, and are empty here: `Plugins` runs the same actions for
the loops its frames need.

### Fairness

* `WgpuRunner`: a worker thread inside a call goes on (weak fairness per thread). No caller need call.
* `RenderJob`: GStreamer commits what it was asked for and prerolls and ends a *sound* input; nothing is
  assumed of it after an error. The host thread runs tasks between frames: a task is disabled while a frame is
  drawn and enabled again and again, hence strong fairness. The user need not click.
* `App`: the interface's thread goes on once a frame has been asked for, but not by itself from `idle` (the user's events need
  never come); pool threads finish; a frame being drawn gets drawn. Strong fairness for the interface's thread on the sink's mutexes,
  which streaming threads release between frames that are paced by the clock. Dialogs need not be answered, media need not load or end.
* `GpuEffect`, `Plugins`: none, their properties are safety properties.
* `CliRender`: threads go on; a mutex that is freed again and again reaches a thread that keeps asking (strong
  fairness of each thread's steps). `std::sync::Mutex` does not promise it, but starvation against a thread
  that sleeps a thirtieth of a second between rounds is no behaviour worth reporting. A deadlock needs none of this: its threads
  are disabled for good.

## Proofs

A property that a theorem states has a run that shows it on a small instance; the theorem shows it for every value of the constants.

`WgpuRunnerProofs` proves, for any set of threads and any constants that satisfy the assumptions:

* `TypeCorrect`: `Spec => []TypeOK`. The invariant is inductive as it stands; its four parts are proved per action.
* `FallbackPolicyHolds` and `AutoFallsBackHolds`. The result of a call says nothing about how it
  came about, so `PolicyInv` adds what holds while a call is under way: it has no result yet and only errors that
  nobody falls back on; past the prologue the runner is a WGPU one; and a cached runner that resolved to the CPU
  has an initialization or adapter reason. Only the steps of the thread itself matter (`OtherThreads`).
* `SubmitFailuresReportedHolds`: for a single thread. The strengthening says that from the first failed step
  on, either the error is still in the list, or the call's error is set; with another thread its first half is
  false, which is what `runner_shared_errors` exhibits.

Its second half proves more, from the invariant `FrameInv`, a conjunction over the threads: where the
loop over the fields stands (`SlotAt`), CPU pixels appear only with the result that announces them (`OneBackendAt`), the readback
loop unmaps what it leaves behind (`UnmappedAt`), and, while no step of the call failed, at which step which buffer holds input
or output (`FreshAt`). A step of one thread leaves the buffers of the others alone, so one lemma per step suffices.

* `FreshPixelsHolds`, `NoMixedFrameHolds`, `StagingReleasedHolds`: for any set of threads. The last is an action property: the only steps
  that leave the readback are the failed poll, and the end of the last slot, where all slots are behind (`ReleaseStep`).
* `LeftMappedIsReportedHolds`: for any set of threads, from `LeftMappedInv`: after a copy into mapped buffers the call has an error, or
  a slot it has still to read has a rejected map request; a slot about to be copied out has none. Nothing in it mentions the shared list, which is why
  other threads cannot break it.
* `RuntimeFailuresAreOwnHolds`: for a single thread, from `OwnInv`: between a call's start and its end the error list holds errors of this
  call only, because `begin_execution` has emptied it. A second thread breaks this (`runner_shared_errors`).

`RenderJobProofs` proves, for any inputs and any controls the job may be given:

* `TypeCorrect`, `StateTracksPipelineHolds`, `CompleteMeansEosHolds`, `NeverRestartedHolds`, `ClosedStaysStoppedHolds`. They
  hold together, as parts of `JobInv`: a report under way is of the pipeline's present state (`ReportInv`), a pipeline whose target is Null is
  there, by the end-of-stream task or by closing (`StopInv`), that task leaves nothing a widget could start again
  (`EosInv`), and a closed job has no widget (`ClosedInv`).

`CliRenderProofs` proves, for any set of streaming threads, any inputs and any output:

* `TypeCorrect`: `Spec => []TypeOK`, with the places each kind of thread may be at.
* `CompleteMeansStoppedHolds`: `Spec => []CompleteMeansStopped`. The property looks at the returned outcome only;
  `StopInv` adds why it holds: one streaming thread handles the end of the stream, before any task exists; while the main
  thread stops the pipeline no streaming thread reports a change and nothing but Null was asked for; and the state
  becomes complete only then.

`RowLoopProofs` proves, for any number of threads, any lengths of buffers and sizes of chunks:

* `EveryRowOnceHolds`: `LoopSpec => []EveryRowOnce`. The loop stops cutting when a counter of heads says so, and
  that counter adds one for a partial chunk that the quotient or the remainder has counted already; that heads are numerous and long enough all the same is arithmetic
  (`CutsAddUp` on how many chunks were dealt after so many heads, `NothingLeft` when the counter ends). `LoopInv` adds where heads lie: each begins at the chunk it is numbered
  with (`HeadsPlaced`), no two overlap (`HeadsApart`), they cover what was cut (`HeadsCover`), and calls cover what each head has done (`CallsCover`). One lemma per action,
  with nonlinear facts isolated in `TimesSum` to `DivCeilReaches`.

`GpuStagesProofs` and `GpuEffectProofs` prove, for any settings, any random numbers and clips of any length:

* `EffectStepsShowCpuEffect`: run one after the other on a frame that holds the input, the steps of `encode_effect` leave the planes
  that the CPU's stages compute, and need no more slots of the uniforms' ring than it has. Each stage is compared with its
  namesake: same condition, same operands, and a scratch plane copied before it is needed. Here a step means what it was encoded for.
* `Invariant`: `Spec => []IInv`. What a command will read depends on what the host writes and submits while the device lags behind, so
  `IInv` speaks of `After`, what the device will hold when it has executed all that is queued. A step of the device leaves `After` as it is; a
  submission adds to it. `HostInv` says where the call stands, `DeviceInv` that all commands in the queue will read their rows (`After.ok`)
  and belong to frames that were uploaded, `FieldsInv` that each submitted field will hold the CPU's planes (`FieldShown`) and, from the download on, that the staging
  buffers will (`DeliveredIn`). That one field's commands leave the other's planes alone, and that a failed encoding leaves nothing but writes that are
  made again, are its lemmas.
* `TypeCorrect`, `DataIsRead` (`DispatchReadsItsData`) and `DeliversCpuPlanes` (`DeliveredMatchesCpu`) follow from it.

Encoding and the CPU's effect are recursive *functions* over lists whose length is a setting's; the library's induction theorems cannot be used, but
its theorem on minima (`WFMin`, on the order of the naturals) can, and gives what is needed of a recursion: that the function exists and unfolds
(`LeastElement` and the lemmas after it). The stages are then unfolded one by one.

`PluginsProofs` proves, for any list of settings, any sessions, pictures, numbers of threads, and ways to split the rows:

* `ControlsShowTheEffect`: `Spec => []ControlsFollowGroups`, from `HostInv`. A host's parameters read as settings in their
  ranges (`ParamsRead`), and the controls of a host that was told of its last change are those that its settings disable (`ControlsShow`). Groups may be in groups.
* `SettingsAreMeant`: `FilesSayWhatIsRead => (Spec => []LooksKept)`, from `KeptInv`: what is written to parameters, sliders or a preset is
  read back (`ParamReadsBack`, `JsonRoundTrip`), and a control changes its own setting only (`AeIdsApart`). The hypothesis is about files a session starts with, those that
  no host of the model wrote: what they stand for is told with them, and the sessions of `MCPlugins` tell it key by key, for old, foreign and damaged ones, and satisfy the hypothesis (TLC evaluated it). Files that
  hosts write need no hypothesis.
* `EveryRowOnceInFrames` (`EveryRowOnce`): the loops of all passes are those of `RowLoopProofs`.
* `FramesAreTheReference`: `Spec => []FrameAsReference`. `FrameIs` says of every sample of the planes and every pixel of the picture what it holds, by
  the number of passes begun (`Begun`) and the offsets that the loop which runs is done with (`Done`): blank or left from the frame before, the layer's pixel, that pixel filtered with its row's number; nothing or what is expected.
  One lemma per pass shows that a chunk changes its own samples only, and to what it should (`SetRowDoes`, `FilterDoes` and
  `PlacesInViews` for the views' places in one buffer). What rows of a picture a view has, in each field and from each offset, is in `HalvesOf`, `OwnRowInPlanes` and
  `OtherRowInPlanes`. `PassInv` ties the pass that runs to the list of passes.
* `TypeCorrect`, with settings in range for any preset file.

These hold together in `PluginsInv`. Their assumptions are checked on the concrete tables and sessions: `DescriptorsAssumption` (numbers and names are not used twice, defaults
are in range, groups are settings, at most one deep in another group), `SessionsAssumption` (JSON's numbers are whole; ntscQT's are in range, see above), `MaxFramesAssumption`,
and `PicturesAssumption`, what each host asks for. The last one keeps out what the proof does not hold for, and what the code does there is not what a row's place calls for: a rectangle of one row in a higher
frame (hazard at `yiq_fielding.rs:617`), and a video of one row of which only the lower field is there: the one row counts as the upper field's, and is left unwritten
(`yiq_fielding.rs:843`). The second was found by the proof: the runs had no such video.

The application's proofs, in `AppProofs`, follow `App` as a whole, for any sessions, acts, files, media, versions and bounds, each on the results of the one before.

On the executor:

* `NoLostWakeHolds`: `Spec => []NoLostWake`. Between frames the property is about the repaint flag alone; what keeps it is that
  whoever rouses a task sets the flag and only a frame that then polls clears it (`WakesFrame`), and that a frame does not end with a
  function left to run (`TaskTypes`). `OnceEach`, that no task is listed twice or beside its own function, makes names good for the next theorem.
* `TasksRefinePool`: the safety half of `Pool!Spec`: each action of the application a step of the abstract pool or a
  stutter. This is `TasksImplementPool` but for its liveness, that what was woken is served, which TLC checks. `Kept` says what a
  finished round keeps of the list (`executor.rs` drains it in order); it is written with `CHOOSE` and a count rather than
  recursion, and the lemmas about it are what collecting needs.

On the preview, from `PreviewInv` and `RecentInv`:

* `TextureCurrentHolds`: the texture is current, or somebody is on the way to draw it (`DrawnInTime`), and whoever holds it
  is drawing (`Holders`).
* `SinkFollowsAppHolds`: what the application has set is in the sink or in the call that brings it (`Brought`).
* `RecentFilesOrderedHolds`: for any limit from two on.

On types, listings and jobs:

* `TypeOKHolds`: a counter of operations that goes below zero is a type error (`active` is a `usize`), and nothing in the type of a counter forbids
  it. `CountsInv` does: a listing's counter is the number of futures and unrun functions that will decrement it (`Counting`),
  those of an earlier generation excepted (`Generations`, `LostOnes`). Types of futures come from `TypesInv`.
* `ListingFreshHolds`: a listing that is loaded but is not what its directory holds has somebody in flight that will load it again
  (`FreshInv`). An operation that ends with others counted leaves that to the last of them, which exists because the counter is not zero: `Counting` again.
* `NoExecutorDeadlockHolds`: a task that ends a job was spawned by the job's streaming thread, which has ended (`JobTasks`). That the two
  are the same job rests on names: a request has a name nobody else has, in a task, in the slot or in a job, one of the three
  (`RequestsAsk`, `RequestsApart`, `OneJobEach`), however many jobs there are.

`PaneStep` there lists what a step may do to the pane (a future goes on, fails, counts, sprouts others, ends), each with its lemma, so that
the invariants are proved about eight kinds of steps and not about the thirty actions one by one.

The proofs take the constants' named assumptions and nothing else: `TasksAssumption` (the bound on tasks is a number),
`RecentAssumption` (the limit is at least two; the code: 10), `MediaAssumption` and `PresetsAssumption` (there is a file to open, and the recent one is another; there are
preset files, and versions to write), `VersionsAssumption` (settings are numbered from 0), `SettingsAssumption`, `DrawsAssumption` and `LastFrameAssumption` (the types of `GpuEffect`'s inputs), those
of `Plugins` above, and those of `WgpuRunner`, `CliRender`, `RenderJob` and `RowLoop` on their sets of
actors and inputs.

All safety properties of the passing runs are theorems. Only model-checked is what is out of the provers' reach:

* liveness, which needs fairness and ENABLED: `EveryCallReturns`, `StartedJobEnds`, `VideoReturns`,
  `OutcomeReturned`, `EosPauses`, and the liveness of `TasksImplementPool`;
* that the tables of `Settings` and the sessions of `MCPlugins` satisfy the assumptions, and that the files there are read as what
  they stand for: they are concrete, and TLC enumerates them.

## Not modelled

The arithmetic of filters, noise, colours and shaders (floating point); widgets, dialogs and
text; argument parsing; packaging. Encoder construction in `RenderJob::create` is pure set-up. Within the modelled
parts:

* backend: profiling and bind-group caches, `apply_effect_async` and `try_finish_download` (called by tests and benches only);
  the manager in `ntscrs/src/backend`, which only `apply_effect_to_yiq_with_runtime` uses and no host calls;
* command line: the overwrite prompt and the single-image seek;
* application: seeking and the position, framerate, low latency, deselecting by Reset, more than one folder, installing several files at once,
  the history behind undo and redo (any version may come back), progress and remaining time; `main.rs` after line 2449 is not reachable;
* settings: easy mode, which a constant switches off (main.rs:73; its descriptors give two settings the same number), and number syntax;
* pictures: pixel formats, sRGB tables, proxy scale, padding of the application's input, negative row lengths (OpenFX) and
  negative origins (After Effects), destinations larger than the source (OpenFX);
* plugins: the hosts' own handles, suites and threads.

## Plan

Done: every module of the table above. Left, in order of worth:

1. `RenderJob` as a refinement of the job in `RenderQueue`, and several jobs at once.
2. Seeking and the position in `Preview`.
3. Parameters read one by one while an OpenFX host loads a preset.
