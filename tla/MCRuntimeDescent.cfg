CONSTANTS
  fs_read = fs_read
  fs_write = fs_write
  http_request = http_request
  ipc_request = ipc_request
  notify_send = notify_send
  proc_observe = proc_observe
  process_run = process_run
  state_read = state_read
  state_write = state_write
  timer_observe = timer_observe
  transform_extract = transform_extract
  transform_summarize = transform_summarize
  Capability = {fs_read, fs_write, http_request, ipc_request, notify_send, proc_observe, process_run, state_read, state_write, timer_observe, transform_extract, transform_summarize}
  Foreign = {}
  Rank <- RankValue
  Landscapes <- AllLandscapes
  Budgets <- MCBudgets
  Endless <- Unlimited
SPECIFICATION Spec
INVARIANTS BaselineIsCurrent ConvergedIsLocal CertifiedIsSettled OutputKept ConvergedIsCertified
PROPERTIES CommitsDescend Converges
CHECK_DEADLOCK FALSE
