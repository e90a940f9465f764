CONSTANTS
  Strings = {"remote_addr", "interface_addr", "release", "user", "group",
             "log_filename", "battery_script"}
  Timeouts = {0, 60}
SPECIFICATION Spec
INVARIANTS StartupInv RunsAsConfigured NothingLeft AbortsAlone
PROPERTY NothingReleasedEarly
