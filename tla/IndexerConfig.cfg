SPECIFICATION Spec
CONSTANTS
    Numbers = {1, 2, 3}
    Limits = {50, 100}
PROPERTY ListsAsConfigured
